------------------------------ MODULE HolderRows ------------------------------
(***************************************************************************)
(* One wallet that holds one mint, as the indexer reports it: a hash and a *)
(* rank in Redis, and a row in the database that is written through a      *)
(* buffer flushed every five seconds.  An event is known by its number;    *)
(* a stored value is the number of the event it came from, 0 for none.     *)
(*                                                                         *)
(* Handlers of several events overlap.  Their Redis commands travel over   *)
(* one connection, so the k-th command of an older handler runs before the *)
(* k-th command of a younger one and is answered first; the database keeps *)
(* no such order.  Any command may be refused, its effect unknown, and a   *)
(* key may live out its 24 hours.                                          *)
(***************************************************************************)
EXTENDS Integers, FiniteSets

CONSTANTS
  LastEvent,   \* bound: events 1..LastEvent
  MaxFlights   \* bound: upserts awaited at once

ASSUME HolderAssumption == LastEvent \in Nat

VARIABLES
  next,     \* number of the next event
  hash,     \* HOLDER_MINT_WALLET
  ranked,   \* is the wallet in HOLDER_RANKING?
  buffer,   \* holderUpsertBuffer
  holder,   \* the row of the holders table
  updates,  \* handlers running: [ev, kind, step]
  flights,  \* upserts awaited
  told,     \* history: the last event, 0 when it was a removal
  outdated, \* history: since the last HSET or DEL a command failed or the hash expired
  raced     \* history: a write failed, or overlapped what it must not

pipeVars   == <<updates, flights>>
holderVars == <<next, hash, ranked, buffer, holder, pipeVars, told, outdated, raced>>

Events == 0..LastEvent
Kinds  == {"holding", "empty", "removed"}

HolderTypeOK ==
  /\ next \in 1..(LastEvent + 1)
  /\ {hash, buffer, holder, told} \cup flights \subseteq 0..(next - 1)
  /\ \A u \in updates : u.ev \in 1..(next - 1) /\ u.kind \in Kinds /\ u.step \in 1..5
  /\ 0 \notin flights

HolderInit ==
  /\ next = 1
  /\ hash = 0
  /\ ranked = FALSE
  /\ buffer = 0
  /\ holder = 0
  /\ updates = {}
  /\ flights = {}
  /\ told = 0
  /\ outdated = FALSE
  /\ raced = FALSE

(* onHolderUpdate starts for the next event.                               *)
HolderEvent(kind) ==
  /\ next <= LastEvent
  /\ next' = next + 1
  /\ told' = IF kind = "removed" THEN 0 ELSE next
  /\ updates' = updates \cup {[ev |-> next, kind |-> kind, step |-> 1]}
  /\ raced' = \/ raced
              \/ kind = "removed" /\ (updates # {} \/ flights # {})
              \/ \E u \in updates : u.kind = "removed"
  /\ UNCHANGED <<hash, ranked, buffer, holder, flights, outdated>>

Advance(u) == updates' = (updates \ {u}) \cup {[u EXCEPT !.step = @ + 1]}

(* The commands of an update: HSET, EXPIRE, ZADD or ZREM, EXPIRE; those of *)
(* a removal: ZREM, DEL.                                                   *)
HasCommand(u) == u.step <= IF u.kind = "removed" THEN 2 ELSE 4

Older(u) == {v \in updates : v.ev < u.ev /\ v.kind # "removed"}

Executed(u) ==
  IF u.kind = "removed"
  THEN /\ hash' = IF u.step = 2 THEN 0 ELSE hash
       /\ ranked' = (ranked /\ u.step # 1)
  ELSE /\ hash' = IF u.step = 1 THEN u.ev ELSE hash
       /\ ranked' = IF u.step = 3 THEN u.kind = "holding" ELSE ranked

Command(u) ==
  /\ HasCommand(u)
  /\ \A v \in updates : v.ev < u.ev /\ HasCommand(v) => v.step > u.step
  /\ Executed(u)
  /\ outdated' = (outdated /\ u.step # IF u.kind = "removed" THEN 2 ELSE 1)
  /\ Advance(u)
  /\ UNCHANGED <<next, buffer, holder, flights, told, raced>>

(* queueHolderUpsert, the last thing an update does.                       *)
Queue(u) ==
  /\ u.kind # "removed" /\ u.step = 5
  /\ Older(u) = {}
  /\ buffer' = u.ev
  /\ updates' = updates \ {u}
  /\ UNCHANGED <<next, hash, ranked, holder, flights, told, outdated, raced>>

(* Mutant: an update whose command failed is not queued.                   *)
RefusedMutant(u) ==
  /\ HasCommand(u)
  /\ outdated' = TRUE
  /\ Executed(u) \/ UNCHANGED <<hash, ranked>>
  /\ updates' = updates \ {u}
  /\ UNCHANGED <<next, buffer, holder, flights, told, raced>>

(* Redis is away or refuses a command: the others are not sent, but the    *)
(* row is queued, or dropped and deleted, all the same.  The row of an     *)
(* older update that is still answered is queued later.                    *)
Refused(u) ==
  /\ HasCommand(u)
  /\ outdated' = TRUE
  /\ Executed(u) \/ UNCHANGED <<hash, ranked>>
  /\ IF u.kind = "removed"
     THEN updates' = (updates \ {u}) \cup {[u EXCEPT !.step = 3]} /\ UNCHANGED <<buffer, raced>>
     ELSE updates' = updates \ {u} /\ buffer' = u.ev /\ raced' = (raced \/ Older(u) # {})
  /\ UNCHANGED <<next, holder, flights, told>>

(* The hash lives for 24 hours after the last EXPIRE, and so does the      *)
(* ranking of the mint.                                                    *)
HashExpires ==
  /\ hash # 0
  /\ hash' = 0
  /\ outdated' = TRUE
  /\ UNCHANGED <<next, ranked, buffer, holder, pipeVars, told, raced>>

RankingExpires ==
  /\ ranked
  /\ ranked' = FALSE
  /\ UNCHANGED <<next, hash, buffer, holder, pipeVars, told, outdated, raced>>

(* Mutant: a removal leaves the buffer alone.                              *)
DiscardMutant(u) ==
  /\ u.kind = "removed" /\ u.step = 3
  /\ Advance(u)
  /\ UNCHANGED <<next, hash, ranked, buffer, holder, flights, told, outdated, raced>>

(* A removal drops the buffered row, then deletes the stored one; an error *)
(* of the delete is logged.                                                *)
Discard(u) ==
  /\ u.kind = "removed" /\ u.step = 3
  /\ buffer' = 0
  /\ Advance(u)
  /\ UNCHANGED <<next, hash, ranked, holder, flights, told, outdated, raced>>

DeleteRow(u) ==
  /\ u.kind = "removed" /\ u.step = 4
  /\ \/ holder' = 0 /\ UNCHANGED raced
     \/ raced' = TRUE /\ UNCHANGED holder
  /\ updates' = updates \ {u}
  /\ UNCHANGED <<next, hash, ranked, buffer, flights, told, outdated>>

(* The timer: the buffer is emptied before the upsert is awaited.          *)
Flush ==
  /\ buffer # 0 /\ Cardinality(flights) < MaxFlights
  /\ flights' = flights \cup {buffer}
  /\ buffer' = 0
  /\ raced' = (raced \/ flights # {} \/ \E u \in updates : u.kind = "removed")
  /\ UNCHANGED <<next, hash, ranked, holder, updates, told, outdated>>

Stored(ev) ==
  /\ ev \in flights
  /\ holder' = ev
  /\ flights' = flights \ {ev}
  /\ UNCHANGED <<next, hash, ranked, buffer, updates, told, outdated, raced>>

(* The upsert fails: its row returns to the buffer, over a newer one.      *)
Failed(ev) ==
  /\ ev \in flights
  /\ flights' = flights \ {ev}
  /\ buffer' = ev
  /\ raced' = TRUE
  /\ UNCHANGED <<next, hash, ranked, holder, updates, told, outdated>>

HolderStep ==
  \/ \E kind \in Kinds : HolderEvent(kind)
  \/ \E u \in updates : Command(u) \/ Queue(u) \/ Refused(u) \/ Discard(u) \/ DeleteRow(u)
  \/ HashExpires \/ RankingExpires
  \/ Flush
  \/ \E ev \in flights : Stored(ev) \/ Failed(ev)

-------------------------------------------------------------------------------
(***************************************************************************)
(* Properties                                                              *)
(***************************************************************************)

(* When all is quiet the row is that of the last event, whatever became of *)
(* its Redis commands, and so is the hash unless a command failed or the   *)
(* hash expired since: updates that overlap each other are harmless.  Not  *)
(* so if a write to the database failed or overlapped another one or a     *)
(* removal, or a command failed while an older update was being answered.  *)
QuietHolderAgrees ==
  updates = {} /\ flights = {} /\ buffer = 0 /\ ~raced
    => /\ holder = told
       /\ ~outdated => hash = told /\ (ranked => hash # 0)

==============================================================================
