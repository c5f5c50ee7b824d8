----------------------------- MODULE RollingStats -----------------------------
(***************************************************************************)
(* The 24 hours of one mint as Redis keeps them: sorted sets of prices,    *)
(* volumes and transactions, each written by three commands, ZADD, the cut *)
(* of what is older than a day, EXPIRE.  Handlers of swaps overlap, though *)
(* not within the three commands of one set: a key does not expire between *)
(* its ZADD and its EXPIRE.  A member is the text of what it says and of   *)
(* its time: what is alike in the same instant is one member.  Reads do    *)
(* not cut.                                                                *)
(***************************************************************************)
EXTENDS Integers, FiniteSets, Functions, FiniteSetsExt

CONSTANTS
  StatSwaps,  \* bound: the swaps, [id, buys, volume, price], each handled once
  Day,        \* the window, in instants; a key outlives its last write by Day + 1
  LastInstant \* bound: the last instant

ASSUME DayAssumption ==
  /\ Day \in Nat \ {0} /\ LastInstant \in Nat
  /\ \A s \in StatSwaps : s.buys \in BOOLEAN /\ s.volume \in Nat /\ s.price \in Nat

VARIABLES
  instant,  \* Date.now()
  zsets,    \* TOKEN_PRICE_HISTORY, VOLUME_24H, TXNS_24H: sets of [at, price, what]
  expiry,   \* when each key expires
  writing,  \* each swap: the key it writes next, and its `now`
  failed    \* history: the swaps whose handler met an error

rollVars == <<instant, zsets, expiry, writing, failed>>

RollKeys == {"history", "volume", "txns"}
Forever == LastInstant + Day + 2

RollTypeOK ==
  /\ instant \in 0..LastInstant
  /\ \A k \in RollKeys : /\ expiry[k] \in 0..Forever
                         /\ \A m \in zsets[k] : m.at \in 0..LastInstant
  /\ \A s \in StatSwaps : /\ writing[s].key \in RollKeys \cup {"done"}
                          /\ writing[s].at \in 0..LastInstant
  /\ failed \subseteq StatSwaps

RollInit ==
  /\ instant = 0
  /\ zsets = [k \in RollKeys |-> {}]
  /\ expiry = [k \in RollKeys |-> Forever]
  /\ writing = [s \in StatSwaps |-> [key |-> "history", at |-> 0]]
  /\ failed = {}

(* `${priceUsd}:${now}`, `${volumeUsd}:${priceUsd}:${now}`,                *)
(* `${txType}:${priceUsd}:${now}`.                                         *)
MemberOf(s, key, at) ==
  [at |-> at, price |-> s.price,
   what |-> CASE key = "history" -> 0
              [] key = "volume"  -> s.volume
              [] key = "txns"    -> IF s.buys THEN 1 ELSE -1]

(* Mutant: what is a day old, to the instant, stays.                       *)
CutOldMutant(members, now) == {m \in members : m.at >= now - Day}

(* ZREMRANGEBYSCORE -inf (now - Day).                                      *)
CutOld(members, now) == {m \in members : m.at > now - Day}

Now(s) == IF writing[s].key = "txns" THEN writing[s].at ELSE instant

NextKey(key) == CASE key = "history" -> "volume" [] key = "volume" -> "txns" [] key = "txns" -> "done"

(* storePriceData and the halves of storeVolumeAndTxns, which share `now`. *)
StoreMember(s) ==
  LET key == writing[s].key
      now == Now(s) IN
  /\ key # "done"
  /\ zsets' = [zsets EXCEPT ![key] = CutOld(@ \cup {MemberOf(s, key, now)}, now)]
  /\ expiry' = [expiry EXCEPT ![key] = instant + Day + 1]
  /\ writing' = [writing EXCEPT ![s] = [key |-> NextKey(key), at |-> now]]
  /\ UNCHANGED <<instant, failed>>

(* An error is logged: the member may be there, uncut and unexpired; with  *)
(* the volume the transaction is given up too.  Bound: one error.          *)
StoreFails(s) ==
  LET key == writing[s].key IN
  /\ key # "done" /\ failed = {}
  /\ \/ UNCHANGED zsets
     \/ zsets' = [zsets EXCEPT ![key] = @ \cup {MemberOf(s, key, Now(s))}]
  /\ writing' = [writing EXCEPT ![s] = [key |-> IF key = "history" THEN "volume" ELSE "done",
                                        at  |-> Now(s)]]
  /\ failed' = {s}
  /\ UNCHANGED <<instant, expiry>>

(* A handler waits for Redis and for nothing else: an instant may go by    *)
(* between two of its writes, not a day.                                   *)
AtWork == {s \in StatSwaps : writing[s].key \in {"volume", "txns"}}

TimeGoesOn ==
  /\ instant < LastInstant
  /\ \A s \in AtWork : writing[s].at = instant
  /\ instant' = instant + 1
  /\ zsets' = [k \in RollKeys |-> IF expiry[k] <= instant' THEN {} ELSE zsets[k]]
  /\ expiry' = [k \in RollKeys |-> IF expiry[k] <= instant' THEN Forever ELSE expiry[k]]
  /\ UNCHANGED <<writing, failed>>

RollStep == TimeGoesOn \/ \E s \in StatSwaps : StoreMember(s) \/ StoreFails(s)

(***************************************************************************)
(* What is read of them                                                    *)
(***************************************************************************)

(* getVolume24h and getTxns24h, and readAggregates of the cron.            *)
Volume24h == SumFunction([m \in zsets["volume"] |-> m.what])
Buys24h   == Cardinality({m \in zsets["txns"] : m.what = 1})
Sells24h  == Cardinality({m \in zsets["txns"] : m.what = -1})

(* The price calculatePriceChange24h compares with: the first of the set,  *)
(* by time and then by its text; 0: none.                                  *)
OldestPrice ==
  LET first == {m \in zsets["history"] : \A n \in zsets["history"] : m.at <= n.at} IN
  IF first = {} THEN 0 ELSE Min({m.price : m \in first})

-------------------------------------------------------------------------------
Handled(age) == {s \in StatSwaps : writing[s].key = "done" /\ writing[s].at > instant - age}

Alike(s, t) ==
  /\ s.price = t.price /\ writing[s].at = writing[t].at
  /\ s.volume = t.volume \/ s.buys = t.buys

(* However the handlers of the swaps overlap: when none is at work, the    *)
(* day has the volume, the purchases and the sales of all swaps of the     *)
(* last day whose handler met no error, only that swaps alike in the same  *)
(* instant count as one; without errors it has nothing that is older than  *)
(* two days and an instant, and its oldest price is of one of those swaps. *)
StatsAreOfTheDay ==
  LET day    == Handled(Day) \ failed
      recent == Handled(2 * Day + 1)
      alike  == \E s, t \in day : s # t /\ Alike(s, t)
      SumOf(S) == SumFunction([s \in S |-> s.volume])
      Of(S, buys) == Cardinality({s \in S : s.buys = buys}) IN
  AtWork = {} =>
    /\ ~alike => /\ Volume24h >= SumOf(day)
                 /\ Buys24h >= Of(day, TRUE) /\ Sells24h >= Of(day, FALSE)
    /\ failed = {} =>
         /\ Volume24h <= SumOf(recent)
         /\ Buys24h <= Of(recent, TRUE) /\ Sells24h <= Of(recent, FALSE)
         /\ recent = {} => OldestPrice = 0
         /\ day # {} => OldestPrice \in {s.price : s \in recent}
===============================================================================
