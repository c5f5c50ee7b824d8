---------------------------- MODULE HolderTracking ----------------------------
(***************************************************************************)
(* Lazy holder tracking of one mint: the indexer is told to track the      *)
(* holders of a token while clients sit in the token's holders room.       *)
(* Mints share no state, so one is enough.                                 *)
(*                                                                         *)
(* The service keeps a state object per mint in a map, and a call that     *)
(* awaits a publish keeps its reference to the object it found, whatever   *)
(* happens to the map meanwhile.  Objects are therefore explicit here.     *)
(***************************************************************************)
EXTENDS Integers, Sequences, FiniteSets

CONSTANTS
  Clients,
  States,      \* identities of TrackedMintState objects
  NoState,
  Faults,      \* which of "disconnect", "duplicate", "redis", "restart" occur
  MaxCount,    \* bound: subscriberCount
  MaxPipe,     \* bound: publishes awaited at once
  MaxTimers    \* bound: grace timers running at once

ASSUME TrackingAssumption ==
  /\ NoState \notin States
  /\ Faults \subseteq {"disconnect", "duplicate", "redis", "restart"}
  /\ MaxCount \in Nat /\ MaxPipe \in Nat /\ MaxTimers \in Nat

VARIABLES
  inRoom,     \* the clients socket.io has in the holders room
  current,  \* the object trackedMints holds for the mint
  heap,     \* the objects in use
  orphans,  \* running timers whose handle has been lost
  pipe,     \* commands published whose reply is awaited, in order
  indexer,  \* does the indexer track the mint?
  lost      \* history: the last publish to settle had failed

trackingVars == <<inRoom, current, heap, orphans, pipe, indexer, lost>>

State   == [count : 0..MaxCount, tracked : BOOLEAN, timer : {"none", "running", "fired"}]
HolderCommand == [action : {"track", "untrack"}, state : States]
NewState   == [count |-> 0, tracked |-> FALSE, timer |-> "none"]

TrackingTypeOK ==
  /\ inRoom \subseteq Clients
  /\ current \in States \cup {NoState}
  /\ heap \in [States -> State]
  /\ orphans \in 0..MaxTimers
  /\ pipe \in Seq(HolderCommand) /\ Len(pipe) <= MaxPipe
  /\ indexer \in BOOLEAN
  /\ lost \in BOOLEAN

TrackingInit ==
  /\ inRoom = {}
  /\ current = NoState
  /\ heap = [s \in States |-> NewState]
  /\ orphans = 0
  /\ pipe = <<>>
  /\ indexer = FALSE
  /\ lost = FALSE

Awaited(commands) == {commands[i].state : i \in DOMAIN commands}

Publish(action, s) ==
  /\ Len(pipe) < MaxPipe
  /\ pipe' = Append(pipe, [action |-> action, state |-> s])

(***************************************************************************)
(* The socket gateway and the service                                      *)
(***************************************************************************)

(* Mutant: the mint is marked as tracked before the command is sent.       *)
JoinMutant(c, s, timer) ==
  LET count == heap[s].count + 1 IN
  /\ count <= MaxCount
  /\ inRoom' = inRoom \cup {c}
  /\ current' = s
  /\ heap' = [heap EXCEPT ![s] = [count |-> count, tracked |-> TRUE, timer |-> timer]]
  /\ IF count = 1 /\ ~heap[s].tracked THEN Publish("track", s) ELSE UNCHANGED pipe
  /\ UNCHANGED <<orphans, indexer, lost>>

(* The part of onHolderRoomJoin before its await; timer is the object's    *)
(* timer afterwards.                                                       *)
Join(c, s, timer) ==
  LET count == heap[s].count + 1 IN
  /\ count <= MaxCount
  /\ inRoom' = inRoom \cup {c}
  /\ current' = s
  /\ heap' = [heap EXCEPT ![s].count = count, ![s].timer = timer]
  /\ IF count = 1 /\ ~heap[s].tracked THEN Publish("track", s) ELSE UNCHANGED pipe
  /\ UNCHANGED <<orphans, indexer, lost>>

(* The object of the mint, or a new one when the map has none.             *)
Found(s) ==
  IF current = NoState THEN s \notin Awaited(pipe) /\ heap[s] = NewState ELSE s = current

(* token:subscribe; a pending untrack is cancelled.                        *)
Subscribe(c) ==
  /\ c \notin inRoom \/ "duplicate" \in Faults
  /\ \E s \in States : Found(s) /\ Join(c, s, "none")

Decrement(n) == IF n = 0 THEN 0 ELSE n - 1

RunningTimer == IF current # NoState /\ heap[current].timer = "running" THEN 1 ELSE 0

(* token:unsubscribe; leaving an empty, tracked room starts a grace timer, *)
(* and the handle of a timer that is still running is overwritten.         *)
Unsubscribe(c) ==
  /\ c \in inRoom \/ "duplicate" \in Faults
  /\ inRoom' = inRoom \ {c}
  /\ \/ current = NoState /\ UNCHANGED <<heap, orphans>>
     \/ LET s == current
            count == Decrement(heap[s].count)
            idle == count = 0 /\ heap[s].tracked IN
        /\ s # NoState
        /\ idle => orphans + RunningTimer < MaxTimers
        /\ heap' = [heap EXCEPT ![s].count = count,
                                ![s].timer = IF idle THEN "running" ELSE @]
        /\ orphans' = IF idle THEN orphans + RunningTimer ELSE orphans
  /\ UNCHANGED <<current, pipe, indexer, lost>>

(* socket.io empties the rooms of a client that goes away; no handler      *)
(* tells the service.                                                      *)
Disconnect(c) ==
  /\ "disconnect" \in Faults
  /\ c \in inRoom
  /\ inRoom' = inRoom \ {c}
  /\ UNCHANGED <<current, heap, orphans, pipe, indexer, lost>>

IdleMint == current # NoState /\ heap[current].count = 0 /\ heap[current].tracked

(* untrackAfterGracePeriod up to its await.                                *)
UntrackIdle == IF IdleMint THEN Publish("untrack", current) ELSE UNCHANGED pipe

GraceEnds ==
  /\ current # NoState
  /\ heap[current].timer = "running"
  /\ heap' = [heap EXCEPT ![current].timer = "fired"]
  /\ UntrackIdle
  /\ UNCHANGED <<inRoom, current, orphans, indexer, lost>>

OrphanFires ==
  /\ orphans > 0
  /\ orphans' = orphans - 1
  /\ UntrackIdle
  /\ UNCHANGED <<inRoom, current, heap, indexer, lost>>

(* The publish settles: the indexer has the command, or an error has been  *)
(* logged and swallowed.  Then the code after the await runs on the object *)
(* it holds; after an untrack it deletes the mint from the map, whichever  *)
(* object is there by now.                                                 *)
Reply ==
  LET command == Head(pipe)
      s       == command.state
      untrack == command.action = "untrack"
      kept    == IF untrack THEN NoState ELSE current IN
  /\ pipe # <<>>
  /\ \/ indexer' = ~untrack /\ lost' = FALSE
     \/ "redis" \in Faults /\ lost' = TRUE /\ UNCHANGED indexer
  /\ pipe' = Tail(pipe)
  /\ current' = kept
  /\ orphans' = IF untrack THEN orphans + RunningTimer ELSE orphans
  /\ heap' = [x \in States |->
       IF x # kept /\ x \notin Awaited(Tail(pipe)) THEN NewState
       ELSE IF x = s THEN [heap[x] EXCEPT !.tracked = ~untrack]
       ELSE heap[x]]
  /\ UNCHANGED inRoom

(* The process restarts; some of the commands in flight were delivered.    *)
Restart ==
  /\ "restart" \in Faults
  /\ inRoom' = {}
  /\ current' = NoState
  /\ heap' = [s \in States |-> NewState]
  /\ orphans' = 0
  /\ pipe' = <<>>
  /\ lost' = FALSE
  /\ \/ UNCHANGED indexer
     \/ \E i \in DOMAIN pipe : indexer' = (pipe[i].action = "track")

TrackingStep ==
  \/ \E c \in Clients : Subscribe(c) \/ Unsubscribe(c) \/ Disconnect(c)
  \/ GraceEnds \/ OrphanFires \/ Reply \/ Restart

(* Timers fire and publishes settle; clients owe nothing.                  *)
TrackingFairness ==
  WF_trackingVars(GraceEnds) /\ WF_trackingVars(OrphanFires) /\ WF_trackingVars(Reply)

TrackingSpec == TrackingInit /\ [][TrackingStep]_trackingVars /\ TrackingFairness

-------------------------------------------------------------------------------
(***************************************************************************)
(* Properties                                                              *)
(***************************************************************************)

(* What the service believes to be tracked the indexer does track, unless  *)
(* the very last command was lost: commands of joins and timers that       *)
(* overlap never end in "isTracked" for a mint last untracked.             *)
TrackedIsKnown ==
  current # NoState /\ heap[current].tracked => indexer \/ lost

(* "When the last subscriber leaves, it waits for a grace period before    *)
(* sending 'untrack'" (holder-tracking.service.ts:15-16): a mint with      *)
(* subscribers is not untracked.  The code breaks this: a join during the  *)
(* awaited publish is forgotten with the object it joined.                 *)
NotUntrackedWhileSubscribed ==
  [][current # NoState /\ heap[current].count > 0 => current' # NoState]_trackingVars

(* The same lines: a mint without subscribers is untracked in the end.     *)
(* The code breaks this: a leave before the "track" command is answered    *)
(* starts no timer, and nothing starts one later.                          *)
EmptyRoomIsReleased == inRoom = {} /\ indexer ~> inRoom # {} \/ ~indexer
==============================================================================
