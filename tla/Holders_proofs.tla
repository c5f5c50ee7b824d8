---------------------------- MODULE Holders_proofs ----------------------------
(***************************************************************************)
(* Proofs about those who hold and trade a mint: who is tracked, their     *)
(* rows and their positions.                                               *)
(***************************************************************************)
EXTENDS MCMarket, Tokens_proofs, FiniteSetTheorems, TLAPS

(***************************************************************************)
(* HolderTracking.  What the service believes tracked is, for any clients  *)
(* and states.                                                             *)
(***************************************************************************)
TrackingInv ==
  /\ inRoom \subseteq Clients
  /\ current \in States \cup {NoState}
  /\ heap \in [States -> State]
  /\ orphans \in Nat /\ orphans + RunningTimer <= MaxTimers
  /\ pipe \in Seq(HolderCommand) /\ Len(pipe) <= MaxPipe

TrackingFlags == indexer \in BOOLEAN /\ lost \in BOOLEAN

LEMMA StateFields ==
  ASSUME NEW h \in State
  PROVE  h.count \in 0..MaxCount /\ h.tracked \in BOOLEAN /\ h.timer \in {"none", "running", "fired"}
  BY Zenon DEF State

LEMMA NewStateFields == NewState \in State /\ NewState.tracked = FALSE /\ NewState.timer = "none"
<1>1. 0 \in 0..MaxCount
  BY TrackingAssumption
<1> QED
  BY <1>1, Zenon DEF NewState, State

LEMMA CommandFields ==
  ASSUME NEW k \in HolderCommand
  PROVE  k.action \in {"track", "untrack"} /\ k.state \in States
  BY DEF HolderCommand

LEMMA PublishEffect ==
  ASSUME TrackingInv, NEW action \in {"track", "untrack"}, NEW s \in States, Publish(action, s)
  PROVE  pipe' \in Seq(HolderCommand) /\ Len(pipe') <= MaxPipe
<1>1. [action |-> action, state |-> s] \in HolderCommand
  BY DEF HolderCommand
<1> QED
  BY <1>1, TrackingAssumption DEF Publish, TrackingInv

LEMMA TimerCounts == RunningTimer \in {0, 1} /\ (current = NoState => RunningTimer = 0)
  BY DEF RunningTimer

LEMMA TrackingInit0 == TrackingInit => TrackingInv /\ TrackedIsKnown /\ TrackingFlags
<1> SUFFICES ASSUME TrackingInit PROVE TrackingInv /\ TrackedIsKnown /\ TrackingFlags
  OBVIOUS
<1>1. /\ inRoom = {} /\ current = NoState /\ heap = [s \in States |-> NewState] /\ orphans = 0 /\ pipe = <<>>
  BY Zenon DEF TrackingInit
<1>2. TrackingFlags
  BY Zenon DEF TrackingInit, TrackingFlags
<1>3. TrackedIsKnown
  BY <1>1, Zenon DEF TrackedIsKnown
<1>4. TrackingInv
  BY <1>1, NewStateFields, TimerCounts, TrackingAssumption DEF TrackingInv
<1> QED
  BY <1>2, <1>3, <1>4

(* A client joins: the object of the mint, or a new one, is tracked as     *)
(* much as it was.                                                         *)
LEMMA SubscribeKeeps ==
  ASSUME TrackingInv, TrackedIsKnown, NEW c \in Clients, Subscribe(c)
  PROVE  TrackingInv' /\ TrackedIsKnown'
<1>1. PICK s \in States : Found(s) /\ Join(c, s, "none")
  BY DEF Subscribe
<1> DEFINE count == heap[s].count + 1
           q == [heap[s] EXCEPT !.count = count, !.timer = "none"]
<1>2. heap[s] \in State /\ heap[s].count \in 0..MaxCount /\ count \in 0..MaxCount
  BY <1>1, StateFields, TrackingAssumption DEF TrackingInv, Join
<1>3. q \in State /\ q.tracked = heap[s].tracked /\ q.timer = "none"
  BY <1>2, Zenon DEF State
<1>4. heap' = [heap EXCEPT ![s] = q]
  BY <1>1 DEF Join, TrackingInv
<1> HIDE DEF q
<1>5. heap' \in [States -> State] /\ heap'[s] = q
  BY <1>3, <1>4 DEF TrackingInv
<1>6. inRoom' = inRoom \cup {c} /\ current' = s /\ UNCHANGED <<orphans, indexer, lost>>
  BY <1>1 DEF Join
<1>7. pipe' \in Seq(HolderCommand) /\ Len(pipe') <= MaxPipe
  BY <1>1, PublishEffect DEF Join, TrackingInv
<1>8. RunningTimer' = 0
  BY <1>3, <1>5, <1>6 DEF RunningTimer
<1>9. TrackingInv'
  BY <1>5, <1>6, <1>7, <1>8, TimerCounts, TrackingAssumption DEF TrackingInv
<1>10. heap[s].tracked => current = s
  BY <1>1, NewStateFields, Zenon DEF Found
<1>11. TrackedIsKnown'
  BY <1>3, <1>5, <1>6, <1>10, TrackingAssumption, Zenon DEF TrackedIsKnown
<1> QED
  BY <1>9, <1>11

LEMMA UnsubscribeKeeps ==
  ASSUME TrackingInv, TrackedIsKnown, NEW c \in Clients, Unsubscribe(c)
  PROVE  TrackingInv' /\ TrackedIsKnown'
<1>1. inRoom' = inRoom \ {c} /\ UNCHANGED <<current, pipe, indexer, lost>>
  BY DEF Unsubscribe
<1>2. CASE UNCHANGED <<heap, orphans>>
  <2>1. TrackingInv'
    BY <1>1, <1>2 DEF TrackingInv, RunningTimer
  <2>2. TrackedIsKnown'
    BY <1>1, <1>2, Zenon DEF TrackedIsKnown
  <2> QED
    BY <2>1, <2>2
<1>3. CASE current # NoState /\ ~UNCHANGED <<heap, orphans>>
  <2> DEFINE h == heap[current]
             count == Decrement(h.count)
             idle == count = 0 /\ h.tracked
             timer == IF idle THEN "running" ELSE h.timer
             q == [h EXCEPT !.count = count, !.timer = timer]
  <2>1. current \in States /\ h \in State
    BY <1>3 DEF TrackingInv
  <2>2. /\ idle => orphans + RunningTimer < MaxTimers
        /\ heap' = [heap EXCEPT ![current] = q]
        /\ orphans' = IF idle THEN orphans + RunningTimer ELSE orphans
    BY <1>3, <2>1 DEF Unsubscribe, TrackingInv
  <2>3. count \in 0..MaxCount /\ timer \in {"none", "running", "fired"}
    BY <2>1, StateFields, TrackingAssumption DEF Decrement
  <2>4. q \in State /\ q.tracked = h.tracked /\ q.timer = timer
    BY <2>1, <2>3, Zenon DEF State
  <2> HIDE DEF q
  <2>5. heap' \in [States -> State] /\ heap'[current] = q
    BY <2>1, <2>2, <2>4 DEF TrackingInv
  <2>6. CASE idle
    <3>1. timer = "running"
      BY <2>6
    <3>2. RunningTimer' = 1
      BY <1>1, <1>3, <2>4, <2>5, <3>1 DEF RunningTimer
    <3> QED
      <4>1. orphans' = orphans + RunningTimer /\ orphans + RunningTimer < MaxTimers
        BY <2>2, <2>6
      <4>2. TrackingInv'
        BY <1>1, <2>5, <3>2, <4>1, TimerCounts, TrackingAssumption DEF TrackingInv
      <4>3. TrackedIsKnown'
        BY <1>1, <2>4, <2>5, Zenon DEF TrackedIsKnown
      <4> QED
        BY <4>2, <4>3
  <2>7. CASE ~idle
    <3>1. timer = h.timer /\ orphans' = orphans
      BY <2>2, <2>7
    <3>2. RunningTimer' = RunningTimer
      BY <1>1, <1>3, <2>4, <2>5, <3>1 DEF RunningTimer
    <3>3. TrackingInv'
      BY <1>1, <2>5, <3>1, <3>2 DEF TrackingInv
    <3>4. TrackedIsKnown'
      BY <1>1, <2>4, <2>5, Zenon DEF TrackedIsKnown
    <3> QED
      BY <3>3, <3>4
  <2> QED
    BY <2>6, <2>7
<1> QED
  BY <1>2, <1>3 DEF Unsubscribe

LEMMA DisconnectKeeps ==
  ASSUME TrackingInv, TrackedIsKnown, NEW c \in Clients, Disconnect(c)
  PROVE  TrackingInv' /\ TrackedIsKnown'
<1>1. inRoom' = inRoom \ {c} /\ UNCHANGED <<current, heap, orphans, pipe, indexer, lost>>
  BY DEF Disconnect
<1>2. TrackingInv'
  BY <1>1 DEF TrackingInv, RunningTimer
<1>3. TrackedIsKnown'
  BY <1>1, Zenon DEF TrackedIsKnown
<1> QED
  BY <1>2, <1>3

LEMMA UntrackIdleEffect ==
  ASSUME TrackingInv, UntrackIdle
  PROVE  pipe' \in Seq(HolderCommand) /\ Len(pipe') <= MaxPipe
<1>1. CASE IdleMint
  <2>1. current \in States /\ Publish("untrack", current)
    BY <1>1 DEF IdleMint, UntrackIdle, TrackingInv
  <2> QED
    BY <2>1, PublishEffect
<1>2. CASE ~IdleMint
  BY <1>2 DEF UntrackIdle, TrackingInv
<1> QED
  BY <1>1, <1>2

LEMMA TimerKeeps ==
  ASSUME TrackingInv, TrackedIsKnown, GraceEnds \/ OrphanFires
  PROVE  TrackingInv' /\ TrackedIsKnown'
<1>1. pipe' \in Seq(HolderCommand) /\ Len(pipe') <= MaxPipe
  BY UntrackIdleEffect DEF GraceEnds, OrphanFires
<1>2. UNCHANGED <<inRoom, current, indexer, lost>>
  BY DEF GraceEnds, OrphanFires
<1>3. CASE GraceEnds
  <2> DEFINE q == [heap[current] EXCEPT !.timer = "fired"]
  <2>1. current \in States /\ heap[current] \in State /\ orphans' = orphans
    BY <1>3 DEF GraceEnds, TrackingInv
  <2>2. q \in State /\ q.tracked = heap[current].tracked /\ q.timer = "fired"
    BY <2>1, Zenon DEF State
  <2>3. heap' = [heap EXCEPT ![current] = q]
    BY <1>3 DEF GraceEnds
  <2> HIDE DEF q
  <2>4. heap' \in [States -> State] /\ heap'[current] = q
    BY <2>1, <2>2, <2>3 DEF TrackingInv
  <2>5. RunningTimer' = 0
    BY <1>2, <2>2, <2>4 DEF RunningTimer
  <2>6. TrackingInv'
    BY <1>1, <1>2, <2>1, <2>4, <2>5, TimerCounts, TrackingAssumption DEF TrackingInv
  <2>7. TrackedIsKnown'
    BY <1>2, <2>2, <2>4, Zenon DEF TrackedIsKnown
  <2> QED
    BY <2>6, <2>7
<1>4. CASE OrphanFires
  <2>1. orphans > 0 /\ orphans' = orphans - 1 /\ heap' = heap
    BY <1>4 DEF OrphanFires
  <2>2. RunningTimer' = RunningTimer
    BY <1>2, <2>1 DEF RunningTimer
  <2>3. TrackingInv'
    BY <1>1, <1>2, <2>1, <2>2, TimerCounts, TrackingAssumption DEF TrackingInv
  <2>4. TrackedIsKnown'
    BY <1>2, <2>1, Zenon DEF TrackedIsKnown
  <2> QED
    BY <2>3, <2>4
<1> QED
  BY <1>3, <1>4

(* A publish settles: after a "track" the indexer knows the mint or the    *)
(* command is lost, and after an "untrack" the map has no object.          *)
LEMMA ReplyKeeps ==
  ASSUME TrackingInv, TrackedIsKnown, Reply
  PROVE  TrackingInv' /\ TrackedIsKnown'
<1> DEFINE s == Head(pipe).state
           untrack == Head(pipe).action = "untrack"
           kept == IF untrack THEN NoState ELSE current
           q == [heap[s] EXCEPT !.tracked = ~untrack]
<1>1. /\ pipe # <<>> /\ pipe' = Tail(pipe) /\ current' = kept
      /\ orphans' = IF untrack THEN orphans + RunningTimer ELSE orphans
      /\ heap' = [x \in States |-> IF x # kept /\ x \notin Awaited(Tail(pipe)) THEN NewState
                                   ELSE IF x = s THEN [heap[x] EXCEPT !.tracked = ~untrack] ELSE heap[x]]
      /\ inRoom' = inRoom
  BY DEF Reply
<1>2. Head(pipe) \in HolderCommand /\ Tail(pipe) \in Seq(HolderCommand) /\ Len(Tail(pipe)) <= MaxPipe
  BY <1>1, TrackingAssumption DEF TrackingInv
<1>3. s \in States /\ heap[s] \in State
  BY <1>2, CommandFields DEF TrackingInv
<1>4. q \in State /\ q.timer = heap[s].timer
  <2>1. (~untrack) \in BOOLEAN
    BY Zenon
  <2> QED
    BY <1>3, <2>1, Zenon DEF State
<1>5. \A x \in States : heap'[x] \in {NewState, q, heap[x]}
                        /\ (x = kept => heap'[x].timer = heap[x].timer)
  BY <1>1, <1>3, <1>4
<1> HIDE DEF q
<1>6. heap' \in [States -> State]
  BY <1>1, <1>4, <1>5, NewStateFields DEF TrackingInv
<1>7. CASE untrack
  <2>1. current' = NoState /\ orphans' = orphans + RunningTimer
    BY <1>1, <1>7
  <2>2. RunningTimer' = 0
    BY <2>1 DEF RunningTimer
  <2>3. TrackingInv'
    BY <1>1, <1>2, <1>6, <2>1, <2>2, TimerCounts, TrackingAssumption DEF TrackingInv
  <2> QED
    BY <2>1, <2>3, Zenon DEF TrackedIsKnown
<1>8. CASE ~untrack
  <2>1. current' = current /\ orphans' = orphans
    BY <1>1, <1>8
  <2>2. RunningTimer' = RunningTimer
    <3>1. current # NoState => current \in States /\ heap'[current].timer = heap[current].timer
      BY <1>5, <1>8 DEF TrackingInv
    <3> QED
      BY <2>1, <3>1 DEF RunningTimer
  <2>3. TrackingInv'
    BY <1>1, <1>2, <1>6, <2>1, <2>2 DEF TrackingInv
  <2>4. indexer' \/ lost'
    BY <1>8, Zenon DEF Reply
  <2> QED
    BY <2>3, <2>4, Zenon DEF TrackedIsKnown
<1> QED
  BY <1>7, <1>8

LEMMA RestartKeeps ==
  ASSUME TrackingInv, Restart
  PROVE  TrackingInv' /\ TrackedIsKnown'
<1>1. inRoom' = {} /\ current' = NoState /\ heap' = [s \in States |-> NewState] /\ orphans' = 0 /\ pipe' = <<>>
  BY DEF Restart
<1>2. RunningTimer' = 0
  BY <1>1 DEF RunningTimer
<1>3. TrackingInv'
  BY <1>1, <1>2, NewStateFields, TrackingAssumption DEF TrackingInv
<1>4. TrackedIsKnown'
  BY <1>1, Zenon DEF TrackedIsKnown
<1> QED
  BY <1>3, <1>4

LEMMA TrackingInvStep ==
  TrackingInv /\ TrackedIsKnown /\ [TrackingStep]_trackingVars => TrackingInv' /\ TrackedIsKnown'
<1> SUFFICES ASSUME TrackingInv, TrackedIsKnown, [TrackingStep]_trackingVars
             PROVE  TrackingInv' /\ TrackedIsKnown'
  OBVIOUS
<1>1. CASE UNCHANGED trackingVars
  <2>1. TrackingInv'
    BY <1>1 DEF trackingVars, TrackingInv, RunningTimer
  <2>2. TrackedIsKnown'
    BY <1>1, Zenon DEF trackingVars, TrackedIsKnown
  <2> QED
    BY <2>1, <2>2
<1>2. CASE TrackingStep
  BY <1>2, SubscribeKeeps, UnsubscribeKeeps, DisconnectKeeps, TimerKeeps, ReplyKeeps, RestartKeeps, Zenon
  DEF TrackingStep
<1> QED
  BY <1>1, <1>2

LEMMA TrackingFlagsStep == TrackingFlags /\ [TrackingStep]_trackingVars => TrackingFlags'
<1> SUFFICES ASSUME TrackingFlags, [TrackingStep]_trackingVars PROVE TrackingFlags'
  OBVIOUS
<1>1. CASE Reply
  BY <1>1, Zenon DEF Reply, TrackingFlags
<1>2. CASE Restart
  BY <1>2, Zenon DEF Restart, TrackingFlags
<1>3. CASE UNCHANGED <<indexer, lost>>
  BY <1>3, Zenon DEF TrackingFlags
<1> QED
  BY <1>1, <1>2, <1>3 DEF TrackingStep, trackingVars, Subscribe, Join, Unsubscribe, Disconnect, GraceEnds, OrphanFires

(* Without the fairness, which safety does not need.                       *)
TrackingMoves == TrackingInit /\ [][TrackingStep]_trackingVars

LEMMA TrackingAlways == TrackingMoves => [](TrackingInv /\ TrackedIsKnown /\ TrackingFlags)
  BY TrackingInit0, TrackingInvStep, TrackingFlagsStep, PTL DEF TrackingMoves

(* The rooms, the states, the pipe to the indexer and the timers of the    *)
(* holder tracking have their types.                                       *)
THEOREM TrackingTypes == TrackingMoves => []TrackingTypeOK
<1>1. TrackingInv /\ TrackingFlags => TrackingTypeOK
  <2> SUFFICES ASSUME TrackingInv, TrackingFlags PROVE TrackingTypeOK
    OBVIOUS
  <2>1. orphans \in 0..MaxTimers
    BY TimerCounts, TrackingAssumption DEF TrackingInv
  <2> QED
    BY <2>1, Zenon DEF TrackingInv, TrackingFlags, TrackingTypeOK
<1> QED
  BY <1>1, TrackingAlways, PTL

(* What the service believes to be tracked the indexer does track, unless  *)
(* the very last command was lost, for any clients and states and however  *)
(* joins, timers and faults overlap.                                       *)
THEOREM TrackedIsAlwaysKnown == TrackingSpec => []TrackedIsKnown
  BY TrackingAlways, PTL DEF TrackingSpec, TrackingMoves

(***************************************************************************)
(* HolderRows.  The row and the hash of a holder agree when all is quiet,  *)
(* for any number of events.                                               *)
(***************************************************************************)
StreamUpdate == [ev : Nat, kind : Kinds, step : 1..5]

HolderTables ==
  /\ next \in 1..(LastEvent + 1)
  /\ hash \in 0..(next - 1) /\ buffer \in 0..(next - 1) /\ holder \in 0..(next - 1) /\ told \in 0..(next - 1)
  /\ flights \subseteq 1..(next - 1)
  /\ updates \subseteq StreamUpdate
  /\ \A u \in updates : u.ev \in 1..(next - 1)

HolderFlags == ranked \in BOOLEAN /\ raced \in BOOLEAN /\ outdated \in BOOLEAN

(* What the row will be once the upserts under way are done.               *)
Settled(b, fl, h) == IF b # 0 THEN {b} ELSE IF fl # {} THEN fl ELSE {h}

(* Updates us only: they keep their order, those that are done settle the  *)
(* row, S, and the youngest is the last event told.                        *)
Updating(us, S, last) ==
  /\ \A u \in us : u.kind # "removed"
  /\ \A u, v \in us : u.ev = v.ev => u = v
  /\ \A u, v \in us : u.ev < v.ev => v.step <= u.step
  /\ \A x \in S, u \in us : x < u.ev
  /\ \A u \in us : u.ev <= last
  /\ IF us = {} THEN S = {last} ELSE \E u \in us : u.ev = last

(* The hash ha is that of the youngest update that has written it.         *)
Hashed(us, ha, S) ==
  /\ \A u \in us : u.step >= 2 => u.ev <= ha
  /\ \/ ha \in S /\ \A u \in us : u.step = 1
     \/ \E u \in us : u.step >= 2 /\ u.ev = ha

(* A removal is alone, and takes the rank, the hash, the buffered row and  *)
(* the stored one away in this order; old: not so the hash and the rank.   *)
Removing(us, ha, b, fl, last, old) ==
  \E u \in us :
    /\ us = {u} /\ u.kind = "removed" /\ fl = {} /\ u.step <= 4 /\ last = 0
    /\ u.step >= 3 /\ ~old => ha = 0
    /\ u.step >= 4 => b = 0

RankRight ==
  /\ ~outdated /\ (\A u \in updates : u.kind # "removed") => (ranked => hash # 0)
  /\ \A u \in updates : u.kind = "removed" /\ (u.step = 2 \/ (u.step >= 3 /\ ~outdated)) => ~ranked

RowsInOrder ==
  \/ /\ Updating(updates, Settled(buffer, flights, holder), told)
     /\ \A f, g \in flights : f = g
     /\ ~outdated => Hashed(updates, hash, Settled(buffer, flights, holder))
  \/ Removing(updates, hash, buffer, flights, told, outdated)

HolderOrder == ~raced => RowsInOrder /\ RankRight

-------------------------------------------------------------------------------
LEMMA UpdateFields ==
  ASSUME NEW u \in StreamUpdate
  PROVE  u.ev \in Nat /\ u.kind \in Kinds /\ u.step \in 1..5
BY DEF StreamUpdate

LEMMA AdvanceEffect ==
  ASSUME HolderTables, NEW u \in updates, u.step <= 4, Advance(u)
  PROVE  \E v \in StreamUpdate : /\ v.ev = u.ev /\ v.kind = u.kind /\ v.step = u.step + 1
                           /\ updates' = (updates \ {u}) \cup {v}
<1> DEFINE v == [u EXCEPT !.step = @ + 1]
<1>1. u \in StreamUpdate
  BY DEF HolderTables
<1>2. v \in StreamUpdate /\ v.ev = u.ev /\ v.kind = u.kind /\ v.step = u.step + 1
  BY <1>1 DEF StreamUpdate
<1>3. updates' = (updates \ {u}) \cup {v}
  BY DEF Advance
<1> QED BY <1>2, <1>3, Zenon

LEMMA HolderInit0 == HolderInit => HolderTables /\ HolderFlags /\ HolderOrder
<1> SUFFICES ASSUME HolderInit PROVE HolderTables /\ HolderFlags /\ HolderOrder
  OBVIOUS
<1>1. /\ next = 1 /\ hash = 0 /\ buffer = 0 /\ holder = 0 /\ updates = {} /\ flights = {} /\ told = 0
  BY DEF HolderInit
<1>2. HolderTables
  BY <1>1, HolderAssumption DEF HolderTables
<1>3. HolderFlags /\ ~ranked
  BY Zenon DEF HolderInit, HolderFlags
<1>4. RowsInOrder
  BY <1>1 DEF RowsInOrder, Updating, Hashed, Settled
<1>5. RankRight
  BY <1>1, <1>3, Zenon DEF RankRight
<1> QED BY <1>2, <1>3, <1>4, <1>5, Zenon DEF HolderOrder

(* What a command does, whether it is answered or refused.                 *)
LEMMA ExecutedEffect ==
  ASSUME NEW u, Executed(u)
  PROVE  /\ u.kind = "removed" => /\ hash' = IF u.step = 2 THEN 0 ELSE hash
                                  /\ ranked' => ranked /\ u.step # 1
         /\ u.kind # "removed" => /\ hash' = IF u.step = 1 THEN u.ev ELSE hash
                                  /\ u.step # 3 => (ranked' => ranked)
         /\ hash' \in {0, u.ev, hash}
<1>1. CASE u.kind = "removed"
  <2>1. hash' = IF u.step = 2 THEN 0 ELSE hash
    BY <1>1, Zenon DEF Executed
  <2>2. ranked' => ranked /\ u.step # 1
    BY <1>1, Zenon DEF Executed
  <2>3. hash' \in {0, u.ev, hash}
    BY <2>1
  <2> QED BY <1>1, <2>1, <2>2, <2>3, Zenon
<1>2. CASE u.kind # "removed"
  <2>1. hash' = IF u.step = 1 THEN u.ev ELSE hash
    BY <1>2, Zenon DEF Executed
  <2>2. u.step # 3 => (ranked' => ranked)
    BY <1>2, Zenon DEF Executed
  <2>3. hash' \in {0, u.ev, hash}
    BY <2>1
  <2> QED BY <1>2, <2>1, <2>2, <2>3, Zenon
<1> QED BY <1>1, <1>2, Zenon

(* The tables keep their types.                                            *)
LEMMA HolderTablesStep == HolderTables /\ [HolderStep]_holderVars => HolderTables'
<1> SUFFICES ASSUME HolderTables, [HolderStep]_holderVars PROVE HolderTables'
  OBVIOUS
<1>1. CASE UNCHANGED holderVars
  BY <1>1 DEF holderVars, pipeVars, HolderTables
<1>2. ASSUME NEW kind \in Kinds, HolderEvent(kind) PROVE HolderTables'
  <2>1. /\ next <= LastEvent /\ next' = next + 1 /\ UNCHANGED <<hash, buffer, holder, flights>>
        /\ updates' = updates \cup {[ev |-> next, kind |-> kind, step |-> 1]} /\ told' \in {0, next}
    BY <1>2 DEF HolderEvent
  <2>2. [ev |-> next, kind |-> kind, step |-> 1] \in StreamUpdate /\ [ev |-> next, kind |-> kind, step |-> 1].ev = next
    BY DEF StreamUpdate, HolderTables
  <2> QED BY <2>1, <2>2, HolderAssumption DEF HolderTables
<1>3. ASSUME NEW u \in updates, Command(u) \/ Discard(u) PROVE HolderTables'
  <2>1. u.step <= 4 /\ Advance(u) /\ UNCHANGED <<next, holder, flights, told>>
    <3>1. u.step \in 1..5
      BY UpdateFields DEF HolderTables
    <3> QED BY <1>3, <3>1 DEF Command, Discard, HasCommand
  <2>2. PICK v \in StreamUpdate : v.ev = u.ev /\ updates' = (updates \ {u}) \cup {v}
    BY <2>1, AdvanceEffect, Zenon
  <2>3. hash' \in {0, u.ev, hash} /\ buffer' \in {0, buffer}
    <3>1. CASE Command(u)
      <4>1. Executed(u) /\ buffer' = buffer
        BY <3>1 DEF Command
      <4>2. hash' \in {0, u.ev, hash}
        BY <4>1, ExecutedEffect, Zenon
      <4> QED BY <4>1, <4>2
    <3>2. CASE Discard(u)
      BY <3>2 DEF Discard
    <3> QED BY <1>3, <3>1, <3>2
  <2> QED BY <2>1, <2>2, <2>3 DEF HolderTables
<1>4. ASSUME NEW u \in updates, Queue(u) PROVE HolderTables'
  BY <1>4 DEF HolderTables, Queue
<1>5. ASSUME NEW u \in updates, DeleteRow(u) PROVE HolderTables'
  <2>1. UNCHANGED <<next, hash, buffer, flights, told>> /\ updates' = updates \ {u} /\ holder' \in {0, holder}
    BY <1>5 DEF DeleteRow
  <2> QED BY <2>1 DEF HolderTables
<1>6. CASE Flush
  <2>1. buffer \in 1..(next - 1) /\ flights' = flights \cup {buffer} /\ buffer' = 0
        /\ UNCHANGED <<next, hash, holder, updates, told>>
    BY <1>6 DEF Flush, HolderTables
  <2> QED BY <2>1 DEF HolderTables
<1>7. ASSUME NEW ev \in flights, Stored(ev) \/ Failed(ev) PROVE HolderTables'
  <2>1. /\ UNCHANGED <<next, hash, updates, told>> /\ flights' = flights \ {ev}
        /\ holder' \in {ev, holder} /\ buffer' \in {ev, buffer}
    BY <1>7 DEF Stored, Failed
  <2> QED BY <2>1 DEF HolderTables
<1>8. ASSUME NEW u \in updates, Refused(u) PROVE HolderTables'
  <2>1. UNCHANGED <<next, holder, flights, told>> /\ hash' \in {0, u.ev, hash} /\ buffer' \in {u.ev, buffer}
    <3>1. UNCHANGED <<next, holder, flights, told>> /\ buffer' \in {u.ev, buffer} /\ (Executed(u) \/ hash' = hash)
      BY <1>8 DEF Refused
    <3>2. Executed(u) => hash' \in {0, u.ev, hash}
      BY ExecutedEffect, Zenon
    <3> QED BY <3>1, <3>2
  <2>2. PICK v \in StreamUpdate : v.ev = u.ev /\ updates' \subseteq (updates \ {u}) \cup {v}
    <3>1. [u EXCEPT !.step = 3] \in StreamUpdate /\ [u EXCEPT !.step = 3].ev = u.ev
      <4>1. u \in StreamUpdate
        BY DEF HolderTables
      <4> QED BY <4>1 DEF StreamUpdate
    <3>2. updates' \subseteq (updates \ {u}) \cup {[u EXCEPT !.step = 3]}
      BY <1>8 DEF Refused
    <3> QED BY <3>1, <3>2, Zenon
  <2> QED BY <2>1, <2>2 DEF HolderTables
<1>9. CASE HashExpires \/ RankingExpires
  <2>1. UNCHANGED <<next, buffer, holder, updates, flights, told>> /\ hash' \in {0, hash}
    BY <1>9 DEF HashExpires, RankingExpires, pipeVars
  <2> QED BY <2>1 DEF HolderTables
<1> QED BY <1>1, <1>2, <1>3, <1>4, <1>5, <1>6, <1>7, <1>8, <1>9, Zenon DEF HolderStep

(* Pure facts about Updating and Hashed: one for each way updates move.    *)
LEMMA UpdateStarts ==
  ASSUME NEW us \in SUBSET StreamUpdate, NEW S \in SUBSET Nat, NEW last, Updating(us, S, last),
         NEW v \in StreamUpdate, v.kind # "removed", v.step = 1,
         \A u \in us : u.ev < v.ev, \A x \in S : x < v.ev
  PROVE  Updating(us \cup {v}, S, v.ev)
<1>1. v.ev \in Nat /\ \A u \in us : u.ev \in Nat /\ u.step \in 1..5
  BY UpdateFields
<1> QED BY <1>1 DEF Updating

LEMMA HashedStarts ==
  ASSUME NEW us \in SUBSET StreamUpdate, NEW ha, NEW S \in SUBSET Nat, Hashed(us, ha, S),
         NEW v \in StreamUpdate, v.step = 1
  PROVE  Hashed(us \cup {v}, ha, S)
  BY DEF Hashed

LEMMA UpdateAdvances ==
  ASSUME NEW us \in SUBSET StreamUpdate, NEW S \in SUBSET Nat, NEW last, Updating(us, S, last),
         NEW u \in us, NEW v \in StreamUpdate, v.ev = u.ev, v.kind = u.kind, v.step = u.step + 1,
         \A w \in us : w.ev < u.ev => w.step > u.step
  PROVE  Updating((us \ {u}) \cup {v}, S, last)
<1> DEFINE ws == (us \ {u}) \cup {v}
<1>1. v.ev \in Nat /\ v.step \in 1..5 /\ \A w \in us : w.ev \in Nat /\ w.step \in 1..5
  BY UpdateFields
<1>2. \A w \in ws : w.kind # "removed"
  BY DEF Updating
<1>3. \A w, z \in ws : w.ev = z.ev => w = z
  BY DEF Updating
<1>4. \A w, z \in ws : w.ev < z.ev => z.step <= w.step
  BY <1>1 DEF Updating
<1>5. \A x \in S, w \in ws : x < w.ev
  BY DEF Updating
<1>6. \A w \in ws : w.ev <= last
  BY DEF Updating
<1>7. ws # {} /\ \E w \in ws : w.ev = last
  <2>1. PICK w \in us : w.ev = last
    BY DEF Updating
  <2> QED BY <2>1
<1> HIDE DEF ws
<1>8. Updating(ws, S, last)
  BY <1>2, <1>3, <1>4, <1>5, <1>6, <1>7 DEF Updating
<1> QED BY <1>8 DEF ws

(* An HSET makes the hash that of its update, whatever it was.             *)
LEMMA HashedAdvances ==
  ASSUME NEW us \in SUBSET StreamUpdate, NEW ha \in Nat, NEW S \in SUBSET Nat, NEW last, Updating(us, S, last),
         NEW u \in us, NEW v \in StreamUpdate, v.ev = u.ev, v.step = u.step + 1, u.step # 1 => Hashed(us, ha, S)
  PROVE  Hashed((us \ {u}) \cup {v}, IF u.step = 1 THEN u.ev ELSE ha, S)
<1> DEFINE ws == (us \ {u}) \cup {v}
           ha1 == IF u.step = 1 THEN u.ev ELSE ha
<1>1. v.ev \in Nat /\ v.step \in 1..5 /\ \A w \in us : w.ev \in Nat /\ w.step \in 1..5
  BY UpdateFields
<1>2. \A w \in ws : w.step >= 2 => w.ev <= ha1
  <2>1. CASE u.step = 1
    <3>1. \A w \in us : u.ev < w.ev => w.step <= u.step
      BY DEF Updating
    <3> QED BY <1>1, <2>1, <3>1
  <2>2. CASE u.step # 1
    <3>1. \A w \in us : w.step >= 2 => w.ev <= ha
      BY <2>2 DEF Hashed
    <3> QED BY <1>1, <2>2, <3>1
  <2> QED BY <2>1, <2>2
<1>3. \E w \in ws : w.step >= 2 /\ w.ev = ha1
  <2>1. CASE u.step = 1
    BY <1>1, <2>1
  <2>2. CASE u.step # 1
    <3>1. PICK w \in us : w.step >= 2 /\ w.ev = ha
      BY <2>2 DEF Hashed
    <3> QED BY <1>1, <2>2, <3>1
  <2> QED BY <2>1, <2>2
<1> HIDE DEF ws, ha1
<1>4. Hashed(ws, ha1, S)
  BY <1>2, <1>3 DEF Hashed
<1> QED BY <1>4 DEF ws, ha1

(* The oldest update is done, or given up.                                 *)
LEMMA UpdateEnds ==
  ASSUME NEW us \in SUBSET StreamUpdate, NEW S \in SUBSET Nat, NEW last, Updating(us, S, last),
         NEW u \in us, \A w \in us : ~(w.ev < u.ev)
  PROVE  Updating(us \ {u}, {u.ev}, last)
<1> DEFINE ws == us \ {u}
<1>1. \A w \in us : w.ev \in Nat /\ w.step \in 1..5
  BY UpdateFields
<1>2. \A w \in ws : u.ev < w.ev
  BY <1>1 DEF Updating
<1>3. PICK z \in us : z.ev = last
  BY DEF Updating
<1>4. IF ws = {} THEN {u.ev} = {last} ELSE \E w \in ws : w.ev = last
  <2>1. CASE ws = {}
    BY <1>3, <2>1
  <2>2. CASE ws # {}
    <3>1. PICK w \in ws : TRUE
      BY <2>2
    <3>2. u.ev < w.ev /\ w.ev <= last
      BY <1>2 DEF Updating
    <3>3. z # u
      BY <1>1, <1>3, <3>2
    <3> QED BY <1>3, <2>2, <3>3
  <2> QED BY <2>1, <2>2
<1>5. /\ \A w \in ws : w.kind # "removed" /\ w.ev <= last
      /\ \A w, y \in ws : w.ev = y.ev => w = y
      /\ \A w, y \in ws : w.ev < y.ev => y.step <= w.step
  BY DEF Updating
<1>6. \A x \in {u.ev}, w \in ws : x < w.ev
  BY <1>2
<1> HIDE DEF ws
<1>7. Updating(ws, {u.ev}, last)
  BY <1>4, <1>5, <1>6 DEF Updating
<1> QED BY <1>7 DEF ws

LEMMA HashedEnds ==
  ASSUME NEW us \in SUBSET StreamUpdate, NEW ha \in Nat, NEW S \in SUBSET Nat, NEW last, Updating(us, S, last),
         Hashed(us, ha, S), NEW u \in us, u.step = 5, \A w \in us : ~(w.ev < u.ev)
  PROVE  Hashed(us \ {u}, ha, {u.ev})
<1> DEFINE ws == us \ {u}
<1>1. \A w \in us : w.ev \in Nat /\ w.step \in 1..5
  BY UpdateFields
<1>2. \A w \in ws : u.ev < w.ev
  BY <1>1 DEF Updating
<1>3. \A w \in ws : w.step >= 2 => w.ev <= ha
  BY DEF Hashed
<1>4. PICK z \in us : z.step >= 2 /\ z.ev = ha
  BY DEF Hashed
<1>5. \/ ha \in {u.ev} /\ \A w \in ws : w.step = 1
      \/ \E w \in ws : w.step >= 2 /\ w.ev = ha
  <2>1. CASE z = u
    <3>1. \A w \in ws : ~(w.step >= 2)
      BY <1>1, <1>2, <1>3, <1>4, <2>1
    <3> QED BY <1>1, <1>4, <2>1, <3>1
  <2>2. CASE z # u
    BY <1>4, <2>2
  <2> QED BY <2>1, <2>2
<1> HIDE DEF ws
<1>6. Hashed(ws, ha, {u.ev})
  BY <1>3, <1>5 DEF Hashed
<1> QED BY <1>6 DEF ws

-------------------------------------------------------------------------------
HolderInv == HolderTables /\ HolderFlags /\ HolderOrder

LEMMA HolderFacts ==
  ASSUME HolderTables
  PROVE  /\ hash \in Nat /\ buffer \in Nat /\ holder \in Nat /\ next \in Nat /\ next >= 1
         /\ Settled(buffer, flights, holder) \subseteq 0..(next - 1)
         /\ \A u \in updates : u.ev \in 1..(next - 1) /\ u.step \in 1..5 /\ u \in StreamUpdate
BY UpdateFields, HolderAssumption DEF HolderTables, Settled

(* Which of the two it is: an upsert awaited or an update rules a removal  *)
(* out, and a removal anything else.                                       *)
LEMMA NoRemoval ==
  ASSUME RowsInOrder,
         \/ \A u \in updates : u.kind # "removed"
         \/ \E u \in updates : u.kind # "removed"
         \/ flights # {}
  PROVE  /\ Updating(updates, Settled(buffer, flights, holder), told)
         /\ \A f, g \in flights : f = g
         /\ ~outdated => Hashed(updates, hash, Settled(buffer, flights, holder))
<1>1. ~Removing(updates, hash, buffer, flights, told, outdated)
  BY DEF Removing
<1> QED BY <1>1, Zenon DEF RowsInOrder

LEMMA LoneRemoval ==
  ASSUME RowsInOrder, NEW u \in updates, u.kind = "removed"
  PROVE  /\ updates = {u} /\ flights = {} /\ u.step <= 4 /\ told = 0
         /\ u.step >= 3 /\ ~outdated => hash = 0
         /\ u.step >= 4 => buffer = 0
<1>1. ~Updating(updates, Settled(buffer, flights, holder), told)
  BY DEF Updating
<1>2. Removing(updates, hash, buffer, flights, told, outdated)
  BY <1>1, Zenon DEF RowsInOrder
<1>3. PICK w \in updates : /\ updates = {w} /\ w.kind = "removed" /\ flights = {} /\ w.step <= 4 /\ told = 0
                           /\ w.step >= 3 /\ ~outdated => hash = 0
                           /\ w.step >= 4 => buffer = 0
  BY <1>2, Zenon DEF Removing
<1>4. w = u
  BY <1>3
<1> QED BY <1>3, <1>4, Zenon

LEMMA RacedStays == HolderFlags /\ [HolderStep]_holderVars /\ ~raced' => ~raced
BY Zenon DEF HolderFlags, HolderStep, holderVars, HolderEvent, Command, Queue, Discard,
             DeleteRow, Flush, Stored, Failed, Refused, HashExpires, RankingExpires

LEMMA HolderFlagsStep == HolderFlags /\ [HolderStep]_holderVars => HolderFlags'
<1> SUFFICES ASSUME HolderFlags, [HolderStep]_holderVars PROVE HolderFlags'
  OBVIOUS
<1>1. ASSUME NEW u, Executed(u) PROVE ranked' \in BOOLEAN
  BY <1>1, Zenon DEF Executed, HolderFlags
<1>2. ASSUME NEW u, Command(u) PROVE HolderFlags'
  <2>1. Executed(u) /\ outdated' \in BOOLEAN /\ raced' \in BOOLEAN
    BY <1>2, Zenon DEF Command, HolderFlags
  <2> QED BY <1>1, <2>1, Zenon DEF HolderFlags
<1>3. ASSUME NEW u, Refused(u) PROVE HolderFlags'
  <2>1. (Executed(u) \/ ranked' \in BOOLEAN) /\ outdated' \in BOOLEAN
    BY <1>3, Zenon DEF Refused, HolderFlags
  <2>2. raced' \in BOOLEAN
    BY <1>3, Zenon DEF Refused, HolderFlags
  <2> QED BY <1>1, <2>1, <2>2, Zenon DEF HolderFlags
<1>4. CASE \/ UNCHANGED holderVars \/ \E kind \in Kinds : HolderEvent(kind)
           \/ HashExpires \/ RankingExpires \/ Flush
  BY <1>4, Zenon DEF HolderFlags, holderVars, HolderEvent, Flush, HashExpires, RankingExpires
<1>5. CASE \E u \in updates : Queue(u) \/ Discard(u) \/ DeleteRow(u)
  BY <1>5, Zenon DEF HolderFlags, Queue, Discard, DeleteRow
<1>6. CASE \E ev \in flights : Stored(ev) \/ Failed(ev)
  BY <1>6, Zenon DEF HolderFlags, Stored, Failed
<1> QED BY <1>2, <1>3, <1>4, <1>5, <1>6, Zenon DEF HolderStep

(* A new event: an update joins the others, a removal finds nothing.       *)
LEMMA HolderEventKeeps ==
  ASSUME HolderTables, HolderFlags, RowsInOrder, RankRight, ~raced',
         NEW kind \in Kinds, HolderEvent(kind)
  PROVE  RowsInOrder' /\ RankRight'
<1> DEFINE v == [ev |-> next, kind |-> kind, step |-> 1]
           S == Settled(buffer, flights, holder)
<1>1. v \in StreamUpdate /\ v.ev = next /\ v.kind = kind /\ v.step = 1
  BY DEF StreamUpdate, HolderTables
<1>2. /\ updates' = updates \cup {v} /\ UNCHANGED <<hash, buffer, holder, flights>>
      /\ told' = IF kind = "removed" THEN 0 ELSE next
  BY DEF HolderEvent
<1>3. (kind = "removed" => updates = {} /\ flights = {}) /\ \A u \in updates : u.kind # "removed"
  BY Zenon DEF HolderEvent
<1>4. (ranked' <=> ranked) /\ (outdated' <=> outdated)
  BY Zenon DEF HolderEvent
<1>5. S' = S
  BY <1>2
<1>6. RowsInOrder'
  <2>1. CASE kind = "removed"
    <3>1. updates' = {v} /\ flights' = {} /\ told' = 0
      BY <1>2, <1>3, <2>1
    <3> HIDE DEF v
    <3>2. Removing(updates', hash', buffer', flights', told', outdated')
      BY <1>1, <2>1, <3>1 DEF Removing
    <3> QED BY <3>2 DEF RowsInOrder
  <2>2. CASE kind # "removed"
    <3>1. Updating(updates, S, told) /\ (\A f, g \in flights : f = g) /\ (~outdated => Hashed(updates, hash, S))
      BY <1>3, NoRemoval, Zenon
    <3>2. /\ hash \in Nat /\ S \in SUBSET Nat /\ \A x \in S : x < next
          /\ updates \in SUBSET StreamUpdate /\ \A u \in updates : u.ev < next
      <4>1. next \in Nat
        BY HolderFacts
      <4> QED BY <4>1, HolderFacts
    <3> HIDE DEF v, S
    <3>3. Updating(updates \cup {v}, S, next)
      BY <1>1, <2>2, <3>1, <3>2, UpdateStarts
    <3>4. ~outdated => Hashed(updates \cup {v}, hash, S)
      BY <1>1, <3>1, <3>2, HashedStarts
    <3>5. Updating(updates', S', told')
      BY <1>2, <1>5, <2>2, <3>3
    <3>6. ~outdated' => Hashed(updates', hash', S')
      <4>1. ~outdated => Hashed(updates', hash', S')
        BY <1>2, <1>5, <3>4
      <4> QED BY <1>4, <4>1, Zenon
    <3>7. \A f, g \in flights' : f = g
      BY <1>2, <3>1
    <3> QED BY <3>5, <3>6, <3>7, Zenon DEF RowsInOrder, S
  <2> QED BY <2>1, <2>2
<1> HIDE DEF v
<1>7. RankRight'
  <2>1. ~outdated /\ (\A u \in updates : u.kind # "removed") => (ranked => hash # 0)
    BY Zenon DEF RankRight
  <2>2. \A u \in updates' : u.kind = "removed" => ~(u.step = 2) /\ ~(u.step >= 3)
    BY <1>1, <1>2, <1>3
  <2>3. hash' = hash
    BY <1>2
  <2> QED BY <1>3, <1>4, <2>1, <2>2, <2>3, Zenon DEF RankRight
<1> QED BY <1>6, <1>7

(* The next command of an update or a removal.                             *)
LEMMA CommandKeeps ==
  ASSUME HolderTables, HolderFlags, RowsInOrder, RankRight, NEW u \in updates, Command(u)
  PROVE  RowsInOrder' /\ RankRight'
<1> DEFINE S == Settled(buffer, flights, holder)
<1>1. /\ hash \in Nat /\ S \in SUBSET Nat /\ updates \in SUBSET StreamUpdate
      /\ \A w \in updates : w.step \in 1..5 /\ w.ev \in Nat \ {0}
  BY HolderFacts
<1>2. /\ u.step <= 4 /\ (u.kind = "removed" => u.step <= 2)
      /\ Advance(u) /\ UNCHANGED <<buffer, flights, holder, told>>
  BY <1>1 DEF Command, HasCommand
<1>3. PICK v \in StreamUpdate : /\ v.ev = u.ev /\ v.kind = u.kind /\ v.step = u.step + 1
                         /\ updates' = (updates \ {u}) \cup {v}
  BY <1>2, AdvanceEffect, Zenon
<1>4. /\ u.kind = "removed" => /\ hash' = IF u.step = 2 THEN 0 ELSE hash
                               /\ ranked' => ranked /\ u.step # 1
                               /\ outdated' <=> outdated /\ u.step # 2
      /\ u.kind # "removed" => /\ hash' = IF u.step = 1 THEN u.ev ELSE hash
                               /\ u.step # 3 => (ranked' => ranked)
                               /\ outdated' <=> outdated /\ u.step # 1
  <2>1. Executed(u) /\ outdated' = (outdated /\ u.step # IF u.kind = "removed" THEN 2 ELSE 1)
    BY Zenon DEF Command
  <2>2. u.kind = "removed" => (outdated' <=> outdated /\ u.step # 2)
    BY <2>1, Zenon
  <2>3. u.kind # "removed" => (outdated' <=> outdated /\ u.step # 1)
    BY <2>1, Zenon
  <2> QED BY <2>1, <2>2, <2>3, ExecutedEffect, Zenon
<1>5. CASE u.kind = "removed"
  <2>1. updates = {u} /\ flights = {} /\ told = 0
    BY <1>5, LoneRemoval
  <2>2. updates' = {v} /\ flights' = {} /\ told' = 0
    BY <1>2, <1>3, <2>1
  <2>3. v.step <= 3 /\ v.step \in Nat /\ (v.step >= 3 => hash' = 0)
    BY <1>1, <1>2, <1>3, <1>4, <1>5
  <2>4. Removing(updates', hash', buffer', flights', told', outdated')
    BY <1>3, <1>5, <2>2, <2>3 DEF Removing
  <2>5. ~ranked'
    <3>1. u.step = 1 \/ u.step = 2
      BY <1>1, <1>2, <1>5
    <3>2. u.step = 2 => ~ranked
      BY <1>5, Zenon DEF RankRight
    <3>3. ranked' => ranked /\ u.step # 1
      BY <1>4, <1>5, Zenon
    <3> QED BY <3>1, <3>2, <3>3, Zenon
  <2>6. ~(\A w \in updates' : w.kind # "removed")
    BY <1>3, <1>5, <2>2
  <2> QED BY <2>4, <2>5, <2>6, Zenon DEF RowsInOrder, RankRight
<1>6. CASE u.kind # "removed"
  <2>1. Updating(updates, S, told) /\ (\A f, g \in flights : f = g) /\ (~outdated => Hashed(updates, hash, S))
    BY <1>6, NoRemoval, Zenon
  <2>2. \A w \in updates : w.ev < u.ev => w.step > u.step
    <3>1. \A w \in updates : w.kind # "removed"
      BY <2>1 DEF Updating
    <3>2. \A w \in updates : HasCommand(w) <=> w.step <= 4
      BY <3>1 DEF HasCommand
    <3>3. \A w \in updates : w.ev < u.ev /\ HasCommand(w) => w.step > u.step
      BY Zenon DEF Command
    <3> QED BY <1>1, <1>2, <3>2, <3>3
  <2>3. hash' = IF u.step = 1 THEN u.ev ELSE hash
    BY <1>4, <1>6, Zenon
  <2> HIDE DEF S
  <2>4. Updating((updates \ {u}) \cup {v}, S, told)
    BY <1>1, <1>3, <2>1, <2>2, UpdateAdvances
  <2>5. ~outdated' => Hashed((updates \ {u}) \cup {v}, IF u.step = 1 THEN u.ev ELSE hash, S)
    <3>1. SUFFICES ASSUME ~outdated' PROVE Hashed((updates \ {u}) \cup {v}, IF u.step = 1 THEN u.ev ELSE hash, S)
      OBVIOUS
    <3>2. u.step # 1 => Hashed(updates, hash, S)
      BY <1>4, <1>6, <2>1, <3>1, Zenon
    <3> QED BY <1>1, <1>3, <2>1, <3>2, HashedAdvances
  <2>6. S' = S
    BY <1>2 DEF S
  <2>7. Updating(updates', S', told') /\ (\A f, g \in flights' : f = g) /\ (~outdated' => Hashed(updates', hash', S'))
    BY <1>2, <1>3, <2>1, <2>3, <2>4, <2>5, <2>6
  <2>8. RowsInOrder'
    BY <2>7, Zenon DEF RowsInOrder, S
  <2>9. \A w \in updates' : w.kind # "removed"
    BY <2>7 DEF Updating
  <2>10. ~outdated' => (ranked' => hash' # 0)
    <3>1. SUFFICES ASSUME ~outdated' PROVE ranked' => hash' # 0
      OBVIOUS
    <3>2. u.step # 1 => Hashed(updates, hash, S) /\ ~outdated
      BY <1>4, <1>6, <2>1, <3>1, Zenon
    <3>3. u.step = 3 => hash' # 0
      <4>1. u.step = 3 => u.ev <= hash
        BY <3>2 DEF Hashed
      <4> QED BY <1>1, <2>3, <4>1
    <3>4. u.step = 1 => hash' # 0
      BY <1>1, <2>3
    <3>5. \A w \in updates : w.kind # "removed"
      BY <2>1 DEF Updating
    <3>6. u.step # 1 => hash' = hash
      BY <2>3
    <3>7. u.step # 3 => (ranked' => ranked)
      BY <1>4, <1>6, Zenon
    <3>8. u.step # 1 /\ ranked => hash # 0
      BY <3>2, <3>5, Zenon DEF RankRight
    <3> QED BY <3>3, <3>4, <3>6, <3>7, <3>8, Zenon
  <2> QED BY <2>8, <2>9, <2>10, Zenon DEF RankRight
<1> QED BY <1>5, <1>6

(* The oldest update queues its row, when it is done or given up.          *)
LEMMA QueuedInOrder ==
  ASSUME HolderTables, RowsInOrder, NEW u \in updates, u.kind # "removed", Older(u) = {},
         buffer' = u.ev, updates' = updates \ {u}, UNCHANGED <<holder, flights, told>>
  PROVE  /\ Updating(updates', Settled(buffer, flights, holder)', told') /\ \A f, g \in flights' : f = g
         /\ \A w \in updates : w.kind # "removed"
         /\ ~outdated /\ u.step = 5 => Hashed(updates', hash, Settled(buffer, flights, holder)')
<1> DEFINE S == Settled(buffer, flights, holder)
<1>1. /\ hash \in Nat /\ S \in SUBSET Nat /\ updates \in SUBSET StreamUpdate /\ u.ev \in Nat \ {0}
  BY HolderFacts
<1>2. Updating(updates, S, told) /\ (\A f, g \in flights : f = g) /\ (~outdated => Hashed(updates, hash, S))
  BY NoRemoval, Zenon
<1>3. \A w \in updates : w.kind # "removed"
  BY <1>2 DEF Updating
<1>4. \A w \in updates : ~(w.ev < u.ev)
  BY <1>3 DEF Older
<1>5. S' = {u.ev}
  BY <1>1 DEF Settled
<1> HIDE DEF S
<1>6. Updating(updates \ {u}, {u.ev}, told)
  BY <1>1, <1>2, <1>4, UpdateEnds
<1>7. ~outdated /\ u.step = 5 => Hashed(updates \ {u}, hash, {u.ev})
  BY <1>1, <1>2, <1>4, HashedEnds
<1>8. Updating(updates', S', told') /\ \A f, g \in flights' : f = g
  BY <1>2, <1>5, <1>6
<1>9. ~outdated /\ u.step = 5 => Hashed(updates', hash, S')
  BY <1>5, <1>7
<1> QED BY <1>3, <1>8, <1>9 DEF S

LEMMA QueueKeeps ==
  ASSUME HolderTables, HolderFlags, RowsInOrder, RankRight, NEW u \in updates, Queue(u)
  PROVE  RowsInOrder' /\ RankRight'
<1>1. /\ u.kind # "removed" /\ u.step = 5 /\ Older(u) = {} /\ buffer' = u.ev /\ updates' = updates \ {u}
      /\ UNCHANGED <<hash, holder, flights, told>>
  BY DEF Queue
<1>2. (ranked' <=> ranked) /\ (outdated' <=> outdated)
  BY Zenon DEF Queue
<1>3. /\ Updating(updates', Settled(buffer, flights, holder)', told') /\ \A f, g \in flights' : f = g
      /\ \A w \in updates : w.kind # "removed"
      /\ ~outdated => Hashed(updates', hash, Settled(buffer, flights, holder)')
  BY <1>1, QueuedInOrder
<1>4. hash' = hash
  BY <1>1
<1>5. ~outdated' => Hashed(updates', hash', Settled(buffer, flights, holder)')
  BY <1>2, <1>3, <1>4, Zenon
<1>6. RowsInOrder'
  BY <1>3, <1>5, Zenon DEF RowsInOrder
<1>7. \A w \in updates' : w.kind # "removed"
  BY <1>1, <1>3
<1> QED BY <1>2, <1>3, <1>4, <1>6, <1>7, Zenon DEF RankRight

(* A refused command: the row goes its way, the hash and the rank may not. *)
LEMMA RefusedKeeps ==
  ASSUME HolderTables, HolderFlags, RowsInOrder, RankRight, ~raced', NEW u \in updates, Refused(u)
  PROVE  RowsInOrder' /\ RankRight'
<1>1. outdated' /\ UNCHANGED <<holder, flights, told>> /\ u.step \in 1..5 /\ HasCommand(u)
  BY HolderFacts DEF Refused
<1>2. CASE u.kind = "removed"
  <2>1. updates' = (updates \ {u}) \cup {[u EXCEPT !.step = 3]} /\ buffer' = buffer
    BY <1>2 DEF Refused
  <2>2. PICK v \in StreamUpdate : v.kind = "removed" /\ v.step = 3 /\ updates' = (updates \ {u}) \cup {v}
    <3>1. u \in StreamUpdate
      BY HolderFacts
    <3>2. /\ [u EXCEPT !.step = 3] \in StreamUpdate /\ [u EXCEPT !.step = 3].kind = "removed"
          /\ [u EXCEPT !.step = 3].step = 3
      BY <1>2, <3>1 DEF StreamUpdate
    <3> QED BY <2>1, <3>2, Zenon
  <2>3. updates = {u} /\ flights = {} /\ told = 0
    BY <1>2, LoneRemoval
  <2>4. updates' = {v} /\ flights' = {} /\ told' = 0
    BY <1>1, <2>2, <2>3
  <2>5. Removing(updates', hash', buffer', flights', told', outdated')
    BY <1>1, <2>2, <2>4 DEF Removing
  <2>6. \A w \in updates' : ~(w.step = 2)
    BY <2>2, <2>4
  <2> QED BY <1>1, <2>5, <2>6, Zenon DEF RowsInOrder, RankRight
<1>3. CASE u.kind # "removed"
  <2>1. updates' = updates \ {u} /\ buffer' = u.ev /\ Older(u) = {}
    <3>1. raced' = (raced \/ Older(u) # {})
      BY <1>3, Zenon DEF Refused
    <3>2. Older(u) = {}
      BY <3>1, Zenon
    <3> QED BY <1>3, <3>2 DEF Refused
  <2>2. /\ Updating(updates', Settled(buffer, flights, holder)', told') /\ \A f, g \in flights' : f = g
        /\ \A w \in updates : w.kind # "removed"
    BY <1>1, <1>3, <2>1, QueuedInOrder
  <2>3. RowsInOrder'
    BY <1>1, <2>2, Zenon DEF RowsInOrder
  <2>4. \A w \in updates' : w.kind # "removed"
    BY <2>1, <2>2
  <2> QED BY <1>1, <2>3, <2>4, Zenon DEF RankRight
<1> QED BY <1>2, <1>3

(* A key that is gone says nothing of the row.                             *)
LEMMA ExpiryKeeps ==
  ASSUME HolderTables, HolderFlags, RowsInOrder, RankRight, HashExpires \/ RankingExpires
  PROVE  RowsInOrder' /\ RankRight'
<1>1. UNCHANGED <<buffer, holder, updates, flights, told>>
  BY DEF HashExpires, RankingExpires, pipeVars
<1>2. CASE HashExpires
  <2>1. outdated' /\ (ranked' <=> ranked)
    BY <1>2, Zenon DEF HashExpires
  <2>2. RowsInOrder'
    <3>1. CASE Removing(updates, hash, buffer, flights, told, outdated)
      <4>1. PICK u \in updates : /\ updates = {u} /\ u.kind = "removed" /\ flights = {} /\ u.step <= 4 /\ told = 0
                                 /\ u.step >= 4 => buffer = 0
        BY <3>1, Zenon DEF Removing
      <4>2. Removing(updates', hash', buffer', flights', told', outdated')
        BY <1>1, <2>1, <4>1 DEF Removing
      <4> QED BY <4>2, Zenon DEF RowsInOrder
    <3>2. CASE ~Removing(updates, hash, buffer, flights, told, outdated)
      <4>1. Updating(updates, Settled(buffer, flights, holder), told) /\ \A f, g \in flights : f = g
        BY <3>2, Zenon DEF RowsInOrder
      <4>2. Updating(updates', Settled(buffer, flights, holder)', told') /\ \A f, g \in flights' : f = g
        BY <1>1, <4>1
      <4> QED BY <2>1, <4>2, Zenon DEF RowsInOrder
    <3> QED BY <3>1, <3>2
  <2>3. RankRight'
    <3>1. updates' = updates
      BY <1>1
    <3> QED BY <2>1, <3>1, Zenon DEF RankRight
  <2> QED BY <2>2, <2>3
<1>3. CASE RankingExpires
  <2>1. ~ranked' /\ hash' = hash
    BY <1>3, Zenon DEF RankingExpires
  <2>2. outdated' = outdated
    BY <1>3, Zenon DEF RankingExpires
  <2>3. RowsInOrder'
    BY <1>1, <2>1, <2>2 DEF RowsInOrder
  <2> QED BY <2>1, <2>3, Zenon DEF RankRight
<1> QED BY <1>2, <1>3

(* A removal drops the buffered row.                                       *)
LEMMA DiscardKeeps ==
  ASSUME HolderTables, HolderFlags, RowsInOrder, RankRight, NEW u \in updates, Discard(u)
  PROVE  RowsInOrder' /\ RankRight'
<1>1. u.kind = "removed" /\ u.step = 3 /\ Advance(u) /\ buffer' = 0 /\ UNCHANGED <<hash, flights, told>>
  BY DEF Discard
<1>2. (ranked' <=> ranked) /\ (outdated' <=> outdated)
  BY Zenon DEF Discard
<1>3. PICK v \in StreamUpdate : /\ v.kind = u.kind /\ v.step = u.step + 1
                         /\ updates' = (updates \ {u}) \cup {v}
  BY <1>1, AdvanceEffect
<1>4. updates = {u} /\ flights = {} /\ told = 0
  BY <1>1, LoneRemoval
<1>5. ~outdated => hash = 0 /\ ~ranked
  <2>1. u.step >= 3
    BY <1>1
  <2> QED BY <1>1, <2>1, LoneRemoval, Zenon DEF RankRight
<1>6. updates' = {v} /\ v.kind = "removed" /\ v.step = 4
  BY <1>1, <1>3, <1>4
<1>7. ~outdated' => hash' = 0 /\ ~ranked'
  <2>1. hash' = hash
    BY <1>1
  <2> QED BY <1>2, <1>5, <2>1, Zenon
<1>8. Removing(updates', hash', buffer', flights', told', outdated')
  BY <1>1, <1>4, <1>6, <1>7 DEF Removing
<1>9. /\ ~(\A w \in updates' : w.kind # "removed")
      /\ \A w \in updates' : ~(w.step = 2)
  BY <1>6
<1> QED BY <1>7, <1>8, <1>9, Zenon DEF RowsInOrder, RankRight

(* A removal deletes the row: nothing of the wallet is left.               *)
LEMMA DeleteRowKeeps ==
  ASSUME HolderTables, HolderFlags, RowsInOrder, RankRight, ~raced', NEW u \in updates, DeleteRow(u)
  PROVE  RowsInOrder' /\ RankRight'
<1>1. u.kind = "removed" /\ u.step = 4 /\ updates' = updates \ {u} /\ UNCHANGED <<hash, buffer, flights, told>>
  BY DEF DeleteRow
<1>2. holder' = 0 /\ (ranked' <=> ranked) /\ (outdated' <=> outdated)
  BY Zenon DEF DeleteRow
<1>3. updates = {u} /\ flights = {} /\ told = 0 /\ buffer = 0
  BY <1>1, LoneRemoval
<1>4. ~outdated => hash = 0 /\ ~ranked
  <2>1. u.step >= 3
    BY <1>1
  <2> QED BY <1>1, <2>1, LoneRemoval, Zenon DEF RankRight
<1>5. updates' = {} /\ flights' = {} /\ told' = 0 /\ buffer' = 0 /\ hash' = hash
  BY <1>1, <1>3
<1>6. Updating(updates', Settled(buffer, flights, holder)', told')
  BY <1>2, <1>5 DEF Updating, Settled
<1>7. ~outdated' => hash' = 0 /\ ~ranked'
  BY <1>2, <1>4, <1>5, Zenon
<1>8. hash' = 0 => Hashed(updates', hash', Settled(buffer, flights, holder)')
  BY <1>2, <1>5 DEF Hashed, Settled
<1>9. RowsInOrder'
  BY <1>5, <1>6, <1>7, <1>8 DEF RowsInOrder
<1>10. \A w \in updates' : FALSE
  BY <1>5
<1> QED BY <1>7, <1>9, <1>10, Zenon DEF RankRight

(* The row awaited or buffered is what it was: only updates see more.      *)
LEMMA SettledKeeps ==
  ASSUME RankRight, UNCHANGED <<hash, updates, told>>, ranked' <=> ranked, outdated' <=> outdated,
         Settled(buffer, flights, holder)' = Settled(buffer, flights, holder),
         Updating(updates, Settled(buffer, flights, holder), told),
         ~outdated => Hashed(updates, hash, Settled(buffer, flights, holder)),
         \A f, g \in flights' : f = g
  PROVE  RowsInOrder' /\ RankRight'
<1>1. PICK S : S = Settled(buffer, flights, holder)
  OBVIOUS
<1>2. Updating(updates', S, told') /\ (~outdated => Hashed(updates', hash', S)) /\ S = Settled(buffer, flights, holder)'
  BY <1>1
<1>3. RowsInOrder'
  BY <1>2, Zenon DEF RowsInOrder
<1>4. updates' = updates /\ hash' = hash
  OBVIOUS
<1> QED BY <1>3, <1>4, Zenon DEF RankRight

(* The buffer is flushed when no upsert is awaited and no removal runs.    *)
LEMMA FlushKeeps ==
  ASSUME HolderTables, HolderFlags, RowsInOrder, RankRight, ~raced', Flush
  PROVE  RowsInOrder' /\ RankRight'
<1>1. /\ buffer # 0 /\ flights' = flights \cup {buffer} /\ buffer' = 0
      /\ UNCHANGED <<hash, holder, updates, told>>
  BY DEF Flush
<1>2. flights = {} /\ \A u \in updates : u.kind # "removed"
  BY Zenon DEF Flush
<1>3. (ranked' <=> ranked) /\ (outdated' <=> outdated)
  BY Zenon DEF Flush
<1>4. /\ Updating(updates, Settled(buffer, flights, holder), told)
      /\ ~outdated => Hashed(updates, hash, Settled(buffer, flights, holder))
  BY <1>2, NoRemoval, Zenon
<1>5. Settled(buffer, flights, holder)' = Settled(buffer, flights, holder) /\ flights' = {buffer}
  BY <1>1, <1>2 DEF Settled
<1> QED BY <1>1, <1>3, <1>4, <1>5, SettledKeeps

(* The upsert awaited is the only one.                                     *)
LEMMA StoredKeeps ==
  ASSUME HolderTables, HolderFlags, RowsInOrder, RankRight, NEW ev \in flights, Stored(ev)
  PROVE  RowsInOrder' /\ RankRight'
<1>1. holder' = ev /\ flights' = flights \ {ev} /\ UNCHANGED <<hash, buffer, updates, told>>
  BY DEF Stored
<1>2. (ranked' <=> ranked) /\ (outdated' <=> outdated)
  BY Zenon DEF Stored
<1>3. /\ Updating(updates, Settled(buffer, flights, holder), told) /\ \A f, g \in flights : f = g
      /\ ~outdated => Hashed(updates, hash, Settled(buffer, flights, holder))
  BY NoRemoval, Zenon
<1>4. flights = {ev}
  BY <1>3
<1>5. Settled(buffer, flights, holder)' = Settled(buffer, flights, holder) /\ flights' = {}
  BY <1>1, <1>4 DEF Settled
<1> QED BY <1>1, <1>2, <1>3, <1>5, SettledKeeps

LEMMA HolderInvStep == HolderInv /\ [HolderStep]_holderVars => HolderInv'
<1> SUFFICES ASSUME HolderInv, [HolderStep]_holderVars PROVE HolderInv'
  OBVIOUS
<1> USE DEF HolderInv
<1>1. HolderTables'
  BY HolderTablesStep
<1>2. HolderFlags'
  BY HolderFlagsStep, Zenon
<1>3. ASSUME ~raced' PROVE RowsInOrder' /\ RankRight'
  <2>1. RowsInOrder /\ RankRight
    BY <1>3, RacedStays, Zenon DEF HolderOrder
  <2>2. CASE UNCHANGED holderVars
    <3>1. UNCHANGED <<next, hash, ranked, buffer, holder, updates, flights, told, outdated, raced>>
      BY <2>2, Zenon DEF holderVars, pipeVars
    <3> QED BY <2>1, <3>1 DEF RowsInOrder, RankRight
  <2>3. CASE \E ev \in flights : Failed(ev)
    BY <1>3, <2>3, Zenon DEF Failed
  <2> QED BY <1>3, <2>1, <2>2, <2>3, HolderEventKeeps, CommandKeeps, QueueKeeps, RefusedKeeps, ExpiryKeeps,
             DiscardKeeps, DeleteRowKeeps, FlushKeeps, StoredKeeps, Zenon DEF HolderStep
<1> QED BY <1>1, <1>2, <1>3, Zenon DEF HolderOrder

HolderSpec == HolderInit /\ [][HolderStep]_holderVars

LEMMA HolderAlways == HolderSpec => []HolderInv
<1>1. HolderInit => HolderInv
  BY HolderInit0, Zenon DEF HolderInv
<1> QED BY <1>1, HolderInvStep, PTL DEF HolderSpec

(* The rows, the buffer, the upserts awaited and the handlers of a holder  *)
(* have their types.                                                       *)
THEOREM HolderTypes == HolderSpec => []HolderTypeOK
<1>1. HolderInv => HolderTypeOK
  BY UpdateFields DEF HolderInv, HolderTables, HolderTypeOK
<1> QED BY <1>1, HolderAlways, PTL

(* When all is quiet the row of a holder is that of the last event, though *)
(* Redis failed, and so is its hash if it neither failed nor expired since *)
(* (a ranked holder then has one), unless a write to the database failed   *)
(* or overlapped another one or a removal, or a command failed while an    *)
(* older update was answered; for any number of events and upserts.        *)
THEOREM QuietHolderAlwaysAgrees == HolderSpec => []QuietHolderAgrees
<1>1. ASSUME HolderInv, updates = {}, flights = {}, buffer = 0, ~raced
      PROVE  holder = told /\ (~outdated => hash = told /\ (ranked => hash # 0))
  <2>1. RowsInOrder /\ RankRight
    BY <1>1, Zenon DEF HolderInv, HolderOrder
  <2>2. Settled(buffer, flights, holder) = {holder} /\ \A u \in updates : FALSE
    BY <1>1 DEF Settled
  <2>3. Updating(updates, {holder}, told) /\ (~outdated => Hashed(updates, hash, {holder}))
    BY <2>1, <2>2, NoRemoval
  <2>4. holder = told
    BY <1>1, <2>3 DEF Updating
  <2>5. ~outdated => hash = told
    <3>1. Hashed(updates, hash, {holder}) => hash = holder
      BY <1>1 DEF Hashed
    <3> QED BY <2>3, <2>4, <3>1
  <2>6. ~outdated => (ranked => hash # 0)
    BY <2>1, <2>2, Zenon DEF RankRight
  <2> QED BY <2>4, <2>5, <2>6, Zenon
<1>2. HolderInv => QuietHolderAgrees
  BY <1>1, Zenon DEF QuietHolderAgrees
<1> QED BY <1>2, HolderAlways, PTL

(***************************************************************************)
(* TraderPositions.  Swaps that do not overlap are all counted, for any    *)
(* finite set of swaps.                                                    *)
(***************************************************************************)
TraderSpec == TraderInit /\ [][TraderStep]_traderVars

Tally   == [trades : Nat, held : Nat]
TraderHandler == [pc : Pcs, pos : Tally]

TraderTables ==
  /\ position \in Tally /\ stored \in Tally
  /\ trades \in [Swaps -> TraderHandler]

TraderFlag == overlapped \in BOOLEAN

(* The swaps that have read a position, or never will.                     *)
Loaded == {s \in Swaps : trades[s].pc \in {"write", "store", "done"}}

(* No position counts more swaps than have read one, or holds more than    *)
(* it counts.                                                              *)
WithinLoaded(p) == p.trades <= Cardinality(Loaded) /\ p.held <= p.trades

TalliesOK ==
  /\ WithinLoaded(position) /\ WithinLoaded(stored)
  /\ \A s \in Swaps : WithinLoaded(trades[s].pos)

(* What a handler nobody overlaps may rely on.                             *)
HandlerOK(s) ==
  /\ trades[s].pc = "loadDb" => position = Unknown
  /\ trades[s].pc \in {"write", "store"} => trades[s].pos.trades = Cardinality(Handled) + 1
  /\ trades[s].pc = "store" => position = trades[s].pos

OneAtATime ==
  /\ \A s, t \in Running : s = t
  /\ \A s \in Swaps : HandlerOK(s)
  /\ stored.trades = Cardinality(Handled)
  /\ position \in {stored, Unknown} \/ \E s \in Swaps : trades[s].pc = "store"

TraderInv == TraderTables /\ TalliesOK /\ (~overlapped => OneAtATime)

LEMMA UnknownTally == Unknown \in Tally /\ Unknown.trades = 0 /\ Unknown.held = 0
  BY DEF Unknown, Tally

LEMMA TallyFields == ASSUME NEW p \in Tally PROVE p.trades \in Nat /\ p.held \in Nat
  BY DEF Tally

LEMMA HandlerFields == ASSUME NEW h \in TraderHandler PROVE h.pc \in Pcs /\ h.pos \in Tally
  BY DEF TraderHandler

LEMMA TradedTally ==
  ASSUME NEW s \in Swaps, NEW p \in Tally
  PROVE  /\ Traded(s, p) \in Tally /\ Traded(s, p).trades = p.trades + 1
         /\ p.held <= p.trades => Traded(s, p).held <= Traded(s, p).trades
  BY DEF Traded, Tally

(* A handler goes on; the others stay where they are.                      *)
LEMMA MoveEffect ==
  ASSUME TraderTables, NEW s \in Swaps, NEW pc \in Pcs, NEW p \in Tally, Move(s, pc, p)
  PROVE  /\ trades' \in [Swaps -> TraderHandler]
         /\ trades'[s].pc = pc /\ trades'[s].pos = p
         /\ \A t \in Swaps : t # s => trades'[t] = trades[t]
  BY DEF Move, TraderTables, TraderHandler

(* The sets of handlers, counted before and after a move.                  *)
LEMMA MoveCounts ==
  ASSUME TraderTables, NEW s \in Swaps, NEW pc \in Pcs, NEW p \in Tally, Move(s, pc, p)
  PROVE  /\ Cardinality(Handled) \in Nat /\ Cardinality(Loaded) \in Nat
         /\ pc = "done" /\ trades[s].pc # "done" => Cardinality(Handled') = Cardinality(Handled) + 1
         /\ pc # "done" /\ trades[s].pc # "done" => Handled' = Handled
         /\ trades[s].pc # "done" /\ (pc = "write" => trades[s].pc \in {"load", "loadDb"})
              /\ (trades[s].pc \in {"write", "store"} => pc \in {"write", "store", "done"})
              => /\ Cardinality(Loaded') >= Cardinality(Loaded) /\ Cardinality(Loaded') \in Nat
                 /\ pc = "write" => Cardinality(Loaded') = Cardinality(Loaded) + 1
<1>1. /\ trades' \in [Swaps -> TraderHandler]
      /\ trades'[s].pc = pc
      /\ \A t \in Swaps : t # s => trades'[t] = trades[t]
  BY MoveEffect
<1>2. IsFiniteSet(Handled) /\ IsFiniteSet(Loaded)
  BY SwapsAssumption, FS_Subset DEF Handled, Loaded
<1>3. Cardinality(Handled) \in Nat /\ Cardinality(Loaded) \in Nat
  BY <1>2, FS_CardinalityType
<1>4. ASSUME pc = "done", trades[s].pc # "done"
      PROVE  Cardinality(Handled') = Cardinality(Handled) + 1
  <2>1. Handled' = Handled \cup {s} /\ s \notin Handled
    BY <1>1, <1>4 DEF Handled
  <2> QED
    BY <1>2, <2>1, FS_AddElement
<1>5. ASSUME pc # "done", trades[s].pc # "done" PROVE Handled' = Handled
  BY <1>1, <1>5 DEF Handled
<1>6. ASSUME trades[s].pc # "done", pc = "write" => trades[s].pc \in {"load", "loadDb"},
             trades[s].pc \in {"write", "store"} => pc \in {"write", "store", "done"}
      PROVE  /\ Cardinality(Loaded') >= Cardinality(Loaded) /\ Cardinality(Loaded') \in Nat
             /\ pc = "write" => Cardinality(Loaded') = Cardinality(Loaded) + 1
  <2>1. CASE s \in Loaded \/ pc \notin {"write", "store", "done"}
    <3>1. Loaded' = Loaded /\ pc # "write"
      BY <1>1, <1>6, <2>1 DEF Loaded
    <3> QED
      BY <1>3, <3>1
  <2>2. CASE s \notin Loaded /\ pc \in {"write", "store", "done"}
    <3>1. Loaded' = Loaded \cup {s}
      BY <1>1, <2>2 DEF Loaded
    <3>2. Cardinality(Loaded') = Cardinality(Loaded) + 1
      BY <1>2, <2>2, <3>1, FS_AddElement
    <3> QED
      BY <1>3, <3>2
  <2> QED
    BY <2>1, <2>2
<1> QED
  BY <1>3, <1>4, <1>5, <1>6

LEMMA TraderInvInit == TraderInit => TraderInv /\ TraderFlag
<1> SUFFICES ASSUME TraderInit PROVE TraderInv /\ TraderFlag
  OBVIOUS
<1>1. /\ position = Unknown /\ stored = Unknown
      /\ trades = [s \in Swaps |-> [pc |-> "waiting", pos |-> Unknown]]
  BY Zenon DEF TraderInit
<1>2. TraderFlag
  BY Zenon DEF TraderInit, TraderFlag
<1>3. Handled = {} /\ Loaded = {} /\ Running = {}
  BY <1>1 DEF Handled, Loaded, Running
<1>4. Cardinality(Handled) = 0 /\ Cardinality(Loaded) = 0
  BY <1>3, FS_EmptySet
<1>5. TraderTables
  BY <1>1, UnknownTally DEF TraderTables, TraderHandler, Pcs
<1>6. TalliesOK /\ OneAtATime
  BY <1>1, <1>3, <1>4, UnknownTally DEF TalliesOK, WithinLoaded, OneAtATime, HandlerOK
<1> QED
  BY <1>2, <1>5, <1>6 DEF TraderInv

(* The positions stay within the swaps counted: a move from s to pc with   *)
(* the position p, and what it writes.                                     *)
LEMMA TalliesKept ==
  ASSUME TraderTables, TalliesOK, NEW s \in Swaps, NEW pc \in Pcs, NEW p \in Tally, Move(s, pc, p),
         trades[s].pc # "done", pc = "write" => trades[s].pc \in {"load", "loadDb"},
         trades[s].pc \in {"write", "store"} => pc \in {"write", "store", "done"},
         \/ WithinLoaded(p)
         \/ /\ pc = "write" /\ p.held <= p.trades
            /\ \E q \in {position, stored, Unknown} : p.trades = q.trades + 1,
         position' \in {position, p}, stored' \in {stored, p}
  PROVE  TraderTables' /\ TalliesOK'
<1> USE TallyFields, HandlerFields, UnknownTally, MoveEffect, MoveCounts
<1>1. TraderTables'
  BY DEF TraderTables
<1>2. p.trades <= Cardinality(Loaded') /\ p.held <= p.trades
  <2>1. position \in Tally /\ stored \in Tally /\ p.trades \in Nat
    BY DEF TraderTables
  <2> QED
    BY <2>1 DEF TalliesOK, WithinLoaded
<1>3. \A q \in Tally : WithinLoaded(q) => q.trades <= Cardinality(Loaded') /\ q.held <= q.trades
  BY DEF WithinLoaded
<1>4. position'.trades <= Cardinality(Loaded') /\ position'.held <= position'.trades
  BY <1>2, <1>3 DEF TraderTables, TalliesOK
<1>5. stored'.trades <= Cardinality(Loaded') /\ stored'.held <= stored'.trades
  BY <1>2, <1>3 DEF TraderTables, TalliesOK
<1>6. ASSUME NEW t \in Swaps
      PROVE  trades'[t].pos.trades <= Cardinality(Loaded') /\ trades'[t].pos.held <= trades'[t].pos.trades
  BY <1>2, <1>3 DEF TraderTables, TalliesOK
<1> QED
  BY <1>1, <1>4, <1>5, <1>6 DEF TalliesOK, WithinLoaded

LEMMA TraderSwapKeeps == ASSUME TraderInv, NEW s \in Swaps, TraderSwap(s) PROVE TraderInv'
<1>1. Move(s, "load", Unknown) /\ trades[s].pc = "waiting" /\ position' = position /\ stored' = stored
  BY DEF TraderSwap
<1>2. ~overlapped' => ~overlapped /\ Running = {}
  BY Zenon DEF TraderSwap
<1> USE UnknownTally, MoveEffect, MoveCounts DEF Pcs
<1>3. WithinLoaded(Unknown)
  BY <1>1 DEF WithinLoaded, TraderInv
<1>4. TraderTables' /\ TalliesOK'
  BY <1>1, <1>3, TalliesKept DEF TraderInv
<1>5. ASSUME OneAtATime, Running = {} PROVE OneAtATime'
  BY <1>1, <1>5 DEF OneAtATime, HandlerOK, Running, TraderInv
<1> QED
  BY <1>2, <1>4, <1>5 DEF TraderInv

LEMMA LoadKeeps == ASSUME TraderInv, NEW s \in Swaps, Load(s) PROVE TraderInv'
<1>1. trades[s].pc = "load" /\ UNCHANGED <<position, stored, overlapped>>
  BY DEF Load
<1> USE UnknownTally, MoveEffect, MoveCounts, TradedTally, TallyFields DEF Pcs, TraderInv
<1>2. CASE position = Unknown /\ Move(s, "loadDb", Unknown)
  <2>1. TraderTables' /\ TalliesOK'
    BY <1>1, <1>2, TalliesKept DEF WithinLoaded
  <2>2. OneAtATime => OneAtATime'
    BY <1>1, <1>2 DEF OneAtATime, HandlerOK, Running
  <2> QED
    BY <1>1, <2>1, <2>2
<1>3. CASE position # Unknown /\ Move(s, "write", Traded(s, position))
  <2>1. position \in Tally
    BY DEF TraderTables
  <2>2. TraderTables' /\ TalliesOK'
    BY <1>1, <1>3, <2>1, TalliesKept DEF TalliesOK, WithinLoaded
  <2>3. ASSUME OneAtATime PROVE OneAtATime'
    <3>1. position = stored
      BY <1>1, <1>3, <2>3 DEF OneAtATime, Running
    <3> QED
      BY <1>1, <1>3, <2>1, <2>3, <3>1 DEF OneAtATime, HandlerOK, Running
  <2> QED
    BY <1>1, <2>2, <2>3
<1> QED
  BY <1>2, <1>3 DEF Load

LEMMA LoadDbKeeps == ASSUME TraderInv, NEW s \in Swaps, LoadDb(s) PROVE TraderInv'
<1>1. trades[s].pc = "loadDb" /\ UNCHANGED <<position, stored>>
  BY DEF LoadDb
<1> USE UnknownTally, MoveEffect, MoveCounts, TradedTally, TallyFields DEF Pcs, TraderInv
<1>2. CASE Move(s, "write", Traded(s, stored)) /\ UNCHANGED overlapped
  <2>1. stored \in Tally
    BY DEF TraderTables
  <2>2. TraderTables' /\ TalliesOK'
    BY <1>1, <1>2, <2>1, TalliesKept DEF TalliesOK, WithinLoaded
  <2>3. OneAtATime => OneAtATime'
    BY <1>1, <1>2, <2>1, SMTT(30) DEF OneAtATime, HandlerOK, Running
  <2> QED
    BY <1>1, <1>2, <2>2, <2>3
<1>3. CASE Move(s, "write", Traded(s, Unknown)) /\ overlapped' = TRUE
  <2>1. TraderTables' /\ TalliesOK'
    BY <1>1, <1>3, TalliesKept DEF TalliesOK, WithinLoaded
  <2> QED
    BY <1>3, <2>1
<1> QED
  BY <1>2, <1>3 DEF LoadDb

LEMMA WriteKeeps == ASSUME TraderInv, NEW s \in Swaps, Write(s) PROVE TraderInv'
<1> DEFINE p == trades[s].pos
<1>1. /\ trades[s].pc = "write" /\ position' = p /\ Move(s, "store", p)
      /\ UNCHANGED <<stored, overlapped>>
  BY DEF Write
<1>2. p \in Tally /\ WithinLoaded(p)
  BY HandlerFields DEF TraderInv, TraderTables, TalliesOK
<1> HIDE DEF p
<1> USE MoveEffect, MoveCounts DEF Pcs, TraderInv
<1>3. TraderTables' /\ TalliesOK'
  BY <1>1, <1>2, TalliesKept
<1>4. OneAtATime => OneAtATime'
  BY <1>1, <1>2 DEF OneAtATime, HandlerOK, Running, p
<1> QED
  BY <1>1, <1>3, <1>4

LEMMA StoreKeeps == ASSUME TraderInv, NEW s \in Swaps, Store(s) PROVE TraderInv'
<1> DEFINE p == trades[s].pos
<1>1. /\ trades[s].pc = "store" /\ stored' = p /\ Move(s, "done", Unknown)
      /\ UNCHANGED <<position, overlapped>>
  BY DEF Store
<1>2. p \in Tally /\ WithinLoaded(p)
  BY HandlerFields DEF TraderInv, TraderTables, TalliesOK
<1> HIDE DEF p
<1> USE UnknownTally, MoveEffect, MoveCounts, TallyFields DEF Pcs, TraderInv
<1>3. TraderTables' /\ TalliesOK'
  <2>1. Cardinality(Loaded') >= Cardinality(Loaded) /\ Cardinality(Loaded) \in Nat /\ Cardinality(Loaded') \in Nat
    BY <1>1
  <2>2. TraderTables'
    BY <1>1, <1>2 DEF TraderTables
  <2>3. \A q \in Tally : WithinLoaded(q) => q.trades <= Cardinality(Loaded') /\ q.held <= q.trades
    BY <2>1 DEF WithinLoaded
  <2>4. WithinLoaded(Unknown)
    BY <2>1 DEF WithinLoaded
  <2>5. \A t \in Swaps : trades[t].pos \in Tally
    BY HandlerFields DEF TraderTables
  <2>6. TalliesOK'
    BY <1>1, <1>2, <2>2, <2>3, <2>4, <2>5 DEF TraderTables, TalliesOK, WithinLoaded
  <2> QED
    BY <2>2, <2>6
<1>4. ASSUME OneAtATime PROVE OneAtATime'
  <2>1. Running \subseteq {s} /\ position = p /\ p.trades = Cardinality(Handled) + 1
    BY <1>1, <1>4 DEF OneAtATime, HandlerOK, Running, p
  <2>2. \A t \in Swaps : trades'[t].pc \in {"waiting", "done"}
    BY <1>1, <2>1 DEF Running, TraderTables
  <2> QED
    BY <1>1, <1>2, <2>1, <2>2 DEF OneAtATime, HandlerOK, Running
<1> QED
  BY <1>1, <1>3, <1>4

LEMMA FailKeeps == ASSUME TraderInv, NEW s \in Swaps, Fail(s) PROVE TraderInv'
<1>1. /\ trades[s].pc \notin {"waiting", "done"} /\ Move(s, "done", Unknown)
      /\ UNCHANGED <<position, stored>> /\ overlapped' = TRUE
  BY DEF Fail, Running
<1> USE UnknownTally, MoveCounts DEF Pcs, TraderInv
<1>2. WithinLoaded(Unknown)
  BY <1>1 DEF WithinLoaded
<1>3. TraderTables' /\ TalliesOK'
  BY <1>1, <1>2, TalliesKept
<1> QED
  BY <1>1, <1>3

LEMMA ForgetKeeps == ASSUME TraderInv, Forget PROVE TraderInv'
<1>1. Running = {} /\ position' = Unknown /\ UNCHANGED <<stored, trades, overlapped>>
  BY DEF Forget
<1>2. IsFiniteSet(Loaded) /\ Cardinality(Loaded) \in Nat
  BY SwapsAssumption, FS_Subset, FS_CardinalityType DEF Loaded
<1>3. Loaded' = Loaded /\ Handled' = Handled
  BY <1>1 DEF Loaded, Handled
<1>4. TraderTables' /\ TalliesOK'
  BY <1>1, <1>2, <1>3, UnknownTally DEF TraderInv, TraderTables, TalliesOK, WithinLoaded
<1>5. OneAtATime => OneAtATime'
  BY <1>1, <1>3 DEF OneAtATime, HandlerOK, Running
<1> QED
  BY <1>1, <1>4, <1>5 DEF TraderInv

LEMMA TraderInvStep == TraderInv /\ [TraderStep]_traderVars => TraderInv'
<1> SUFFICES ASSUME TraderInv, [TraderStep]_traderVars PROVE TraderInv'
  OBVIOUS
<1>1. CASE UNCHANGED traderVars
  BY <1>1 DEF traderVars, TraderInv, TraderTables, TalliesOK, WithinLoaded, Loaded, OneAtATime, HandlerOK, Running, Handled
<1>2. CASE TraderStep
  BY <1>2, TraderSwapKeeps, LoadKeeps, LoadDbKeeps, WriteKeeps, StoreKeeps, FailKeeps, ForgetKeeps DEF TraderStep
<1> QED
  BY <1>1, <1>2

LEMMA TraderFlagStep == TraderFlag /\ [TraderStep]_traderVars => TraderFlag'
<1> SUFFICES ASSUME TraderFlag, [TraderStep]_traderVars PROVE TraderFlag'
  OBVIOUS
<1>1. ASSUME NEW s \in Swaps, TraderSwap(s) PROVE TraderFlag'
  BY <1>1, Zenon DEF TraderSwap, TraderFlag
<1>2. CASE overlapped' = overlapped \/ overlapped' = TRUE
  BY <1>2, Zenon DEF TraderFlag
<1> QED
  BY <1>1, <1>2, Zenon DEF TraderStep, traderVars, Load, LoadDb, Write, Store, Fail, Forget

LEMMA TraderInvAlways == TraderSpec => [](TraderInv /\ TraderFlag)
  BY TraderInvInit, TraderInvStep, TraderFlagStep, PTL DEF TraderSpec

(* The positions and the handlers of TraderPositionService have their      *)
(* types.                                                                  *)
THEOREM TraderTypes == TraderSpec => []TraderTypeOK
<1>1. ASSUME TraderInv, TraderFlag PROVE TraderTypeOK
  <2>1. Cardinality(Loaded) <= Cardinality(Swaps) /\ Cardinality(Loaded) \in Nat /\ Cardinality(Swaps) \in Nat
    BY SwapsAssumption, FS_Subset, FS_CardinalityType DEF Loaded
  <2>2. ASSUME NEW p \in Tally, WithinLoaded(p) PROVE p \in Position
    <3>1. p.trades \in 0..Cardinality(Swaps) /\ p.held \in 0..Cardinality(Swaps)
      BY <2>1, <2>2, TallyFields DEF WithinLoaded
    <3> QED
      BY <3>1 DEF Tally, Position
  <2>3. position \in Position /\ stored \in Position
    BY <1>1, <2>2 DEF TraderInv, TraderTables, TalliesOK
  <2>4. ASSUME NEW s \in Swaps PROVE trades[s] \in [pc : Pcs, pos : Position]
    <3>1. trades[s] \in TraderHandler /\ trades[s].pos \in Position
      BY <1>1, <2>2, HandlerFields DEF TraderInv, TraderTables, TalliesOK
    <3> QED
      BY <3>1 DEF TraderHandler
  <2>5. trades \in [Swaps -> [pc : Pcs, pos : Position]]
    BY <1>1, <2>4 DEF TraderInv, TraderTables
  <2> QED
    BY <1>1, <2>3, <2>5, Zenon DEF TraderTypeOK, TraderFlag
<1> QED
  BY <1>1, TraderInvAlways, PTL

(* With no swap under way and none overlapped, the stored position counts  *)
(* each swap handled and the cached one is the same or forgotten, for any  *)
(* finite set of swaps.                                                    *)
THEOREM SwapsAreAlwaysCounted == TraderSpec => []SwapsAreCounted
<1>1. TraderInv => SwapsAreCounted
  BY DEF TraderInv, OneAtATime, Running, SwapsAreCounted
<1> QED
  BY <1>1, TraderInvAlways, PTL

(***************************************************************************)
(* TradeFeed.  A trade is sent twice at most: what was sent of it and what *)
(* waits in the buffer are never more than two, and less while a delivery  *)
(* of it is on its way.                                                    *)
(***************************************************************************)
Waits(t) == IF t \in tradesBuffer THEN 1 ELSE 0

FeedInv ==
  /\ tradeRooms \subseteq Rooms
  /\ deliveries \subseteq Trades /\ tradesBuffer \subseteq Trades
  /\ sent \in [Trades -> 0..2]
  /\ \A t \in Trades : sent[t] + Waits(t) <= IF t \in deliveries THEN 1 ELSE 2
  /\ top \subseteq Holders /\ previous \subseteq Holders

LEMMA FeedInvInit == FeedInit => FeedInv
  BY DEF FeedInit, FeedInv, Waits

LEMMA WaitsCounts == ASSUME NEW t PROVE Cardinality({t} \cap tradesBuffer) = Waits(t)
<1>1. CASE t \in tradesBuffer
  <2>1. {t} \cap tradesBuffer = {t}
    BY <1>1
  <2> QED BY <2>1, <1>1, FS_Singleton DEF Waits
<1>2. CASE t \notin tradesBuffer
  <2>1. {t} \cap tradesBuffer = {}
    BY <1>2
  <2> QED BY <2>1, <1>2, FS_EmptySet DEF Waits
<1> QED BY <1>1, <1>2

LEMMA FeedInvStep == FeedInv /\ [FeedStep]_feedVars => FeedInv'
<1> SUFFICES ASSUME FeedInv, [FeedStep]_feedVars PROVE FeedInv'
  OBVIOUS
<1>1. CASE UNCHANGED feedVars
  BY <1>1 DEF feedVars, FeedInv, Waits
<1>2. ASSUME NEW t \in Trades, SwapArrives(t) PROVE FeedInv'
  <2>1. sent[t] + Waits(t) < 2
    BY <1>2, WaitsCounts, Zenon DEF SwapArrives
  <2>2. deliveries' = deliveries \cup {t} /\ UNCHANGED <<tradeRooms, tradesBuffer, sent, top, previous>>
    BY <1>2, Zenon DEF SwapArrives
  <2> QED BY <2>1, <2>2 DEF FeedInv, Waits
<1>3. ASSUME NEW t \in Trades, BufferTrade(t) PROVE FeedInv'
  BY <1>3 DEF BufferTrade, FeedInv, Waits
<1>4. ASSUME NEW room \in Rooms, EnterOrLeave(room) PROVE FeedInv'
  BY <1>4 DEF EnterOrLeave, FeedInv, Waits
<1>5. ASSUME NEW room, EmitTrades(room) PROVE FeedInv'
  <2>1. CASE Drained(room) = tradesBuffer
    <3>1. /\ tradesBuffer' = {} /\ UNCHANGED <<tradeRooms, deliveries, top, previous>>
          /\ sent' = [t \in Trades |-> IF t \in tradesBuffer THEN sent[t] + 1 ELSE sent[t]]
      BY <1>5, <2>1, SMT DEF EmitTrades
    <3>2. \A t \in Trades : sent[t] \in 0..2 /\ sent[t] + Waits(t) <= IF t \in deliveries THEN 1 ELSE 2
      BY DEF FeedInv
    <3>3. \A t \in Trades : sent'[t] = sent[t] + Waits(t) /\ Waits(t)' = 0 /\ Waits(t) \in {0, 1}
      BY <3>1, <3>2 DEF Waits
    <3>4. sent' \in [Trades -> 0..2]
      BY <3>1, <3>2 DEF Waits
    <3> QED BY <3>1, <3>2, <3>3, <3>4 DEF FeedInv
  <2> QED BY <1>5, <2>1, Zenon DEF EmitTrades, Drained
<1>6. ASSUME NEW h \in Holders, RankingChanges(h) PROVE FeedInv'
  BY <1>6 DEF RankingChanges, FeedInv, Waits
<1>7. CASE EmitHolders
  BY <1>7 DEF EmitHolders, FeedInv, Waits
<1> QED BY <1>1, <1>2, <1>3, <1>4, <1>5, <1>6, <1>7, Zenon DEF FeedStep

FeedSpec == FeedInit /\ [][FeedStep]_feedVars

(* TradeFeed.FeedTypeOK, for any trades and holders.                       *)
THEOREM FeedTypes == FeedSpec => []FeedTypeOK
<1>1. FeedInv => FeedTypeOK
  BY DEF FeedInv, FeedTypeOK
<1> QED BY <1>1, FeedInvInit, FeedInvStep, PTL DEF FeedSpec

(***************************************************************************)
(* HolderBooks.  A handler sends the commands of its kind and no others,   *)
(* and divides by what is held only when something is: so the fields of    *)
(* the hash stay integers.                                                 *)
(***************************************************************************)
Swapped == {"transactions", "first", "setFirst", "last", "keep", "read", "rank", "keepRanking"}

Buying == {"balance", "bought", "cost", "count"} \cup Swapped

Selling == {"balance", "sold", "countSale", "held", "basis", "realized", "takeCost"} \cup Swapped

OnRoute(h) ==
  \/ h.kind = "buy" /\ h.at \in Buying
  \/ h.kind = "sell" /\ h.at \in Selling
  \/ h.kind = "report" /\ h.at \in {"set", "keep", "rank", "keepRanking"}
  \/ h.kind = "removal" /\ h.at \in {"unrank", "delete"}
  \/ h.kind = "price" /\ h.at \in {"top", "all", "unrealized"}

Routed(h) ==
  /\ OnRoute(h)
  /\ h.at \in {"realized", "takeCost"} => h.held > 0
  /\ h.kind = "report" => h.data \in Reports

BookFields == DOMAIN book \subseteq Fields /\ \A f \in DOMAIN book : book[f] \in Int

BookInv ==
  /\ BookFields
  /\ score \in Int
  /\ queue \in Seq(Handler) /\ Len(queue) <= MaxHandlers
  /\ \A i \in 1..Len(queue) : Routed(queue[i])
  /\ dealt \subseteq Deals
  /\ starts \in 0..MaxStarts
  /\ uncosted \in Nat

BookFlags == lasting \in BOOLEAN /\ crossed \in BOOLEAN /\ diverged \in BOOLEAN /\ muddled \in BOOLEAN

LEMMA BookHandler ==
  ASSUME NEW h \in Handler
  PROVE  /\ h.kind \in BookKinds /\ h.at \in Commands /\ h.raw \in Nat /\ h.usd \in Nat
         /\ h.data \in Reports \cup {<<>>} /\ h.held \in Int /\ h.basis \in Int
  BY DEF Handler

LEMMA BookHandlerAgain == ASSUME NEW h \in Handler, NEW at \in Commands PROVE [h EXCEPT !.at = at] \in Handler
  BY DEF Handler

LEMMA GetIsInt == ASSUME BookFields, NEW f PROVE Get(f) \in Int
  BY DEF BookFields, Get

(* The handler after its command: the same one, that knows more.           *)
LEMMA LearntFacts ==
  ASSUME BookFields, NEW h \in Handler
  PROVE  /\ Learnt(h) \in Handler /\ Learnt(h).kind = h.kind /\ Learnt(h).at = h.at
         /\ Learnt(h).data = h.data /\ Learnt(h).raw = h.raw /\ Learnt(h).usd = h.usd
         /\ h.at \notin {"held", "read", "all"} => Learnt(h).held = h.held
         /\ h.at \notin {"basis", "all"} => Learnt(h).basis = h.basis
<1>1. Get("balance") + h.raw \in Int /\ Get("balance") \in Int /\ Get("cost") \in Int /\ h.raw \in Nat
  BY GetIsInt, BookHandler
<1>2. CASE h.at = "held"
  <2>1. Learnt(h) = [h EXCEPT !.held = Get("balance") + h.raw]
    BY <1>2, SMT DEF Learnt
  <2> HIDE DEF Learnt
  <2> QED BY <1>1, <1>2, <2>1 DEF Handler
<1>3. CASE h.at = "basis"
  <2>1. Learnt(h) = [h EXCEPT !.basis = Get("cost")]
    BY <1>3, SMT DEF Learnt
  <2> QED BY <1>1, <1>3, <2>1 DEF Handler
<1>4. CASE h.at = "read"
  <2>1. Learnt(h) = [h EXCEPT !.held = Get("balance")]
    BY <1>4, SMT DEF Learnt
  <2> QED BY <1>1, <1>4, <2>1 DEF Handler
<1>5. CASE h.at = "all"
  <2>1. Learnt(h) = [h EXCEPT !.held = Get("balance"), !.basis = Get("cost")]
    BY <1>5, SMT DEF Learnt
  <2> QED BY <1>1, <1>5, <2>1 DEF Handler
<1>6. CASE h.at \notin {"held", "basis", "read", "all"}
  <2>1. Learnt(h) = h
    BY <1>6, SMT DEF Learnt
  <2> QED BY <2>1
<1> QED BY <1>2, <1>3, <1>4, <1>5, <1>6

LEMMA LastCommands ==
  /\ LastCommand["buy"] = "keepRanking" /\ LastCommand["sell"] = "keepRanking"
  /\ LastCommand["report"] = "keepRanking" /\ LastCommand["removal"] = "delete"
  /\ LastCommand["price"] = "unrealized"
  BY DEF LastCommand

LEMMA FirstCommands ==
  /\ FirstCommand["buy"] = "balance" /\ FirstCommand["sell"] = "balance"
  /\ FirstCommand["report"] = "set" /\ FirstCommand["removal"] = "unrank"
  /\ FirstCommand["price"] = "top"
  BY DEF FirstCommand

(* Follows, command by command.                                            *)
LEMMA FollowsTable ==
  ASSUME NEW h
  PROVE  /\ h.at = "balance" => Follows(h) = IF h.kind = "buy" THEN "bought" ELSE "sold"
         /\ h.at = "bought" => Follows(h) = "cost"
         /\ h.at = "cost" => Follows(h) = "count"
         /\ h.at = "sold" => Follows(h) = "countSale"
         /\ h.at = "countSale" => Follows(h) = "held"
         /\ h.at = "held" => Follows(h) = "basis"
         /\ h.at = "basis" => Follows(h) = IF h.held > 0 THEN "realized" ELSE "transactions"
         /\ h.at = "realized" => Follows(h) = "takeCost"
         /\ h.at \in {"takeCost", "count"} => Follows(h) = "transactions"
         /\ h.at = "transactions" => Follows(h) = "first"
         /\ h.at = "first" => Follows(h) = IF "first" \in DOMAIN book THEN "last" ELSE "setFirst"
         /\ h.at = "setFirst" => Follows(h) = "last"
         /\ h.at = "last" => Follows(h) = "keep"
         /\ h.at = "set" => Follows(h) = "keep"
         /\ h.at = "keep" => Follows(h) = IF h.kind = "report" THEN "rank" ELSE "read"
         /\ h.at = "read" => Follows(h) = "rank"
         /\ h.at = "rank" => Follows(h) = "keepRanking"
         /\ h.at = "unrank" => Follows(h) = "delete"
         /\ h.at = "top" => Follows(h) = "all"
         /\ h.at = "all" => Follows(h) = "unrealized"
  BY DEF Follows

(* Its next command is one of its kind.                                    *)
LEMMA FollowsFacts ==
  ASSUME NEW k \in Handler, Routed(k), k.at # LastCommand[k.kind]
  PROVE  /\ Follows(k) \in Commands
         /\ Routed([k EXCEPT !.at = Follows(k)])
<1>1. k.kind \in BookKinds
  BY BookHandler
<1>2. /\ k.kind = "buy" => Follows(k) \in Buying
      /\ k.kind = "sell" => Follows(k) \in Selling
  <2>1. CASE k.kind = "buy"
    <3>1. k.at \in Buying /\ k.at # "keepRanking"
      BY <2>1, LastCommands DEF Routed, OnRoute
    <3>2. CASE k.at \in {"balance", "bought", "cost", "count"}
      BY <2>1, <3>2, FollowsTable DEF Buying, Swapped
    <3>3. CASE k.at \in Swapped
      BY <2>1, <3>1, <3>3, FollowsTable DEF Buying, Swapped
    <3> QED BY <3>1, <3>2, <3>3 DEF Buying
  <2>2. CASE k.kind = "sell"
    <3>1. k.at \in Selling /\ k.at # "keepRanking"
      BY <2>2, LastCommands DEF Routed, OnRoute
    <3> QED BY <2>2, <3>1, FollowsTable DEF Selling, Swapped
  <2> QED BY <2>1, <2>2
<1>3. /\ k.kind = "report" => Follows(k) \in {"keep", "rank", "keepRanking"}
      /\ k.kind = "removal" => Follows(k) = "delete"
      /\ k.kind = "price" => Follows(k) \in {"all", "unrealized"}
  <2>1. CASE k.kind = "report"
    <3>1. k.at \in {"set", "keep", "rank"}
      BY <2>1, LastCommands DEF Routed, OnRoute
    <3> QED BY <2>1, <3>1, FollowsTable
  <2>2. CASE k.kind = "removal"
    <3>1. k.at = "unrank"
      BY <2>2, LastCommands DEF Routed, OnRoute
    <3> QED BY <2>2, <3>1, FollowsTable
  <2>3. CASE k.kind = "price"
    <3>1. k.at \in {"top", "all"}
      BY <2>3, LastCommands DEF Routed, OnRoute
    <3> QED BY <2>3, <3>1, FollowsTable
  <2> QED BY <2>1, <2>2, <2>3
<1>4. Follows(k) \in {"realized", "takeCost"} => k.held > 0
  <2>1. CASE k.at \in {"basis", "realized"}
    BY <2>1, FollowsTable DEF Routed
  <2>2. CASE k.at \notin {"basis", "realized"}
    <3>1. k.at \in {"bought", "cost", "count", "balance", "sold", "countSale", "held", "takeCost",
                    "transactions", "first", "setFirst", "last", "keep", "read", "rank", "set", "unrank",
                    "top", "all"}
      BY <1>1, <2>2, LastCommands DEF Routed, OnRoute, Buying, Selling, Swapped, BookKinds
    <3> QED BY <3>1, FollowsTable
  <2> QED BY <2>1, <2>2
<1>5. Follows(k) \in Commands
  BY <1>1, <1>2, <1>3 DEF BookKinds, Buying, Selling, Swapped, Commands
<1>6. LET n == [k EXCEPT !.at = Follows(k)] IN
      n.at = Follows(k) /\ n.kind = k.kind /\ n.held = k.held /\ n.data = k.data
  BY DEF Handler
<1> HIDE DEF Follows
<1> QED BY <1>1, <1>2, <1>3, <1>4, <1>5, <1>6 DEF Routed, OnRoute, BookKinds

LEMMA SetFieldKeeps ==
  ASSUME BookFields, NEW f \in Fields, NEW n \in Int, SetField(f, n)
  PROVE  BookFields'
  BY DEF BookFields, SetField, SetFields

LEMMA ReportedFields ==
  ASSUME NEW data \in Reports
  PROVE  /\ DOMAIN Reported(data) \subseteq Fields
         /\ \A f \in DOMAIN Reported(data) : Reported(data)[f] \in Int
<1>1. data.balance \in Nat /\ data.boughtRaw \in Nat /\ data.bought \in Nat /\ data.sold \in Nat
  BY BooksAssumption
<1>2. SoldRaw(data) \in Int
  BY <1>1 DEF SoldRaw
<1>3. ASSUME NEW n \in Int, data.boughtRaw > 0 PROVE n \div data.boughtRaw \in Int
  BY <1>1, <1>3
<1>4. data.balance * data.bought \in Int /\ SoldRaw(data) * data.bought \in Int
  BY <1>1, <1>2
<1>5. data.boughtRaw > 0 =>
        CostBasis(data) \in Int /\ data.sold - (SoldRaw(data) * data.bought) \div data.boughtRaw \in Int
  <2> SUFFICES ASSUME data.boughtRaw > 0
               PROVE CostBasis(data) \in Int /\ data.sold - (SoldRaw(data) * data.bought) \div data.boughtRaw \in Int
    OBVIOUS
  <2>1. CostBasis(data) \in Int /\ (SoldRaw(data) * data.bought) \div data.boughtRaw \in Int
    BY <1>3, <1>4 DEF CostBasis
  <2> QED BY <1>1, <2>1
<1> DEFINE n == data.sold - (SoldRaw(data) * data.bought) \div data.boughtRaw
           D == {"balance", "bought", "sold"} \cup (IF data.boughtRaw > 0 THEN {"cost"} ELSE {})
                  \cup (IF data.boughtRaw > 0 /\ SoldRaw(data) > 0 THEN {"realized"} ELSE {})
<1>6. Reported(data) = [f \in D |->
        CASE f = "balance" -> data.balance
          [] f = "bought"  -> data.bought
          [] f = "sold"    -> data.sold
          [] f = "cost"    -> CostBasis(data)
          [] OTHER -> n]
  BY Zenon DEF Reported
<1>7. data.boughtRaw > 0 => n \in Int
  BY <1>5
<1> HIDE DEF n
<1> QED BY <1>1, <1>5, <1>6, <1>7 DEF Fields

LEMMA CostOfSoldIsInt == ASSUME NEW h \in Handler, h.held > 0 PROVE CostOfSold(h) \in Int
<1>1. h.basis \in Int /\ h.raw \in Nat /\ h.held \in Int
  BY BookHandler
<1>2. h.basis * h.raw \in Int
  BY <1>1
<1> DEFINE p == h.basis * h.raw
<1>3. p \in Int
  BY <1>2
<1> HIDE DEF p
<1>4. p \div h.held \in Int
  BY <1>1, <1>3
<1> QED BY <1>4 DEF CostOfSold, p

(* Effect, command by command.                                             *)
LEMMA EffectTable ==
  ASSUME NEW h, Effect(h)
  PROVE  /\ h.at = "balance" => Incr("balance", IF h.kind = "buy" THEN h.raw ELSE -h.raw)
         /\ h.at = "bought" => Incr("bought", h.usd)
         /\ h.at = "cost" => Incr("cost", h.usd)
         /\ h.at = "sold" => Incr("sold", h.usd)
         /\ h.at = "realized" => Incr("realized", h.usd - CostOfSold(h))
         /\ h.at = "takeCost" => Incr("cost", -CostOfSold(h))
         /\ h.at = "setFirst" => SetField("first", 1)
         /\ h.at = "set" => SetFields(Reported(h.data))
         /\ h.at = "unrealized" => SetField("unrealized", h.held * HolderPrice - h.basis)
         /\ h.at = "delete" => book' = <<>>
         /\ h.at \notin Writing => UNCHANGED book
  BY DEF Effect, Writing

LEMMA EffectKeeps ==
  ASSUME BookFields, NEW h \in Handler, Routed(h), Effect(h)
  PROVE  BookFields'
<1>1. /\ h.raw \in Nat /\ h.usd \in Nat /\ h.held \in Int /\ h.basis \in Int
      /\ \A f : Get(f) \in Int
  BY BookHandler, GetIsInt
<1>2. CASE h.at \in {"balance", "bought", "cost", "sold"}
  <2>1. \E f \in {"balance", "bought", "cost", "sold"}, n \in {h.raw, -h.raw, h.usd} : SetField(f, Get(f) + n)
    BY <1>2, EffectTable DEF Incr
  <2>2. \A n \in {h.raw, -h.raw, h.usd} : \A f : Get(f) + n \in Int
    BY <1>1
  <2> QED BY <2>1, <2>2, SetFieldKeeps, Zenon DEF Fields
<1>3. CASE h.at \in {"realized", "takeCost"}
  <2>1. CostOfSold(h) \in Int
    BY <1>3, CostOfSoldIsInt DEF Routed
  <2>2. \E f \in {"realized", "cost"}, n \in {h.usd - CostOfSold(h), -CostOfSold(h)} : SetField(f, Get(f) + n)
    BY <1>3, EffectTable DEF Incr
  <2>3. \A n \in {h.usd - CostOfSold(h), -CostOfSold(h)} : \A f : Get(f) + n \in Int
    BY <1>1, <2>1
  <2> QED BY <2>2, <2>3, SetFieldKeeps, Zenon DEF Fields
<1>4. CASE h.at = "setFirst"
  <2>1. SetField("first", 1)
    BY <1>4, EffectTable
  <2> QED BY <2>1, SetFieldKeeps DEF Fields
<1>5. CASE h.at = "set"
  <2>1. SetFields(Reported(h.data))
    BY <1>5, EffectTable
  <2>2. h.data \in Reports
    BY <1>5 DEF Routed, OnRoute, Buying, Selling, Swapped
  <2>3. /\ DOMAIN Reported(h.data) \subseteq Fields
        /\ \A f \in DOMAIN Reported(h.data) : Reported(h.data)[f] \in Int
    BY <2>2, ReportedFields, Zenon
  <2> QED BY <2>1, <2>3 DEF SetFields, BookFields
<1>6. CASE h.at = "unrealized"
  <2>1. SetField("unrealized", h.held * HolderPrice - h.basis)
    BY <1>6, EffectTable
  <2>2. h.held * HolderPrice \in Int
    BY <1>1, BooksAssumption
  <2>3. h.held * HolderPrice - h.basis \in Int
    BY <1>1, <2>2
  <2> QED BY <2>1, <2>3, SetFieldKeeps, Zenon DEF Fields
<1>7. CASE h.at = "delete"
  <2>1. book' = <<>>
    BY <1>7, EffectTable
  <2> QED BY <2>1 DEF BookFields
<1>8. CASE h.at \notin Writing
  <2>1. UNCHANGED book
    BY <1>8, EffectTable
  <2> QED BY <2>1 DEF BookFields
<1> QED BY <1>2, <1>3, <1>4, <1>5, <1>6, <1>7, <1>8 DEF Writing

LEMMA BookInvInit == BookInit => BookInv /\ BookFlags
<1> SUFFICES ASSUME BookInit PROVE BookInv /\ BookFlags
  OBVIOUS
<1>1. /\ book = <<>> /\ queue = <<>> /\ score = 0 /\ dealt = {} /\ starts = 0 /\ uncosted = 0
      /\ MaxStarts \in Nat /\ MaxHandlers \in Nat
  BY BooksAssumption, Zenon DEF BookInit
<1>2. BookFields
  BY <1>1 DEF BookFields
<1>3. queue \in Seq(Handler) /\ Len(queue) = 0
  BY <1>1
<1>4. BookFlags
  BY Zenon DEF BookInit, BookFlags
<1> QED BY <1>1, <1>2, <1>3, <1>4 DEF BookInv

(* A handler is sent to the end of the queue.                              *)
LEMMA BeginKeeps ==
  ASSUME BookInv, NEW kind \in BookKinds, NEW raw \in Nat, NEW usd \in Nat, NEW data \in Reports \cup {<<>>},
         kind = "report" => data \in Reports, Begin(kind, raw, usd, data), dealt' \subseteq Deals
  PROVE  BookInv'
<1> DEFINE h == [kind |-> kind, at |-> FirstCommand[kind], raw |-> raw, usd |-> usd,
                 data |-> data, held |-> 0, basis |-> 0]
<1>1. h \in Handler /\ Routed(h)
  <2>1. FirstCommand[kind] \in Commands
    BY FirstCommands DEF BookKinds, Commands
  <2>2. h \in Handler
    BY <2>1 DEF Handler
  <2>3. h.kind = kind /\ h.at = FirstCommand[kind] /\ h.data = data
    OBVIOUS
  <2> HIDE DEF h
  <2> QED BY <2>2, <2>3, FirstCommands DEF Routed, OnRoute, BookKinds, Buying, Selling
<1>2. /\ Len(queue) < MaxHandlers /\ starts < MaxStarts /\ starts' = starts + 1
      /\ queue' = Append(queue, h) /\ UNCHANGED <<book, lasting, score, uncosted>>
  BY Zenon DEF Begin
<1> HIDE DEF h
<1>3. queue \in Seq(Handler) /\ \A i \in 1..Len(queue) : Routed(queue[i])
  BY DEF BookInv
<1>4. queue' \in Seq(Handler) /\ Len(queue') = Len(queue) + 1
      /\ \A i \in 1..Len(queue') : queue'[i] = IF i <= Len(queue) THEN queue[i] ELSE h
  BY <1>1, <1>2, <1>3
<1>5. \A i \in 1..Len(queue') : Routed(queue'[i])
  BY <1>1, <1>3, <1>4
<1> QED BY <1>2, <1>4, <1>5, BooksAssumption DEF BookInv, BookFields

(* What the queue is when the handler at its head has been answered.       *)
LEMMA QueueAfter ==
  ASSUME BookInv, NEW ks \in Seq(Handler), Len(ks) <= 1, ks # <<>> => Routed(ks[1]),
         queue # <<>>, queue' = Tail(queue) \o ks
  PROVE  /\ queue' \in Seq(Handler) /\ Len(queue') <= MaxHandlers
         /\ \A i \in 1..Len(queue') : Routed(queue'[i])
<1>1. queue \in Seq(Handler) /\ Len(queue) <= MaxHandlers /\ \A i \in 1..Len(queue) : Routed(queue[i])
  BY DEF BookInv
<1>2. Tail(queue) \in Seq(Handler) /\ Len(Tail(queue)) = Len(queue) - 1
      /\ \A i \in 1..(Len(queue) - 1) : Tail(queue)[i] = queue[i + 1]
  BY <1>1
<1>3. queue' \in Seq(Handler) /\ Len(queue') = Len(queue) - 1 + Len(ks)
      /\ \A i \in 1..Len(queue') : queue'[i] = IF i < Len(queue) THEN queue[i + 1] ELSE ks[i - Len(queue) + 1]
  BY <1>1, <1>2
<1>4. ASSUME NEW i \in 1..Len(queue') PROVE Routed(queue'[i])
  <2>1. CASE i < Len(queue)
    BY <1>1, <1>3, <2>1
  <2>2. CASE i >= Len(queue)
    <3>1. i = Len(queue) /\ Len(ks) = 1
      <4>1. PICK n \in Nat, m \in Nat : n = Len(queue) /\ m = Len(ks)
        BY <1>1
      <4>2. i \in 1..(n - 1 + m) /\ i >= n /\ m <= 1
        BY <1>3, <2>2, <4>1
      <4>3. i = n /\ m = 1
        BY <4>2
      <4> QED BY <4>1, <4>3
    <3>2. queue'[i] = ks[1]
      BY <1>1, <1>3, <3>1
    <3> QED BY <3>1, <3>2
  <2> QED BY <1>1, <2>1, <2>2
<1> QED BY <1>1, <1>3, <1>4, BooksAssumption

LEMMA AtTheHead == ASSUME BookInv, queue # <<>> PROVE Head(queue) \in Handler /\ Routed(Head(queue))
  BY DEF BookInv

(* Redis answers the command at the head.                                  *)
LEMMA ExecKeeps == ASSUME BookInv, queue # <<>>, Exec(Head(queue)) PROVE BookInv'
<1>1. PICK h : h = Head(queue)
  OBVIOUS
<1>2. h \in Handler /\ Routed(h) /\ BookFields
  BY <1>1, AtTheHead DEF BookInv
<1>3. PICK k : k = Learnt(h)
  OBVIOUS
<1>4. k \in Handler /\ k.kind = h.kind /\ k.at = h.at /\ k.data = h.data
      /\ (h.at \in {"realized", "takeCost"} => k.held = h.held)
  BY <1>2, <1>3, LearntFacts
<1>5. Routed(k)
  BY <1>2, <1>4 DEF Routed, OnRoute
<1>6. PICK ks : ks = IF Ends(h) THEN <<>> ELSE <<[k EXCEPT !.at = Follows(k)]>>
  OBVIOUS
<1>7. ks \in Seq(Handler) /\ Len(ks) <= 1 /\ (ks # <<>> => Routed(ks[1]))
  <2>1. CASE Ends(h)
    BY <1>6, <2>1
  <2>2. CASE ~Ends(h)
    <3>1. k.at # LastCommand[k.kind]
      BY <1>4, <2>2 DEF Ends
    <3>2. Follows(k) \in Commands /\ Routed([k EXCEPT !.at = Follows(k)])
      BY <1>4, <1>5, <3>1, FollowsFacts
    <3>3. [k EXCEPT !.at = Follows(k)] \in Handler
      <4>1. PICK at : at = Follows(k)
        OBVIOUS
      <4>2. [k EXCEPT !.at = at] \in Handler
        BY <1>4, <3>2, <4>1, BookHandlerAgain
      <4> QED BY <4>1, <4>2
    <3> QED BY <1>6, <2>2, <3>2, <3>3
  <2> QED BY <2>1, <2>2
<1>8. /\ Effect(h) /\ score' = Ranked(h) /\ queue' = Tail(queue) \o ks
      /\ uncosted' = CASE h.at = "delete" -> 0
                       [] h.at = "set" /\ Complete(h.data) -> 0
                       [] h.at = "basis" /\ h.held <= 0 -> uncosted + h.usd
                       [] OTHER -> uncosted
      /\ UNCHANGED <<dealt, starts, diverged>>
  BY <1>1, <1>3, <1>6, ZenonT(60) DEF Exec
<1>9. BookFields'
  BY <1>2, <1>8, EffectKeeps
<1>10. score' \in Int
  <2>1. h.kind = "report" => h.data \in Reports /\ h.data.balance \in Int
    <3>1. h.kind = "report" => h.data \in Reports
      BY <1>2 DEF Routed
    <3>2. \A data \in Reports : data.balance \in Int
      BY BooksAssumption
    <3> QED BY <3>1, <3>2
  <2>2. h.held \in Int /\ score \in Int
    BY <1>2, BookHandler DEF BookInv
  <2> QED BY <1>8, <2>1, <2>2 DEF Ranked
<1>11. uncosted' \in Nat
  <2>1. h.usd \in Nat /\ uncosted \in Nat
    BY <1>2, BookHandler DEF BookInv
  <2>2. uncosted' \in {0, uncosted, uncosted + h.usd}
    BY <1>8
  <2> QED BY <2>1, <2>2
<1>12. /\ queue' \in Seq(Handler) /\ Len(queue') <= MaxHandlers
       /\ \A i \in 1..Len(queue') : Routed(queue'[i])
  BY <1>7, <1>8, QueueAfter
<1> QED BY <1>8, <1>9, <1>10, <1>11, <1>12 DEF BookInv

LEMMA RejectKeeps == ASSUME BookInv, queue # <<>>, Reject(Head(queue)) PROVE BookInv'
<1>1. queue' = Tail(queue) /\ UNCHANGED <<book, score, dealt, starts, uncosted>>
  BY Zenon DEF Reject
<1>2. Tail(queue) = Tail(queue) \o <<>> /\ <<>> \in Seq(Handler) /\ Len(<<>>) = 0
  BY DEF BookInv
<1>3. PICK ks \in Seq(Handler) : Len(ks) = 0 /\ ks = <<>> /\ queue' = Tail(queue) \o ks
  BY <1>1, <1>2
<1>4. /\ queue' \in Seq(Handler) /\ Len(queue') <= MaxHandlers
      /\ \A i \in 1..Len(queue') : Routed(queue'[i])
  <2>1. Len(ks) <= 1 /\ ~(ks # <<>>)
    BY <1>3
  <2> QED BY <1>3, <2>1, QueueAfter
<1> QED BY <1>1, <1>4 DEF BookInv, BookFields

LEMMA BookInvStep == BookInv /\ [BookStep]_bookVars => BookInv'
<1> SUFFICES ASSUME BookInv, [BookStep]_bookVars PROVE BookInv'
  OBVIOUS
<1>1. CASE UNCHANGED bookVars
  BY <1>1 DEF bookVars, BookInv, BookFields
<1>2. ASSUME NEW deal \in Deals, OnSwapEvent(deal) PROVE BookInv'
  <2>1. PICK kind : kind = IF deal.buys THEN "buy" ELSE "sell"
    OBVIOUS
  <2>2. Begin(kind, deal.raw, deal.usd, <<>>) /\ dealt' = dealt \cup {deal}
    BY <1>2, <2>1, Zenon DEF OnSwapEvent
  <2>3. kind \in BookKinds /\ kind # "report" /\ deal.raw \in Nat /\ deal.usd \in Nat /\ dealt' \subseteq Deals
    BY <2>1, <2>2, BooksAssumption DEF BookKinds, BookInv
  <2> QED BY <2>2, <2>3, BeginKeeps
<1>3. ASSUME NEW data \in Reports, OnHolderUpdate(data) PROVE BookInv'
  <2>1. Begin("report", 0, 0, data) /\ UNCHANGED dealt
    BY <1>3, Zenon DEF OnHolderUpdate
  <2> QED BY <2>1, BeginKeeps DEF BookKinds, BookInv
<1>4. CASE OnRemoved
  <2>1. Begin("removal", 0, 0, <<>>) /\ UNCHANGED dealt
    BY <1>4, Zenon DEF OnRemoved
  <2> QED BY <2>1, BeginKeeps DEF BookKinds, BookInv
<1>5. CASE OnPriceUpdate
  <2>1. Begin("price", 0, 0, <<>>) /\ UNCHANGED dealt
    BY <1>5, Zenon DEF OnPriceUpdate
  <2> QED BY <2>1, BeginKeeps DEF BookKinds, BookInv
<1>6. CASE Expire
  BY <1>6 DEF Expire, BookInv, BookFields
<1>7. CASE queue # <<>> /\ Exec(Head(queue))
  BY <1>7, ExecKeeps
<1>8. CASE queue # <<>> /\ Reject(Head(queue))
  BY <1>8, RejectKeeps
<1> QED BY <1>1, <1>2, <1>3, <1>4, <1>5, <1>6, <1>7, <1>8, Zenon DEF BookStep

LEMMA BookFlagsStep == BookFlags /\ [BookStep]_bookVars => BookFlags'
<1> SUFFICES ASSUME BookFlags, [BookStep]_bookVars PROVE BookFlags'
  OBVIOUS
<1>1. CASE UNCHANGED bookVars
  BY <1>1, Zenon DEF bookVars, BookFlags
<1>2. ASSUME NEW deal \in Deals, OnSwapEvent(deal) PROVE BookFlags'
  BY <1>2, Zenon DEF OnSwapEvent, Begin, BookFlags
<1>3. ASSUME NEW data \in Reports, OnHolderUpdate(data) PROVE BookFlags'
  BY <1>3, Zenon DEF OnHolderUpdate, Begin, BookFlags
<1>4. CASE OnRemoved \/ OnPriceUpdate
  BY <1>4, Zenon DEF OnRemoved, OnPriceUpdate, Begin, BookFlags
<1>5. CASE Expire
  BY <1>5, Zenon DEF Expire, BookFlags
<1>6. CASE Exec(Head(queue)) \/ Reject(Head(queue))
  BY <1>6, Zenon DEF Exec, Reject, BookFlags
<1> QED BY <1>1, <1>2, <1>3, <1>4, <1>5, <1>6, Zenon DEF BookStep

BookSpec == BookInit /\ [][BookStep]_bookVars

LEMMA BookAlways == BookSpec => [](BookInv /\ BookFlags)
  BY BookInvInit, BookInvStep, BookFlagsStep, PTL DEF BookSpec

(* HolderBooks.BookTypeOK, for any swaps, reports and prices.              *)
THEOREM BookTypes == BookSpec => []BookTypeOK
<1>1. BookInv /\ BookFlags => BookTypeOK
  BY DEF BookInv, BookFields, BookFlags, BookTypeOK
<1> QED BY <1>1, BookAlways, PTL

(***************************************************************************)
(* HolderBooks.BooksBalance.  While nothing has gone wrong, what every     *)
(* handler still has to write is known from where it is, so the fields and *)
(* the queue together say what the fields will agree on.                   *)
(***************************************************************************)
Swapping(h) == h.kind \in {"buy", "sell"}

NoClash == \A i, j \in 1..Len(queue) : i # j => ~Clashes(queue[i].kind, queue[j].kind)

(* The hash has a balance as soon as it has anything.                      *)
Begun(h) == h.at \notin {"balance", "set", "unrank", "delete", "top", "all"}

HasBalance ==
  /\ book = <<>> \/ "balance" \in DOMAIN book
  /\ \A i \in 1..Len(queue) : Begun(queue[i]) => "balance" \in DOMAIN book

(* Whoever has written to it will have it expire.                          *)
WillKeep(h) ==
  \/ Swapping(h) /\ h.at \notin {"balance", "read", "rank", "keepRanking"}
  \/ h.kind = "report" /\ h.at = "keep"

LastsAwhile == lasting => \E i \in 1..Len(queue) : WillKeep(queue[i])

(* The ranking has the balance, unless someone will still read it, or the  *)
(* last of those who will write to the ranking has it.                     *)
WillRead(h) == (Swapping(h) /\ h.at \notin {"rank", "keepRanking"}) \/ h.at = "set"

WillRank(h) == h.at = "rank" \/ (h.kind = "report" /\ h.at = "keep")

Shares(h) == IF h.kind = "report" THEN h.data.balance ELSE h.held

Ranking(balance) == IF balance > 0 THEN balance ELSE 0

ScoreRight ==
  \/ "balance" \notin DOMAIN book
  \/ \E i \in 1..Len(queue) : WillRead(queue[i]) \/ queue[i].at = "delete"
  \/ \E i \in 1..Len(queue) : /\ WillRank(queue[i]) /\ Shares(queue[i]) = Get("balance")
                              /\ \A j \in 1..Len(queue) : j > i => ~WillRank(queue[j])
  \/ (\A i \in 1..Len(queue) : ~WillRank(queue[i])) /\ score = Ranking(Get("balance"))

ReportStored ==
  \A i \in 1..Len(queue) :
    queue[i].kind = "report" /\ WillRank(queue[i]) => queue[i].data.balance = Get("balance")

(* What the fields are off by is what the handlers in the queue have yet   *)
(* to add: p sums it up, handler by handler.                               *)
Unbooked(h) ==
  CASE h.at = "cost" -> -h.usd
    [] h.at \in {"countSale", "held", "basis", "realized"} -> h.usd
    [] h.at = "takeCost" -> CostOfSold(h)
    [] OTHER -> 0

OffBy == Get("realized") + uncosted - Get("sold") + Get("bought") - Get("cost")

Balancing ==
  \E p \in [1..(Len(queue) + 1) -> Int] :
    /\ p[1] = OffBy /\ p[Len(queue) + 1] = 0
    /\ \A i \in 1..Len(queue) : p[i + 1] = p[i] + Unbooked(queue[i])

(* A sale that does not cross another takes a share of the cost.           *)
CostFits ==
  ~crossed =>
    /\ Get("cost") >= 0
    /\ \A i, j \in 1..Len(queue) : i # j => ~(queue[i].kind = "sell" /\ queue[j].kind = "sell")
    /\ \A i \in 1..Len(queue) : queue[i].at \in {"realized", "takeCost"} =>
         0 <= queue[i].basis /\ queue[i].basis <= Get("cost") /\ queue[i].raw <= queue[i].held

BooksRight == NoClash /\ HasBalance /\ LastsAwhile /\ ScoreRight /\ ReportStored /\ Balancing /\ CostFits

(* The head of the queue, answered: h has left, or has sent k, its next    *)
(* command.                                                                *)
Sends(h, k) ==
  /\ k \in Handler /\ Routed(k)
  /\ k.kind = h.kind /\ k.data = h.data /\ k.raw = h.raw /\ k.usd = h.usd
  /\ k.at = Follows(Learnt(h))
  /\ k.held = Learnt(h).held /\ k.basis = Learnt(h).basis

Answered(h) ==
  /\ Len(queue) >= 1 /\ h = queue[1]
  /\ Len(queue') = IF Ends(h) THEN Len(queue) - 1 ELSE Len(queue)
  /\ \A i \in 1..(Len(queue) - 1) : queue'[i] = queue[i + 1]
  /\ ~Ends(h) => Sends(h, queue'[Len(queue)])

Joined(k) ==
  /\ k \in Handler /\ Routed(k) /\ k.at = FirstCommand[k.kind]
  /\ Len(queue') = Len(queue) + 1 /\ queue'[Len(queue) + 1] = k
  /\ \A i \in 1..Len(queue) : queue'[i] = queue[i]

LEMMA ExecIsAnswer ==
  ASSUME BookInv, queue # <<>>, NEW h, h = Head(queue), Exec(h)
  PROVE  Answered(h) /\ h \in Handler /\ Routed(h)
<1>1. h \in Handler /\ Routed(h) /\ BookFields
  BY AtTheHead DEF BookInv
<1>2. PICK k : k = Learnt(h)
  OBVIOUS
<1>3. k \in Handler /\ k.kind = h.kind /\ k.at = h.at /\ k.data = h.data /\ k.raw = h.raw /\ k.usd = h.usd
      /\ (h.at \in {"realized", "takeCost"} => k.held = h.held)
  BY <1>1, <1>2, LearntFacts
<1>4. Routed(k)
  BY <1>1, <1>3 DEF Routed, OnRoute
<1>5. PICK n : n = [k EXCEPT !.at = Follows(k)]
  OBVIOUS
<1>6. PICK ks : ks = IF Ends(h) THEN <<>> ELSE <<n>>
  OBVIOUS
<1>7. queue' = Tail(queue) \o ks
  BY <1>2, <1>5, <1>6, ZenonT(60) DEF Exec
<1>8. ~Ends(h) => Sends(h, n)
  <2> SUFFICES ASSUME ~Ends(h) PROVE Sends(h, n)
    OBVIOUS
  <2>1. k.at # LastCommand[k.kind]
    BY <1>3 DEF Ends
  <2>2. Follows(k) \in Commands /\ Routed(n)
    BY <1>3, <1>4, <1>5, <2>1, FollowsFacts
  <2>3. n \in Handler /\ n.at = Follows(k) /\ n.kind = k.kind /\ n.data = k.data /\ n.raw = k.raw
        /\ n.usd = k.usd /\ n.held = k.held /\ n.basis = k.basis
    <3>1. PICK at : at = Follows(k)
      OBVIOUS
    <3> QED BY <1>3, <1>5, <2>2, <3>1 DEF Handler
  <2> QED BY <1>2, <1>3, <2>2, <2>3 DEF Sends
<1>9. queue \in Seq(Handler) /\ Len(queue) \in Nat /\ Len(queue) >= 1 /\ h = queue[1]
  BY DEF BookInv
<1>10. Tail(queue) \in Seq(Handler) /\ Len(Tail(queue)) = Len(queue) - 1
       /\ \A i \in 1..(Len(queue) - 1) : Tail(queue)[i] = queue[i + 1]
  BY <1>9
<1>11. CASE Ends(h)
  <2>1. queue' = Tail(queue)
    BY <1>6, <1>7, <1>10, <1>11
  <2> QED BY <1>1, <1>9, <1>10, <1>11, <2>1 DEF Answered
<1>12. CASE ~Ends(h)
  <2>1. n \in Handler /\ Sends(h, n)
    BY <1>8, <1>12 DEF Sends
  <2>2. ks \in Seq(Handler) /\ Len(ks) = 1 /\ ks[1] = n
    BY <1>6, <1>12, <2>1
  <2>3. Len(queue') = Len(queue) /\ queue'[Len(queue)] = n
        /\ \A i \in 1..(Len(queue) - 1) : queue'[i] = queue[i + 1]
    <3>1. /\ Len(queue') = Len(queue) - 1 + Len(ks)
          /\ \A i \in 1..Len(queue') :
               queue'[i] = IF i < Len(queue) THEN queue[i + 1] ELSE ks[i - Len(queue) + 1]
      <4>1. ks \in Seq(Handler) /\ queue \in Seq(Handler)
        BY <1>9, <2>2
      <4> QED BY <1>7, <1>10, <4>1
    <3>2. PICK m \in Nat : m = Len(queue) /\ m >= 1
      BY <1>9
    <3>3. Len(queue') = m /\ m \in 1..m /\ ~(m < m) /\ m - m + 1 = 1 /\ \A i \in 1..(m - 1) : i \in 1..m /\ i < m
      BY <2>2, <3>1, <3>2
    <3> QED BY <2>2, <3>1, <3>2, <3>3
  <2> QED BY <1>1, <1>9, <1>12, <2>1, <2>3 DEF Answered
<1> QED BY <1>11, <1>12

LEMMA LearntReads ==
  ASSUME NEW h \in Handler
  PROVE  /\ h.at = "basis" => Learnt(h).basis = Get("cost")
         /\ h.at = "read" => Learnt(h).held = Get("balance")
<1>1. h.at = "basis" => Learnt(h) = [h EXCEPT !.basis = Get("cost")]
  BY SMT DEF Learnt
<1>2. h.at = "read" => Learnt(h) = [h EXCEPT !.held = Get("balance")]
  BY SMT DEF Learnt
<1> QED BY <1>1, <1>2 DEF Handler

(* What the head of the queue sends next, and what it knows then.          *)
LEMMA SendsTable ==
  ASSUME BookFields, NEW h \in Handler, NEW k, Sends(h, k)
  PROVE  /\ h.at = "balance" => k.at = IF h.kind = "buy" THEN "bought" ELSE "sold"
         /\ h.at = "bought" => k.at = "cost"
         /\ h.at = "cost" => k.at = "count"
         /\ h.at = "sold" => k.at = "countSale"
         /\ h.at = "countSale" => k.at = "held"
         /\ h.at = "held" => k.at = "basis"
         /\ h.at = "basis" => /\ k.at = IF h.held > 0 THEN "realized" ELSE "transactions"
                              /\ k.basis = Get("cost") /\ k.held = h.held
         /\ h.at = "realized" => k.at = "takeCost" /\ k.held = h.held /\ k.basis = h.basis
         /\ h.at \in {"takeCost", "count"} => k.at = "transactions"
         /\ h.at = "transactions" => k.at = "first"
         /\ h.at = "first" => k.at \in {"last", "setFirst"}
         /\ h.at = "setFirst" => k.at = "last"
         /\ h.at = "last" => k.at = "keep"
         /\ h.at = "set" => k.at = "keep"
         /\ h.at = "keep" => k.at = IF h.kind = "report" THEN "rank" ELSE "read"
         /\ h.at = "read" => k.at = "rank" /\ k.held = Get("balance")
         /\ h.at = "rank" => k.at = "keepRanking"
         /\ h.at = "unrank" => k.at = "delete"
         /\ h.at = "top" => k.at = "all"
         /\ h.at = "all" => k.at = "unrealized"
<1>1. PICK l : l = Learnt(h)
  OBVIOUS
<1>2. /\ l.kind = h.kind /\ l.at = h.at
      /\ h.at \notin {"held", "read", "all"} => l.held = h.held
      /\ h.at \notin {"basis", "all"} => l.basis = h.basis
      /\ h.at = "basis" => l.basis = Get("cost")
      /\ h.at = "read" => l.held = Get("balance")
  BY <1>1, LearntFacts, LearntReads
<1>3. k.at = Follows(l) /\ k.held = l.held /\ k.basis = l.basis
  BY <1>1 DEF Sends
<1> QED BY <1>2, <1>3, FollowsTable

(* Handlers that begin.                                                    *)
LEMMA BeginJoins ==
  ASSUME BookInv, NEW kind \in BookKinds, NEW raw \in Nat, NEW usd \in Nat, NEW data \in Reports \cup {<<>>},
         kind = "report" => data \in Reports, Begin(kind, raw, usd, data)
  PROVE  \E k : /\ Joined(k) /\ k.kind = kind /\ k.raw = raw /\ k.usd = usd
                /\ crossed' = (crossed \/ (kind = "sell" /\ "sell" \in InQueue))
                /\ muddled' = (muddled \/ \E other \in InQueue : Clashes(kind, other) \/ Clashes(other, kind))
                /\ UNCHANGED <<book, lasting, score, uncosted>>
<1> DEFINE h == [kind |-> kind, at |-> FirstCommand[kind], raw |-> raw, usd |-> usd,
                 data |-> data, held |-> 0, basis |-> 0]
<1>1. h \in Handler /\ Routed(h) /\ h.kind = kind /\ h.at = FirstCommand[h.kind] /\ h.raw = raw /\ h.usd = usd
  <2>1. FirstCommand[kind] \in Commands
    BY FirstCommands DEF BookKinds, Commands
  <2>2. h \in Handler
    BY <2>1 DEF Handler
  <2>3. h.kind = kind /\ h.at = FirstCommand[kind] /\ h.data = data /\ h.raw = raw /\ h.usd = usd
    OBVIOUS
  <2> HIDE DEF h
  <2>4. OnRoute(h) /\ h.at \notin {"realized", "takeCost"}
    BY <2>3, FirstCommands DEF OnRoute, BookKinds, Buying, Selling
  <2> QED BY <2>2, <2>3, <2>4 DEF Routed
<1>2. /\ queue' = Append(queue, h)
      /\ crossed' = (crossed \/ (kind = "sell" /\ "sell" \in InQueue))
      /\ muddled' = (muddled \/ \E other \in InQueue : Clashes(kind, other) \/ Clashes(other, kind))
      /\ UNCHANGED <<book, lasting, score, uncosted>>
  BY Zenon DEF Begin
<1> HIDE DEF h
<1>3. queue \in Seq(Handler)
  BY DEF BookInv
<1>4. Len(queue') = Len(queue) + 1 /\ queue'[Len(queue) + 1] = h
      /\ \A i \in 1..Len(queue) : queue'[i] = queue[i]
  BY <1>1, <1>2, <1>3
<1>5. Joined(h)
  BY <1>1, <1>4 DEF Joined
<1> QED BY <1>1, <1>2, <1>5, Zenon

(***************************************************************************)
(* What a command does to the fields                                       *)
(***************************************************************************)
LEMMA FieldSet ==
  ASSUME NEW f, NEW n, SetField(f, n)
  PROVE  DOMAIN book' = DOMAIN book \cup {f} /\ \A g : Get(g)' = IF g = f THEN n ELSE Get(g)
  BY DEF SetField, SetFields, Get

(* Adding to the balance is adding to it alone, and so on.                 *)
LEMMA FieldsAfter ==
  ASSUME BookFields, NEW h \in Handler, Routed(h), Effect(h), h.at \notin {"set", "delete"}
  PROVE  /\ DOMAIN book \subseteq DOMAIN book' /\ (h.at = "balance" => "balance" \in DOMAIN book')
         /\ h.at # "balance" => Get("balance")' = Get("balance")
         /\ Get("bought")' = IF h.at = "bought" THEN Get("bought") + h.usd ELSE Get("bought")
         /\ Get("sold")' = IF h.at = "sold" THEN Get("sold") + h.usd ELSE Get("sold")
         /\ Get("realized")' = IF h.at = "realized" THEN Get("realized") + (h.usd - CostOfSold(h)) ELSE Get("realized")
         /\ Get("cost")' = IF h.at = "cost" THEN Get("cost") + h.usd
                           ELSE IF h.at = "takeCost" THEN Get("cost") + -CostOfSold(h) ELSE Get("cost")
         /\ h.at \notin Writing => book' = book
<1>1. CASE h.at = "balance"
  <2>1. Incr("balance", IF h.kind = "buy" THEN h.raw ELSE -h.raw)
    BY <1>1, EffectTable
  <2>2. PICK n : SetField("balance", n)
    BY <2>1, Zenon DEF Incr
  <2> QED BY <1>1, <2>2, FieldSet DEF Writing
<1>2. CASE h.at = "bought"
  <2>1. SetField("bought", Get("bought") + h.usd)
    BY <1>2, EffectTable DEF Incr
  <2>2. PICK n : n = Get("bought") + h.usd
    OBVIOUS
  <2>3. SetField("bought", n)
    BY <2>1, <2>2, Zenon
  <2> QED BY <1>2, <2>2, <2>3, FieldSet DEF Writing
<1>3. CASE h.at = "cost"
  <2>1. SetField("cost", Get("cost") + h.usd)
    BY <1>3, EffectTable DEF Incr
  <2>2. PICK n : n = Get("cost") + h.usd
    OBVIOUS
  <2>3. SetField("cost", n)
    BY <2>1, <2>2, Zenon
  <2> QED BY <1>3, <2>2, <2>3, FieldSet DEF Writing
<1>4. CASE h.at = "sold"
  <2>1. SetField("sold", Get("sold") + h.usd)
    BY <1>4, EffectTable DEF Incr
  <2>2. PICK n : n = Get("sold") + h.usd
    OBVIOUS
  <2>3. SetField("sold", n)
    BY <2>1, <2>2, Zenon
  <2> QED BY <1>4, <2>2, <2>3, FieldSet DEF Writing
<1>5. CASE h.at = "realized"
  <2>1. SetField("realized", Get("realized") + (h.usd - CostOfSold(h)))
    BY <1>5, EffectTable DEF Incr
  <2>2. PICK n : n = Get("realized") + (h.usd - CostOfSold(h))
    OBVIOUS
  <2>3. SetField("realized", n)
    BY <2>1, <2>2, Zenon
  <2> QED BY <1>5, <2>2, <2>3, FieldSet DEF Writing
<1>6. CASE h.at = "takeCost"
  <2>1. SetField("cost", Get("cost") + -CostOfSold(h))
    BY <1>6, EffectTable DEF Incr
  <2>2. PICK n : n = Get("cost") + -CostOfSold(h)
    OBVIOUS
  <2>3. SetField("cost", n)
    BY <2>1, <2>2, Zenon
  <2> QED BY <1>6, <2>2, <2>3, FieldSet DEF Writing
<1>7. CASE h.at \in {"setFirst", "unrealized"}
  <2>1. h.at = "setFirst" => \E n : SetField("first", n)
    BY EffectTable
  <2>2. h.at = "unrealized" => \E n : SetField("unrealized", n)
    BY EffectTable
  <2>3. CASE h.at = "setFirst"
    <3>1. PICK n : SetField("first", n)
      BY <2>1, <2>3
    <3> QED BY <2>3, <3>1, FieldSet DEF Writing
  <2>4. CASE h.at = "unrealized"
    <3>1. PICK n : SetField("unrealized", n)
      BY <2>2, <2>4
    <3> QED BY <2>4, <3>1, FieldSet DEF Writing
  <2> QED BY <1>7, <2>3, <2>4
<1>8. CASE h.at \notin Writing
  <2>1. book' = book
    BY <1>8, EffectTable
  <2> QED BY <1>8, <2>1 DEF Get, Writing
<1> QED BY <1>1, <1>2, <1>3, <1>4, <1>5, <1>6, <1>7, <1>8 DEF Writing

LEMMA WholeQuotient ==
  ASSUME NEW q \in Nat, NEW r \in Nat \ {0}, NEW x \in Nat, x = r * q
  PROVE  x \div r = q
<1>1. PICK d \in Nat : d = x \div r /\ r * d <= x /\ x < r * d + r
  OBVIOUS
<1>2. ASSUME d < q PROVE FALSE
  <2>1. r * (d + 1) <= r * q /\ r * (d + 1) = r * d + r
    BY <1>2
  <2> QED BY <1>1, <2>1
<1>3. ASSUME q < d PROVE FALSE
  <2>1. r * (q + 1) <= r * d /\ r * (q + 1) = r * q + r
    BY <1>3
  <2> QED BY <1>1, <2>1
<1> QED BY <1>1, <1>2, <1>3

(* What a purchase has cost, divided between what is left and what is sold.*)
Exact(l, s, b, r) == s + l = r /\ (l * b) % r = 0

Divided(l, s, b, r) ==
  (l * b) \div r \in Nat /\ (s * b) \div r \in Nat /\ (l * b) \div r + (s * b) \div r = b

LEMMA CostDivides ==
  ASSUME NEW l \in Nat, NEW s \in Nat, NEW b \in Nat, NEW r \in Nat \ {0}, Exact(l, s, b, r)
  PROVE  Divided(l, s, b, r)
<1> USE DEF Exact, Divided
<1>1. l * b \in Nat /\ s * b \in Nat /\ r * b \in Nat /\ r * b = s * b + l * b
  BY DEF Nat
<1>2. PICK x \in Nat, y \in Nat : x = l * b /\ y = s * b /\ r * b = y + x /\ x % r = 0
  BY <1>1
<1>3. PICK q \in Nat : q = x \div r /\ x = r * q
  <2>1. PICK q \in Nat : q = x \div r
    OBVIOUS
  <2>2. PICK m \in 0..(r - 1) : m = x % r
    OBVIOUS
  <2>3. x = r * q + m
    BY <2>1, <2>2
  <2> QED BY <1>2, <2>1, <2>2, <2>3
<1>4. q <= b
  <2> SUFFICES ASSUME q > b PROVE FALSE
    OBVIOUS
  <2>1. r * (b + 1) <= r * q /\ r * (b + 1) = r * b + r
    OBVIOUS
  <2> QED BY <1>2, <1>3, <2>1
<1>5. PICK z \in Nat : z = b - q
  BY <1>4
<1>6. y = r * z
  <2>1. r * z = r * b - r * q
    BY <1>5
  <2> QED BY <1>2, <1>3, <2>1
<1>7. y \div r = z
  BY <1>6, WholeQuotient
<1> QED BY <1>2, <1>3, <1>5, <1>7

(* A share of the cost is no more than the cost.                           *)
LEMMA ShareOfCost ==
  ASSUME NEW h \in Handler, h.held > 0, 0 <= h.basis, h.raw <= h.held
  PROVE  CostOfSold(h) \in Nat /\ CostOfSold(h) <= h.basis
<1>1. PICK b \in Nat, w \in Nat, n \in Nat \ {0} : b = h.basis /\ w = h.raw /\ n = h.held /\ w <= n
  BY BookHandler
<1>2. PICK x \in Nat : x = b * w
  OBVIOUS
<1>3. x <= b * n
  BY <1>1, <1>2
<1>4. PICK d \in Nat : d = x \div n /\ n * d <= x
  OBVIOUS
<1>5. d <= b
  <2> SUFFICES ASSUME d > b PROVE FALSE
    OBVIOUS
  <2>1. n * (b + 1) <= n * d /\ n * (b + 1) = b * n + n
    OBVIOUS
  <2> QED BY <1>3, <1>4, <2>1
<1>6. CostOfSold(h) = d
  BY <1>1, <1>2, <1>4 DEF CostOfSold
<1> QED BY <1>1, <1>4, <1>5, <1>6

(* A complete report sets fields that agree.                               *)
LEMMA ReportAgrees ==
  ASSUME BookFields, NEW data \in Reports, Complete(data), SetFields(Reported(data))
  PROVE  /\ "balance" \in DOMAIN book' /\ Get("balance")' = data.balance
         /\ Get("cost")' >= 0
         /\ Get("realized")' - Get("sold")' + Get("bought")' - Get("cost")' = 0
<1>1. PICK l \in Nat, r \in Nat \ {0}, b \in Nat, t \in Nat :
        l = data.balance /\ r = data.boughtRaw /\ b = data.bought /\ t = data.sold /\ (l * b) % r = 0
  BY BooksAssumption DEF Complete
<1>2. PICK s \in Nat : s = SoldRaw(data) /\ s + l = r /\ (s > 0 \/ (t = 0 /\ "realized" \notin DOMAIN book))
  <2>1. SoldRaw(data) \in Nat
    BY <1>1 DEF Complete, SoldRaw
  <2> QED BY <1>1, <2>1 DEF Complete, SoldRaw
<1>3. PICK c \in Nat, e \in Nat : c = (l * b) \div r /\ e = (s * b) \div r /\ c + e = b
  <2>1. Exact(l, s, b, r)
    BY <1>1, <1>2 DEF Exact
  <2>2. Divided(l, s, b, r)
    BY <2>1, CostDivides, Zenon
  <2>3. PICK c \in Nat, e \in Nat : c = (l * b) \div r /\ e = (s * b) \div r
    BY <2>2, Zenon DEF Divided
  <2>4. c + e = b
    BY <2>2, <2>3, Zenon DEF Divided
  <2> QED BY <2>3, <2>4, Zenon
<1>4. PICK R : R = Reported(data)
  OBVIOUS
<1> DEFINE D == {"balance", "bought", "sold"} \cup {"cost"} \cup (IF s > 0 THEN {"realized"} ELSE {})
<1>5. R = [f \in D |-> CASE f = "balance" -> l [] f = "bought" -> b [] f = "sold" -> t [] f = "cost" -> c
                         [] OTHER -> t - e]
  BY <1>1, <1>2, <1>3, <1>4 DEF Reported, CostBasis, Complete
<1>6. /\ {"balance", "bought", "sold", "cost"} \subseteq DOMAIN R /\ ("realized" \in DOMAIN R <=> s > 0)
      /\ R["balance"] = l /\ R["bought"] = b /\ R["sold"] = t /\ R["cost"] = c /\ (s > 0 => R["realized"] = t - e)
  BY <1>5
<1> HIDE DEF D
<1>7. /\ DOMAIN book' = DOMAIN book \cup DOMAIN R
      /\ \A f \in DOMAIN book' : book'[f] = IF f \in DOMAIN R THEN R[f] ELSE book[f]
  BY <1>4 DEF SetFields
<1>8. Get("balance")' = l /\ Get("bought")' = b /\ Get("sold")' = t /\ Get("cost")' = c
  BY <1>6, <1>7 DEF Get
<1>9. CASE s > 0
  <2>1. Get("realized")' = t - e
    BY <1>6, <1>7, <1>9 DEF Get
  <2> QED BY <1>1, <1>3, <1>6, <1>7, <1>8, <2>1
<1>10. CASE s = 0
  <2>1. Get("realized")' = 0
    BY <1>2, <1>6, <1>7, <1>10 DEF Get
  <2>2. e = 0 /\ t = 0
    <3>1. s * b = 0 /\ 0 \div r = 0
      BY <1>10
    <3> QED BY <1>2, <1>3, <1>10, <3>1
  <2> QED BY <1>1, <1>3, <1>6, <1>7, <1>8, <2>1, <2>2
<1> QED BY <1>2, <1>9, <1>10

(***************************************************************************)
(* A handler that begins has yet to do anything.                           *)
(***************************************************************************)
LEMMA NewHandler ==
  ASSUME NEW k, k \in Handler, Routed(k), k.at = FirstCommand[k.kind]
  PROVE  ~Begun(k) /\ ~WillRank(k) /\ Unbooked(k) = 0 /\ k.at \notin {"realized", "takeCost"}
<1>1. k.kind \in BookKinds
  BY BookHandler
<1>2. k.at \in {"balance", "set", "unrank", "top"}
  BY <1>1, FirstCommands DEF BookKinds
<1>3. ~(k.kind = "report" /\ k.at = "keep")
  BY <1>2
<1> QED BY <1>2, <1>3 DEF Begun, WillRank, Unbooked

LEMMA JoinedBalances ==
  ASSUME BookInv, Balancing, NEW k, Joined(k), UNCHANGED <<book, uncosted>>
  PROVE  Balancing'
<1>1. PICK n \in Nat : n = Len(queue) /\ Len(queue') = n + 1
  BY DEF BookInv, Joined
<1>2. PICK p \in [1..(n + 1) -> Int] :
        /\ p[1] = OffBy /\ p[n + 1] = 0
        /\ \A i \in 1..n : p[i + 1] = p[i] + Unbooked(queue[i])
  BY <1>1 DEF Balancing
<1>3. OffBy' = OffBy
  BY DEF OffBy, Get
<1>4. PICK q : q = [i \in 1..(n + 2) |-> IF i = n + 2 THEN 0 ELSE p[i]]
  OBVIOUS
<1>5. q \in [1..(n + 2) -> Int] /\ q[1] = p[1] /\ q[n + 1] = p[n + 1] /\ q[n + 2] = 0
      /\ \A i \in 1..n : q[i] = p[i] /\ q[i + 1] = p[i + 1]
  BY <1>4
<1>6. Unbooked(k) = 0 /\ queue'[n + 1] = k /\ \A i \in 1..n : queue'[i] = queue[i]
  BY <1>1, NewHandler DEF Joined
<1>7. ASSUME NEW i \in 1..(n + 1) PROVE q[i + 1] = q[i] + Unbooked(queue'[i])
  <2>1. CASE i \in 1..n
    BY <1>2, <1>5, <1>6, <2>1
  <2>2. CASE i = n + 1
    BY <1>2, <1>5, <1>6, <2>2
  <2> QED BY <2>1, <2>2
<1>8. n + 1 + 1 = n + 2
  OBVIOUS
<1> HIDE DEF Unbooked
<1>9. /\ q[1] = OffBy' /\ q[n + 2] = 0
      /\ \A i \in 1..(n + 1) : q[i + 1] = q[i] + Unbooked(queue'[i])
  BY <1>2, <1>3, <1>5, <1>7
<1>10. \A i \in 1..(n + 1) : Unbooked(queue[i])' = Unbooked(queue'[i])
  BY DEF Unbooked, CostOfSold
<1> QED BY <1>1, <1>5, <1>8, <1>9, <1>10 DEF Balancing

LEMMA JoinedKeeps ==
  ASSUME BookInv, BooksRight, NEW k, Joined(k), UNCHANGED <<book, lasting, score, uncosted>>,
         crossed' = (crossed \/ (k.kind = "sell" /\ "sell" \in InQueue)),
         ~\E other \in InQueue : Clashes(k.kind, other) \/ Clashes(other, k.kind)
  PROVE  BooksRight'
<1>1. PICK n \in Nat : n = Len(queue) /\ Len(queue') = n + 1 /\ queue \in Seq(Handler)
  BY DEF BookInv, Joined
<1>2. queue'[n + 1] = k /\ \A i \in 1..n : queue'[i] = queue[i]
  BY <1>1 DEF Joined
<1>3. ~Begun(k) /\ ~WillRank(k) /\ k.at \notin {"realized", "takeCost"}
  BY NewHandler DEF Joined
<1>4. \A i \in 1..n : queue[i].kind \in InQueue
  BY <1>1 DEF InQueue
<1>5. \A i \in 1..(n + 1) : i \in 1..n \/ i = n + 1
  BY <1>1
<1>6. 1..Len(queue') = 1..(n + 1) /\ 1..Len(queue) = 1..n /\ 1..n \subseteq 1..(n + 1)
  BY <1>1
<1>7. \A f : Get(f)' = Get(f)
  BY DEF Get
<1>8. NoClash'
  <2>1. \A i, j \in 1..(n + 1) : i # j => ~Clashes(queue'[i].kind, queue'[j].kind)
    BY <1>2, <1>4, <1>5, <1>6, Zenon DEF BooksRight, NoClash
  <2>2. \A i, j : Clashes(queue[i].kind, queue[j].kind)' <=> Clashes(queue'[i].kind, queue'[j].kind)
    BY Zenon DEF Clashes, Adds
  <2> QED BY <1>6, <2>1, <2>2, Zenon DEF NoClash
<1>9. HasBalance'
  BY <1>2, <1>3, <1>5, <1>6, Zenon DEF BooksRight, HasBalance, Begun
<1>10. LastsAwhile'
  BY <1>2, <1>6, Zenon DEF BooksRight, LastsAwhile, WillKeep, Swapping
<1>11. ScoreRight'
  <2>1. CASE "balance" \notin DOMAIN book
    BY <2>1 DEF ScoreRight
  <2>2. ASSUME NEW i \in 1..n, WillRead(queue[i]) \/ queue[i].at = "delete" PROVE ScoreRight'
    BY <1>2, <1>6, <2>2, Zenon DEF ScoreRight, WillRead, Swapping
  <2>3. ASSUME NEW i \in 1..n, WillRank(queue[i]), Shares(queue[i]) = Get("balance"),
               \A j \in 1..n : j > i => ~WillRank(queue[j])
        PROVE  ScoreRight'
    <3>1. \A j \in 1..(n + 1) : j > i => ~WillRank(queue'[j])
      BY <1>2, <1>3, <1>5, <2>3, Zenon
    <3> QED BY <1>2, <1>6, <1>7, <2>3, <3>1, Zenon DEF ScoreRight, WillRank, Shares
  <2>4. CASE (\A i \in 1..n : ~WillRank(queue[i])) /\ score = Ranking(Get("balance"))
    BY <1>2, <1>3, <1>5, <1>6, <1>7, <2>4, Zenon DEF ScoreRight, WillRank, Ranking
  <2> QED BY <1>6, <2>1, <2>2, <2>3, <2>4, Zenon DEF BooksRight, ScoreRight
<1>12. ReportStored'
  BY <1>2, <1>3, <1>5, <1>6, <1>7, Zenon DEF BooksRight, ReportStored, WillRank
<1>13. Balancing'
  BY JoinedBalances DEF BooksRight
<1>14. CostFits'
  <2> SUFFICES ASSUME ~crossed' PROVE CostFits'
    BY DEF CostFits
  <2>1. ~crossed /\ (k.kind = "sell" => \A i \in 1..n : queue[i].kind # "sell")
    BY <1>4, Zenon
  <2>2. \A i, j \in 1..(n + 1) : i # j => ~(queue'[i].kind = "sell" /\ queue'[j].kind = "sell")
    BY <1>2, <1>5, <1>6, <2>1, Zenon DEF BooksRight, CostFits
  <2>3. \A i \in 1..(n + 1) : queue'[i].at \in {"realized", "takeCost"} =>
          0 <= queue'[i].basis /\ queue'[i].basis <= Get("cost") /\ queue'[i].raw <= queue'[i].held
    BY <1>2, <1>3, <1>5, <1>6, <2>1, Zenon DEF BooksRight, CostFits
  <2> QED BY <1>6, <1>7, <2>1, <2>2, <2>3, Zenon DEF BooksRight, CostFits
<1> QED BY <1>8, <1>9, <1>10, <1>11, <1>12, <1>13, <1>14 DEF BooksRight

LEMMA BeginKeepsRight ==
  ASSUME BookInv, BooksRight, NEW kind \in BookKinds, NEW raw \in Nat, NEW usd \in Nat,
         NEW data \in Reports \cup {<<>>}, kind = "report" => data \in Reports, Begin(kind, raw, usd, data),
         ~muddled'
  PROVE  BooksRight'
<1>1. PICK k : /\ Joined(k) /\ k.kind = kind
               /\ crossed' = (crossed \/ (kind = "sell" /\ "sell" \in InQueue))
               /\ muddled' = (muddled \/ \E other \in InQueue : Clashes(kind, other) \/ Clashes(other, kind))
               /\ UNCHANGED <<book, lasting, score, uncosted>>
  BY BeginJoins
<1>2. ~\E other \in InQueue : Clashes(k.kind, other) \/ Clashes(other, k.kind)
  BY <1>1, Zenon
<1>3. crossed' = (crossed \/ (k.kind = "sell" /\ "sell" \in InQueue))
  BY <1>1, Zenon
<1> QED BY <1>1, <1>2, <1>3, JoinedKeeps

(***************************************************************************)
(* The head of the queue is answered.                                      *)
(***************************************************************************)
LEMMA WhereFrom ==
  ASSUME BookInv, NEW h, Answered(h), NEW i \in 1..Len(queue')
  PROVE  \/ i \in 1..(Len(queue) - 1) /\ i + 1 \in 1..Len(queue) /\ queue'[i] = queue[i + 1]
         \/ i = Len(queue) /\ ~Ends(h) /\ Sends(h, queue'[i])
<1>1. PICK n \in Nat : n = Len(queue) /\ n >= 1 /\ Len(queue') = IF Ends(h) THEN n - 1 ELSE n
  BY DEF BookInv, Answered
<1>2. CASE i \in 1..(n - 1)
  <2>1. i + 1 \in 1..n
    BY <1>1, <1>2
  <2> QED BY <1>1, <1>2, <2>1 DEF Answered
<1>3. CASE i \notin 1..(n - 1)
  <2>1. i = n /\ ~Ends(h)
    BY <1>1, <1>3
  <2> QED BY <1>1, <2>1 DEF Answered
<1> QED BY <1>2, <1>3

(* Everyone behind the head is still there.                                *)
LEMMA Behind ==
  ASSUME BookInv, NEW h, Answered(h), NEW i \in 1..Len(queue), i # 1
  PROVE  i - 1 \in 1..(Len(queue) - 1) /\ i - 1 \in 1..Len(queue') /\ queue'[i - 1] = queue[i]
<1>1. PICK n \in Nat : n = Len(queue) /\ n >= 1 /\ Len(queue') = IF Ends(h) THEN n - 1 ELSE n
  BY DEF BookInv, Answered
<1>2. i - 1 \in 1..(n - 1) /\ (i - 1) + 1 = i
  BY <1>1
<1>3. i - 1 \in 1..Len(queue')
  BY <1>1, <1>2
<1> QED BY <1>1, <1>2, <1>3 DEF Answered

LEMMA AnsweredClash ==
  ASSUME BookInv, NoClash, NEW h, Answered(h)
  PROVE  NoClash'
<1>1. PICK n \in Nat : n = Len(queue) /\ n >= 1 /\ h = queue[1] /\ 1 \in 1..n
  BY DEF BookInv, Answered
<1>2. ASSUME NEW i \in 1..Len(queue')
      PROVE  \E s \in 1..n : queue'[i].kind = queue[s].kind /\ (s = i + 1 \/ (s = 1 /\ i = n))
  BY <1>1, WhereFrom DEF Sends
<1>3. ASSUME NEW i \in 1..Len(queue'), NEW j \in 1..Len(queue'), i # j
      PROVE  ~Clashes(queue'[i].kind, queue'[j].kind)
  <2>1. PICK s \in 1..n : queue'[i].kind = queue[s].kind /\ (s = i + 1 \/ (s = 1 /\ i = n))
    BY <1>2
  <2>2. PICK t \in 1..n : queue'[j].kind = queue[t].kind /\ (t = j + 1 \/ (t = 1 /\ j = n))
    BY <1>2
  <2>3. s # t
    <3>1. i >= 1 /\ j >= 1 /\ i \in Int /\ j \in Int
      BY <1>1, WhereFrom
    <3> QED BY <1>1, <1>3, <2>1, <2>2, <3>1
  <2> QED BY <1>1, <2>1, <2>2, <2>3 DEF NoClash
<1>4. \A i, j : Clashes(queue[i].kind, queue[j].kind)' <=> Clashes(queue'[i].kind, queue'[j].kind)
  BY Zenon DEF Clashes, Adds
<1> QED BY <1>3, <1>4, Zenon DEF NoClash

(* A command that is not the report's or the removal's write.              *)
Plain(h) ==
  /\ Answered(h) /\ h \in Handler /\ Routed(h) /\ Effect(h) /\ h.at \notin {"set", "delete"}

LEMMA PlainBalance ==
  ASSUME BookInv, HasBalance, NEW h, Plain(h)
  PROVE  HasBalance' /\ (Begun(h) => "balance" \in DOMAIN book)
<1>1. /\ BookFields /\ h \in Handler /\ Routed(h) /\ Effect(h) /\ Answered(h) /\ h.at \notin {"set", "delete"}
      /\ h.kind \in BookKinds
  BY BookHandler DEF BookInv, Plain
<1>2. h = queue[1] /\ 1 \in 1..Len(queue)
  BY <1>1 DEF BookInv, Answered
<1>3. Begun(h) => "balance" \in DOMAIN book
  BY <1>2 DEF HasBalance
<1>4. /\ DOMAIN book \subseteq DOMAIN book' /\ (h.at = "balance" => "balance" \in DOMAIN book')
      /\ h.at \notin Writing => book' = book
  BY <1>1, FieldsAfter
<1>5. book' = <<>> \/ "balance" \in DOMAIN book'
  <2>1. CASE Begun(h) \/ h.at = "balance"
    BY <1>3, <1>4, <2>1
  <2>2. CASE ~Begun(h) /\ h.at # "balance"
    BY <1>1, <1>4, <2>2 DEF Begun, Writing, HasBalance
  <2> QED BY <2>1, <2>2
<1>6. ASSUME NEW i \in 1..Len(queue'), Begun(queue'[i]) PROVE "balance" \in DOMAIN book'
  <2>1. CASE i \in 1..(Len(queue) - 1) /\ i + 1 \in 1..Len(queue) /\ queue'[i] = queue[i + 1]
    BY <1>4, <1>6, <2>1 DEF HasBalance
  <2>2. CASE ~Ends(h) /\ Sends(h, queue'[i])
    <3>1. CASE Begun(h) \/ h.at = "balance"
      BY <1>3, <1>4, <3>1
    <3>2. CASE h.at = "all"
      BY <1>4, <2>2, <3>2 DEF Ends
    <3>3. CASE h.at \in {"unrank", "top"}
      BY <1>1, <1>6, <2>2, <3>3, SendsTable DEF Begun
    <3> QED BY <1>1, <3>1, <3>2, <3>3 DEF Begun
  <2> QED BY <1>1, <2>1, <2>2, WhereFrom
<1>7. \A i : Begun(queue[i])' <=> Begun(queue'[i])
  BY DEF Begun
<1> QED BY <1>3, <1>5, <1>6, <1>7, Zenon DEF HasBalance

LEMMA PlainLasts ==
  ASSUME BookInv, HasBalance, LastsAwhile, NEW h, Plain(h),
         lasting' = (h.at \notin {"keep", "delete"} /\ (lasting \/ (book = <<>> /\ book' # <<>>)))
  PROVE  LastsAwhile'
<1> SUFFICES ASSUME lasting' PROVE \E i \in 1..Len(queue') : WillKeep(queue'[i])
  <2>1. \A i : WillKeep(queue[i])' <=> WillKeep(queue'[i])
    BY DEF WillKeep, Swapping
  <2> QED BY <2>1, Zenon DEF LastsAwhile
<1>1. /\ BookFields /\ h \in Handler /\ Routed(h) /\ Effect(h) /\ Answered(h) /\ h.at \notin {"set", "delete"}
      /\ h.kind \in BookKinds
  BY BookHandler DEF BookInv, Plain
<1>2. PICK n \in Nat : n = Len(queue) /\ n >= 1 /\ h = queue[1] /\ 1 \in 1..n /\ (~Ends(h) => Len(queue') = n)
  BY <1>1 DEF BookInv, Answered
<1>3. h.at # "keep" /\ (lasting \/ (book = <<>> /\ book' # <<>>))
  OBVIOUS
<1>4. ASSUME ~Ends(h), \A k : Sends(h, k) => WillKeep(k) PROVE \E i \in 1..Len(queue') : WillKeep(queue'[i])
  <2>1. n \in 1..Len(queue')
    BY <1>2, <1>4
  <2> QED BY <1>1, <1>2, <1>4, <2>1 DEF Answered
<1>5. CASE book = <<>> /\ book' # <<>>
  <2>1. h.at = "balance"
    <3>1. ~("balance" \in DOMAIN book)
      BY <1>5
    <3>2. ~Begun(h)
      BY <3>1, PlainBalance
    <3>3. h.at \in Writing
      BY <1>1, <1>5, FieldsAfter
    <3> QED BY <1>1, <3>2, <3>3 DEF Begun, Writing
  <2>2. Swapping(h) /\ ~Ends(h)
    BY <1>1, <2>1, LastCommands DEF Routed, OnRoute, Swapping, Ends
  <2>3. \A k : Sends(h, k) => k.kind = h.kind /\ k.at \in {"bought", "sold"}
    BY <1>1, <2>1, SendsTable DEF Sends
  <2>4. \A k : Sends(h, k) => WillKeep(k)
    BY <2>2, <2>3 DEF WillKeep, Swapping
  <2> QED BY <1>4, <2>2, <2>4
<1>6. CASE lasting
  <2>1. PICK i \in 1..n : WillKeep(queue[i])
    BY <1>2, <1>6 DEF LastsAwhile
  <2>2. CASE i # 1
    <3>1. i - 1 \in 1..Len(queue') /\ queue'[i - 1] = queue[i]
      BY <1>1, <1>2, <2>2, Behind
    <3> QED BY <2>1, <3>1
  <2>3. CASE i = 1
    <3>1. WillKeep(h)
      BY <1>2, <2>1, <2>3
    <3>2. Swapping(h) /\ h.at \notin {"balance", "read", "rank", "keepRanking", "keep"}
      BY <1>3, <3>1 DEF WillKeep
    <3>3. ~Ends(h)
      BY <1>1, <3>2, LastCommands DEF Routed, OnRoute, Swapping, Ends, Buying, Selling, Swapped
    <3>4. h.at \in {"bought", "cost", "count", "sold", "countSale", "held", "basis", "realized", "takeCost",
                    "transactions", "first", "setFirst", "last"}
      BY <1>1, <3>2 DEF Routed, OnRoute, Swapping, Buying, Selling, Swapped
    <3>5. ASSUME NEW k, Sends(h, k) PROVE k.kind = h.kind /\ k.at \notin {"balance", "read", "rank", "keepRanking"}
      <4>1. CASE h.at \in {"bought", "cost", "count", "sold", "countSale", "held"}
        BY <1>1, <3>5, <4>1, SendsTable DEF Sends
      <4>2. CASE h.at \in {"basis", "realized", "takeCost"}
        BY <1>1, <3>5, <4>2, SendsTable DEF Sends
      <4>3. CASE h.at \in {"transactions", "first", "setFirst", "last"}
        BY <1>1, <3>5, <4>3, SendsTable DEF Sends
      <4> QED BY <3>4, <4>1, <4>2, <4>3
    <3>6. \A k : Sends(h, k) => WillKeep(k)
      BY <3>2, <3>5 DEF WillKeep, Swapping
    <3> QED BY <1>4, <3>3, <3>6
  <2> QED BY <2>2, <2>3
<1> QED BY <1>3, <1>5, <1>6

LEMMA PlainNext ==
  ASSUME BookInv, NEW h, Plain(h), NEW k, ~Ends(h), Sends(h, k)
  PROVE  /\ k.at = "keep" => h.at = "last" /\ Swapping(h)
         /\ k.at = "rank" => h.at = "read" \/ (h.at = "keep" /\ h.kind = "report")
         /\ k.at = "keepRanking" => h.at = "rank"
         /\ k.at = "delete" <=> h.at = "unrank"
<1>1. BookFields /\ h \in Handler /\ Routed(h) /\ h.at \notin {"set", "delete"} /\ h.kind \in BookKinds
  BY BookHandler DEF BookInv, Plain
<1>2. h.at \in {"bought", "cost", "count", "balance", "sold", "countSale", "held", "basis", "realized",
                "takeCost", "transactions", "first", "setFirst", "last", "keep", "read", "rank", "unrank",
                "top", "all"}
  BY <1>1, LastCommands DEF Routed, OnRoute, Ends, Buying, Selling, Swapped, BookKinds
<1>3. CASE h.at \in {"bought", "cost", "count", "balance", "sold", "countSale", "held"}
  BY <1>1, <1>3, SendsTable
<1>4. CASE h.at \in {"basis", "realized", "takeCost", "transactions", "first", "setFirst"}
  BY <1>1, <1>4, SendsTable
<1>5. CASE h.at = "last"
  <2>1. Swapping(h)
    BY <1>1, <1>5 DEF Routed, OnRoute, Swapping
  <2> QED BY <1>1, <1>5, <2>1, SendsTable
<1>6. CASE h.at \in {"keep", "read", "rank", "unrank", "top", "all"}
  BY <1>1, <1>6, SendsTable
<1> QED BY <1>2, <1>3, <1>4, <1>5, <1>6

LEMMA RankReads ==
  \A i : /\ WillRead(queue[i])' <=> WillRead(queue'[i])
         /\ WillRank(queue[i])' <=> WillRank(queue'[i])
         /\ Shares(queue[i])' = Shares(queue'[i])
  BY DEF WillRead, WillRank, Shares, Swapping

(* The ways to have the score right, afterwards.                           *)
LEMMA ScoreWillBe ==
  ASSUME \/ "balance" \notin DOMAIN book'
         \/ \E i \in 1..Len(queue') : WillRead(queue'[i]) \/ queue'[i].at = "delete"
         \/ \E i \in 1..Len(queue') : /\ WillRank(queue'[i]) /\ Shares(queue'[i]) = Get("balance")'
                                      /\ \A j \in 1..Len(queue') : j > i => ~WillRank(queue'[j])
         \/ (\A i \in 1..Len(queue') : ~WillRank(queue'[i])) /\ score' = Ranking(Get("balance")')
  PROVE  ScoreRight'
<1>1. Ranking(Get("balance"))' = Ranking(Get("balance")')
  BY Zenon DEF Ranking
<1> QED BY <1>1, RankReads, Zenon DEF ScoreRight

LEMMA PlainScore ==
  ASSUME BookInv, HasBalance, ScoreRight, ReportStored, NEW h, Plain(h), score' = Ranked(h)
  PROVE  ScoreRight'
<1>1. /\ BookFields /\ h \in Handler /\ Routed(h) /\ Effect(h) /\ Answered(h) /\ h.at \notin {"set", "delete"}
      /\ h.kind \in BookKinds
  BY BookHandler DEF BookInv, Plain
<1>2. PICK n \in Nat : n = Len(queue) /\ n >= 1 /\ h = queue[1] /\ 1 \in 1..n
        /\ (~Ends(h) => Len(queue') = n /\ n \in 1..Len(queue') /\ Sends(h, queue'[n]))
  BY <1>1 DEF BookInv, Answered
<1>3. \A j \in 1..Len(queue') : j \in Int /\ j <= n
  BY <1>1, <1>2 DEF Answered
<1>4. CASE h.at = "balance"
  <2>1. Swapping(h) /\ ~Ends(h)
    BY <1>1, <1>4, LastCommands DEF Routed, OnRoute, Swapping, Ends
  <2>2. queue'[n].kind = h.kind /\ queue'[n].at \in {"bought", "sold"}
    BY <1>1, <1>2, <1>4, <2>1, SendsTable DEF Sends
  <2>3. WillRead(queue'[n])
    BY <2>1, <2>2 DEF WillRead, Swapping
  <2> QED BY <1>2, <2>1, <2>3, ScoreWillBe, Zenon
<1>5. ASSUME h.at # "balance" PROVE Get("balance")' = Get("balance")
  BY <1>1, <1>5, FieldsAfter
<1>6. CASE h.at = "read" \/ (h.at = "keep" /\ h.kind = "report")
  <2>1. ~Ends(h)
    BY <1>1, <1>6, LastCommands DEF BookKinds, Ends
  <2>2. queue'[n].kind = h.kind /\ queue'[n].data = h.data /\ queue'[n].at = "rank"
    BY <1>1, <1>2, <1>6, <2>1, SendsTable DEF Sends
  <2>3. Shares(queue'[n]) = Get("balance")
    <3>1. CASE h.at = "read"
      <4>1. h.kind # "report"
        BY <1>1, <3>1 DEF Routed, OnRoute
      <4>2. queue'[n].held = Get("balance")
        BY <1>1, <1>2, <2>1, <3>1, SendsTable
      <4> QED BY <2>2, <4>1, <4>2 DEF Shares
    <3>2. CASE h.at = "keep" /\ h.kind = "report"
      <4>1. WillRank(h)
        BY <3>2 DEF WillRank
      <4>2. h.data.balance = Get("balance")
        BY <1>2, <3>2, <4>1 DEF ReportStored
      <4> QED BY <2>2, <3>2, <4>2 DEF Shares
    <3> QED BY <1>6, <3>1, <3>2
  <2>4. Shares(queue'[n]) = Get("balance")'
    BY <1>5, <1>6, <2>3
  <2>5. WillRank(queue'[n]) /\ n \in 1..Len(queue')
    BY <1>2, <2>1, <2>2 DEF WillRank
  <2>6. \A j \in 1..Len(queue') : ~(j > n)
    BY <1>3
  <2> QED BY <2>4, <2>5, <2>6, ScoreWillBe, Zenon
<1>7. CASE h.at = "unrank"
  <2>1. ~Ends(h)
    BY <1>1, <1>7, LastCommands DEF BookKinds, Ends, Routed, OnRoute
  <2>2. queue'[n].at = "delete" /\ n \in 1..Len(queue')
    BY <1>1, <1>2, <1>7, <2>1, SendsTable
  <2> QED BY <2>2, ScoreWillBe, Zenon
<1>8. CASE /\ h.at \notin {"balance", "read", "unrank"} /\ ~(h.at = "keep" /\ h.kind = "report")
  <2>1. Get("balance")' = Get("balance")
    BY <1>5, <1>8
  <2>2. /\ h.at # "rank" => score' = score /\ ~WillRank(h)
        /\ h.at = "rank" => score' = Ranking(Shares(h)) /\ "balance" \in DOMAIN book /\ WillRank(h)
    <3>1. h.at # "rank" => score' = score /\ ~WillRank(h)
      BY <1>8 DEF Ranked, WillRank
    <3>2. h.at = "rank" => score' = Ranking(Shares(h)) /\ WillRank(h)
      BY <1>8 DEF Ranked, WillRank, Ranking, Shares
    <3>3. h.at = "rank" => "balance" \in DOMAIN book
      BY <1>2 DEF HasBalance, Begun
    <3> QED BY <3>1, <3>2, <3>3
  <2>3. ASSUME ~Ends(h) PROVE ~WillRank(queue'[n])
    <3>1. queue'[n].at \notin {"rank", "keep"} \/ (queue'[n].at = "keep" /\ h.kind # "report")
      BY <1>2, <1>8, <2>3, PlainNext DEF Swapping
    <3>2. queue'[n].kind = h.kind
      BY <1>2, <2>3 DEF Sends
    <3> QED BY <3>1, <3>2 DEF WillRank
  <2>4. \A j \in 1..Len(queue') : (j \in 1..(n - 1) /\ j + 1 \in 1..n /\ queue'[j] = queue[j + 1]) \/ ~WillRank(queue'[j])
    BY <1>1, <1>2, <2>3, WhereFrom
  <2>5. CASE "balance" \notin DOMAIN book
    <3>1. ~Begun(h)
      BY <2>5, PlainBalance
    <3>2. h.at \notin Writing
      BY <1>1, <1>8, <3>1 DEF Begun, Writing
    <3>3. book' = book
      BY <1>1, <3>2, FieldsAfter
    <3> QED BY <2>5, <3>3, ScoreWillBe, Zenon
  <2>6. ASSUME NEW i \in 1..n, WillRead(queue[i]) \/ queue[i].at = "delete" PROVE ScoreRight'
    <3>1. CASE i # 1
      <4>1. i - 1 \in 1..Len(queue') /\ queue'[i - 1] = queue[i]
        BY <1>1, <1>2, <3>1, Behind
      <4> QED BY <2>6, <4>1, ScoreWillBe, Zenon
    <3>2. CASE i = 1
      <4>1. Swapping(h) /\ h.at \notin {"rank", "keepRanking"}
        BY <1>1, <1>2, <2>6, <3>2 DEF WillRead
      <4>2. ~Ends(h)
        BY <1>1, <4>1, LastCommands DEF Routed, OnRoute, Swapping, Ends, Buying, Selling, Swapped
      <4>3. queue'[n].kind = h.kind /\ queue'[n].at \notin {"rank", "keepRanking"}
        BY <1>2, <1>8, <4>1, <4>2, PlainNext DEF Sends
      <4>4. WillRead(queue'[n])
        BY <4>1, <4>3 DEF WillRead, Swapping
      <4> QED BY <1>2, <4>2, <4>4, ScoreWillBe, Zenon
    <3> QED BY <3>1, <3>2
  <2>7. ASSUME NEW i \in 1..n, WillRank(queue[i]), Shares(queue[i]) = Get("balance"),
               \A j \in 1..n : j > i => ~WillRank(queue[j])
        PROVE  ScoreRight'
    <3>1. CASE i # 1
      <4>1. i - 1 \in 1..Len(queue') /\ queue'[i - 1] = queue[i]
        BY <1>1, <1>2, <3>1, Behind
      <4>2. ASSUME NEW j \in 1..Len(queue'), j > i - 1 PROVE ~WillRank(queue'[j])
        <5>1. j + 1 > i
          BY <1>3, <4>2
        <5> QED BY <2>4, <2>7, <5>1
      <4> QED BY <2>1, <2>7, <4>1, <4>2, ScoreWillBe, Zenon
    <3>2. CASE i = 1
      <4>1. h.at = "rank" /\ Shares(h) = Get("balance")
        BY <1>2, <2>2, <2>7, <3>2
      <4>2. score' = Ranking(Get("balance")')
        BY <2>1, <2>2, <4>1
      <4>3. ASSUME NEW j \in 1..Len(queue') PROVE ~WillRank(queue'[j])
        <5>1. j \in 1..(n - 1) => j + 1 > 1
          BY <1>2
        <5> QED BY <2>4, <2>7, <3>2, <5>1
      <4> QED BY <4>2, <4>3, ScoreWillBe, Zenon
    <3> QED BY <3>1, <3>2
  <2>8. CASE (\A i \in 1..n : ~WillRank(queue[i])) /\ score = Ranking(Get("balance"))
    <3>1. \A j \in 1..Len(queue') : ~WillRank(queue'[j])
      BY <2>4, <2>8
    <3>2. score' = Ranking(Get("balance")')
      BY <1>2, <2>1, <2>2, <2>8
    <3> QED BY <3>1, <3>2, ScoreWillBe, Zenon
  <2> QED BY <1>2, <2>5, <2>6, <2>7, <2>8, Zenon DEF ScoreRight
<1> QED BY <1>4, <1>6, <1>7, <1>8

LEMMA PlainReport ==
  ASSUME BookInv, NoClash, ReportStored, NEW h, Plain(h)
  PROVE  ReportStored'
<1>1. /\ BookFields /\ h \in Handler /\ Routed(h) /\ Effect(h) /\ Answered(h) /\ h.at \notin {"set", "delete"}
  BY DEF BookInv, Plain
<1>2. PICK n \in Nat : n = Len(queue) /\ n >= 1 /\ h = queue[1] /\ 1 \in 1..n
  BY <1>1 DEF BookInv, Answered
<1>3. ASSUME NEW i \in 1..Len(queue'), queue'[i].kind = "report", WillRank(queue'[i])
      PROVE  queue'[i].data.balance = Get("balance")'
  <2>1. CASE i \in 1..(n - 1) /\ i + 1 \in 1..n /\ queue'[i] = queue[i + 1]
    <3>1. i + 1 # 1
      BY <2>1
    <3>2. ~Clashes(h.kind, "report")
      BY <1>2, <1>3, <2>1, <3>1 DEF NoClash
    <3>3. h.at # "balance"
      BY <1>1, <3>2 DEF Routed, OnRoute, Clashes, Adds
    <3>4. Get("balance")' = Get("balance")
      BY <1>1, <3>3, FieldsAfter
    <3>5. queue[i + 1].data.balance = Get("balance")
      BY <1>2, <1>3, <2>1 DEF ReportStored
    <3> QED BY <2>1, <3>4, <3>5
  <2>2. CASE ~Ends(h) /\ Sends(h, queue'[i])
    <3>1. h.kind = "report" /\ queue'[i].data = h.data
      BY <1>3, <2>2 DEF Sends
    <3>2. queue'[i].at \in {"rank", "keep"}
      BY <1>3 DEF WillRank
    <3>3. h.at = "keep"
      BY <1>1, <2>2, <3>1, <3>2, PlainNext DEF Swapping, Routed, OnRoute
    <3>4. h.data.balance = Get("balance")
      BY <1>2, <3>1, <3>3 DEF ReportStored, WillRank
    <3>5. Get("balance")' = Get("balance")
      BY <1>1, <3>3, FieldsAfter
    <3> QED BY <3>1, <3>4, <3>5
  <2> QED BY <1>1, <1>2, <2>1, <2>2, WhereFrom
<1> QED BY <1>3, RankReads, Zenon DEF ReportStored

(***************************************************************************)
(* The sums.  What a handler writes is no longer to be written.            *)
(***************************************************************************)
LEMMA UnbookedIs ==
  ASSUME NEW h
  PROVE  /\ h.at = "cost" => Unbooked(h) = -h.usd
         /\ h.at \in {"countSale", "held", "basis", "realized"} => Unbooked(h) = h.usd
         /\ h.at = "takeCost" => Unbooked(h) = CostOfSold(h)
         /\ h.at \notin {"cost", "countSale", "held", "basis", "realized", "takeCost"} => Unbooked(h) = 0
  BY DEF Unbooked

LEMMA UnbookedIsInt == ASSUME NEW h \in Handler, Routed(h) PROVE Unbooked(h) \in Int
<1>1. h.usd \in Nat
  BY BookHandler
<1>2. h.at = "takeCost" => CostOfSold(h) \in Int
  BY CostOfSoldIsInt DEF Routed
<1>3. CASE h.at = "cost"
  <2>1. Unbooked(h) = -h.usd
    BY <1>3, UnbookedIs
  <2> QED BY <1>1, <2>1
<1>4. CASE h.at \in {"countSale", "held", "basis", "realized"}
  <2>1. Unbooked(h) = h.usd
    BY <1>4, UnbookedIs
  <2> QED BY <1>1, <2>1
<1>5. CASE h.at = "takeCost"
  <2>1. Unbooked(h) = CostOfSold(h)
    BY <1>5, UnbookedIs
  <2> QED BY <1>2, <1>5, <2>1
<1>6. CASE h.at \notin {"cost", "countSale", "held", "basis", "realized", "takeCost"}
  <2>1. Unbooked(h) = 0
    BY <1>6, UnbookedIs
  <2> QED BY <2>1
<1> QED BY <1>3, <1>4, <1>5, <1>6

SumsUp(p, n, first, u) ==
  /\ p \in [1..(n + 1) -> Int] /\ p[1] = first /\ p[n + 1] = 0
  /\ \A i \in 1..n : p[i + 1] = p[i] + u[i]

(* The first of the sums is left out, and one may take its place at the    *)
(* other end.                                                              *)
LEMMA FirstLeaves ==
  ASSUME NEW n \in Nat \ {0}, NEW l \in Nat, l = n - 1, NEW u \in [1..n -> Int], NEW v \in [1..l -> Int],
         \A i \in 1..l : v[i] = u[i + 1], NEW a \in Int, NEW p, SumsUp(p, n, a, u)
  PROVE  \E q : SumsUp(q, l, a + u[1], v)
<1>1. /\ p \in [1..(n + 1) -> Int] /\ p[1] = a /\ p[n + 1] = 0
      /\ \A i \in 1..n : p[i + 1] = p[i] + u[i]
  BY DEF SumsUp
<1>2. PICK q : q = [i \in 1..(l + 1) |-> p[i + 1]]
  OBVIOUS
<1>3. 1..(l + 1) = 1..n /\ \A i \in 1..n : i + 1 \in 1..(n + 1)
  OBVIOUS
<1>4. q \in [1..(l + 1) -> Int] /\ \A i \in 1..n : q[i] = p[i + 1]
  BY <1>1, <1>2, <1>3
<1>5. q[1] = a + u[1] /\ q[l + 1] = 0
  BY <1>1, <1>4
<1>6. ASSUME NEW i \in 1..l PROVE q[i + 1] = q[i] + v[i]
  <2>1. i \in 1..n /\ i + 1 \in 1..n /\ v[i] = u[i + 1]
    OBVIOUS
  <2> QED BY <1>1, <1>4, <2>1
<1> QED BY <1>4, <1>5, <1>6 DEF SumsUp

LEMMA FirstGoesLast ==
  ASSUME NEW n \in Nat \ {0}, NEW u \in [1..n -> Int], NEW v \in [1..n -> Int],
         \A i \in 1..(n - 1) : v[i] = u[i + 1], NEW a \in Int, NEW p, SumsUp(p, n, a, u)
  PROVE  \E q : SumsUp(q, n, a + u[1] - v[n], v)
<1>1. /\ p \in [1..(n + 1) -> Int] /\ p[1] = a /\ p[n + 1] = 0
      /\ \A i \in 1..n : p[i + 1] = p[i] + u[i]
  BY DEF SumsUp
<1>2. PICK m \in Int : m = v[n]
  OBVIOUS
<1>3. PICK q : q = [i \in 1..(n + 1) |-> IF i = n + 1 THEN 0 ELSE p[i + 1] - m]
  OBVIOUS
<1>4. \A i \in 1..n : i + 1 \in 1..(n + 1) /\ i # n + 1 /\ i \in 1..(n + 1) /\ p[i + 1] \in Int
  BY <1>1
<1>5. q \in [1..(n + 1) -> Int] /\ q[n + 1] = 0 /\ \A i \in 1..n : q[i] = p[i + 1] - m
  <2>1. \A i \in 1..(n + 1) : i = n + 1 \/ i \in 1..n
    OBVIOUS
  <2> QED BY <1>3, <1>4, <2>1
<1>6. q[1] = a + u[1] - m
  BY <1>1, <1>5
<1>7. ASSUME NEW i \in 1..n PROVE q[i + 1] = q[i] + v[i]
  <2>1. CASE i = n
    BY <1>1, <1>2, <1>5, <2>1
  <2>2. CASE i # n
    <3>1. i \in 1..(n - 1) /\ i + 1 \in 1..n /\ v[i] = u[i + 1]
      BY <2>2
    <3>2. q[i + 1] = p[(i + 1) + 1] - m /\ q[i] = p[i + 1] - m
      BY <1>5, <3>1
    <3>3. p[(i + 1) + 1] = p[i + 1] + v[i]
      BY <1>1, <3>1
    <3>4. PICK x \in Int, y \in Int, z \in Int : x = p[i + 1] /\ y = p[(i + 1) + 1] /\ z = v[i]
      BY <1>4, <3>1
    <3>5. q[i + 1] = y - m /\ q[i] = x - m /\ y = x + z
      BY <3>2, <3>3, <3>4
    <3>6. y - m = (x - m) + z
      BY <3>5
    <3> QED BY <3>4, <3>5, <3>6, Zenon
  <2> QED BY <2>1, <2>2
<1> QED BY <1>2, <1>5, <1>6, <1>7 DEF SumsUp

Amounts(q) == [i \in 1..Len(q) |-> Unbooked(q[i])]

LEMMA BalancingIsSum ==
  ASSUME BookInv
  PROVE  /\ Amounts(queue) \in [1..Len(queue) -> Int]
         /\ Balancing <=> \E p : SumsUp(p, Len(queue), OffBy, Amounts(queue))
<1>1. \A i \in 1..Len(queue) : Unbooked(queue[i]) \in Int
  BY UnbookedIsInt DEF BookInv
<1>2. Amounts(queue) \in [1..Len(queue) -> Int] /\ \A i \in 1..Len(queue) : Amounts(queue)[i] = Unbooked(queue[i])
  BY <1>1 DEF Amounts
<1> QED BY <1>2, Zenon DEF Balancing, SumsUp

LEMMA BalancingIsSumNext ==
  ASSUME BookInv'
  PROVE  /\ Amounts(queue') \in [1..Len(queue') -> Int]
         /\ Balancing' <=> \E p : SumsUp(p, Len(queue'), OffBy', Amounts(queue'))
<1>1. \A i \in 1..Len(queue') : Unbooked(queue'[i]) \in Int
  <2>1. queue' \in Seq(Handler) /\ \A i \in 1..Len(queue') : Routed(queue'[i])
    BY DEF BookInv, Routed, OnRoute
  <2> QED BY <2>1, UnbookedIsInt
<1>2. Amounts(queue') \in [1..Len(queue') -> Int] /\ \A i \in 1..Len(queue') : Amounts(queue')[i] = Unbooked(queue'[i])
  BY <1>1 DEF Amounts
<1>3. \A i : Unbooked(queue[i])' = Unbooked(queue'[i])
  BY DEF Unbooked, CostOfSold
<1> QED BY <1>2, <1>3, Zenon DEF Balancing, SumsUp

LEMMA OffByIsInt == ASSUME BookInv PROVE OffBy \in Int
<1>1. /\ Get("realized") \in Int /\ Get("sold") \in Int /\ Get("bought") \in Int /\ Get("cost") \in Int
      /\ uncosted \in Int
  BY GetIsInt DEF BookInv
<1> QED BY <1>1 DEF OffBy

Uncosted(h) ==
  CASE h.at = "delete" -> 0
    [] h.at = "set" /\ Complete(h.data) -> 0
    [] h.at = "basis" /\ h.held <= 0 -> uncosted + h.usd
    [] OTHER -> uncosted

(* Each command books what it has announced, and announces what is next.   *)
LEMMA PlainOffBy ==
  ASSUME BookInv, NEW h, Plain(h), uncosted' = Uncosted(h), NEW k, IF Ends(h) THEN Unbooked(k) = 0 ELSE Sends(h, k)
  PROVE  OffBy' = OffBy + Unbooked(h) - Unbooked(k)
<1>1. /\ BookFields /\ h \in Handler /\ Routed(h) /\ Effect(h) /\ Answered(h) /\ h.at \notin {"set", "delete"}
      /\ h.kind \in BookKinds
  BY BookHandler DEF BookInv, Plain
<1>2. PICK R \in Int, S \in Int, B \in Int, C \in Int, u \in Int, m \in Nat :
        R = Get("realized") /\ S = Get("sold") /\ B = Get("bought") /\ C = Get("cost") /\ u = uncosted /\ m = h.usd
  <2>1. /\ Get("realized") \in Int /\ Get("sold") \in Int /\ Get("bought") \in Int /\ Get("cost") \in Int
        /\ uncosted \in Int /\ h.usd \in Nat
    BY <1>1, GetIsInt, BookHandler DEF BookInv
  <2> QED BY <2>1
<1>3. PICK c : c = CostOfSold(h)
  OBVIOUS
<1>4. PICK R2, S2, B2, C2, u2 :
        R2 = Get("realized")' /\ S2 = Get("sold")' /\ B2 = Get("bought")' /\ C2 = Get("cost")' /\ u2 = uncosted'
  OBVIOUS
<1>5. /\ B2 = IF h.at = "bought" THEN B + m ELSE B
      /\ S2 = IF h.at = "sold" THEN S + m ELSE S
      /\ R2 = IF h.at = "realized" THEN R + (m - c) ELSE R
      /\ C2 = IF h.at = "cost" THEN C + m ELSE IF h.at = "takeCost" THEN C + -c ELSE C
      /\ u2 = IF h.at = "basis" /\ h.held <= 0 THEN u + m ELSE u
  BY <1>1, <1>2, <1>3, <1>4, FieldsAfter DEF Uncosted
<1>6. h.at \in {"realized", "takeCost"} => c \in Int
  BY <1>1, <1>3, CostOfSoldIsInt DEF Routed
<1>a. PICK x, y : x = Unbooked(h) /\ y = Unbooked(k)
  OBVIOUS
<1>b. SUFFICES R2 + u2 - S2 + B2 - C2 = (R + u - S + B - C) + x - y
  <2>1. OffBy' = R2 + u2 - S2 + B2 - C2
    BY <1>4 DEF OffBy
  <2>2. OffBy = R + u - S + B - C
    BY <1>2 DEF OffBy
  <2> QED BY <1>a, <2>1, <2>2
<1>7. ~Ends(h) => k.usd = m /\ k.kind = h.kind
  BY <1>2 DEF Sends
<1>8. h.at \in {"bought", "cost", "sold", "countSale", "held", "basis", "realized", "takeCost"} => ~Ends(h)
  BY <1>1, LastCommands DEF BookKinds, Ends
<1>9. CASE h.at = "bought"
  <2>1. x = 0 /\ y = -m
    BY <1>1, <1>7, <1>8, <1>9, SendsTable, UnbookedIs, <1>a
  <2> QED BY <1>5, <1>9, <2>1
<1>10. CASE h.at = "cost"
  <2>1. x = -m /\ y = 0
    BY <1>1, <1>2, <1>7, <1>8, <1>10, SendsTable, UnbookedIs, <1>a
  <2> QED BY <1>5, <1>10, <2>1
<1>11. CASE h.at = "sold"
  <2>1. x = 0 /\ y = m
    BY <1>1, <1>7, <1>8, <1>11, SendsTable, UnbookedIs, <1>a
  <2> QED BY <1>5, <1>11, <2>1
<1>12. CASE h.at \in {"countSale", "held"}
  <2>1. x = m /\ y = m
    BY <1>1, <1>2, <1>7, <1>8, <1>12, SendsTable, UnbookedIs, <1>a
  <2>2. R2 = R /\ S2 = S /\ B2 = B /\ C2 = C /\ u2 = u
    BY <1>5, <1>12
  <2> QED BY <2>1, <2>2
<1>13. CASE h.at = "basis" /\ h.held > 0
  <2>1. x = m /\ y = m
    BY <1>1, <1>2, <1>7, <1>8, <1>13, SendsTable, UnbookedIs, <1>a
  <2>2. ~(h.held <= 0)
    BY <1>1, <1>13, BookHandler
  <2> QED BY <1>5, <1>13, <2>1, <2>2
<1>14. CASE h.at = "basis" /\ h.held <= 0
  <2>1. ~(h.held > 0)
    BY <1>1, <1>14, BookHandler
  <2>2. x = m /\ y = 0
    BY <1>1, <1>2, <1>7, <1>8, <1>14, <2>1, SendsTable, UnbookedIs, <1>a
  <2> QED BY <1>5, <1>14, <2>2
<1>15. CASE h.at = "realized"
  <2>1. k.at = "takeCost" /\ CostOfSold(k) = c
    BY <1>1, <1>3, <1>8, <1>15, SendsTable DEF CostOfSold, Sends
  <2>2. c \in Int /\ x = m /\ y = c
    BY <1>2, <1>6, <1>15, <2>1, UnbookedIs, <1>a
  <2> QED BY <1>5, <1>15, <2>2
<1>16. CASE h.at = "takeCost"
  <2>1. c \in Int /\ x = c
    BY <1>3, <1>6, <1>16, UnbookedIs, <1>a
  <2>2. y = 0
    BY <1>1, <1>8, <1>16, SendsTable, UnbookedIs, <1>a
  <2>3. R2 = R /\ S2 = S /\ B2 = B /\ C2 = C + -c /\ u2 = u
    BY <1>5, <1>16
  <2> QED BY <2>1, <2>2, <2>3
<1>17. CASE h.at \notin {"bought", "cost", "sold", "countSale", "held", "basis", "realized", "takeCost"}
  <2>1. x = 0
    BY <1>17, UnbookedIs, <1>a
  <2>2. y = 0
    <3>1. CASE Ends(h)
      BY <1>a, <3>1
    <3>2. CASE ~Ends(h) /\ h.at = "balance"
      BY <1>1, <3>2, SendsTable, UnbookedIs, <1>a
    <3>3. CASE ~Ends(h) /\ h.at # "balance"
      <4>1. h.at \in {"count", "transactions", "first", "setFirst", "last", "keep", "read", "rank", "unrank",
                      "top", "all"}
        BY <1>1, <1>17, <3>3, LastCommands DEF Routed, OnRoute, Ends, Buying, Selling, Swapped, BookKinds
      <4>2. k.at \notin {"cost", "countSale", "held", "basis", "realized", "takeCost"}
        <5>1. CASE h.at \in {"count", "transactions", "first", "setFirst", "last"}
          BY <1>1, <3>3, <5>1, SendsTable
        <5>2. CASE h.at \in {"keep", "read", "rank", "unrank", "top", "all"}
          BY <1>1, <3>3, <5>2, SendsTable
        <5> QED BY <4>1, <5>1, <5>2
      <4> QED BY <4>2, UnbookedIs, <1>a
    <3> QED BY <3>1, <3>2, <3>3
  <2>3. R2 = R /\ S2 = S /\ B2 = B /\ C2 = C /\ u2 = u
    BY <1>5, <1>17
  <2> QED BY <2>1, <2>2, <2>3
<1>18. h.held <= 0 \/ h.held > 0
  BY <1>1, BookHandler
<1> QED BY <1>9, <1>10, <1>11, <1>12, <1>13, <1>14, <1>15, <1>16, <1>17, <1>18

LEMMA PlainBalances ==
  ASSUME BookInv, BookInv', Balancing, NEW h, Plain(h), uncosted' = Uncosted(h)
  PROVE  Balancing'
<1>1. PICK n \in Nat \ {0} : /\ n = Len(queue) /\ h = queue[1] /\ queue \in Seq(Handler)
                             /\ Len(queue') = IF Ends(h) THEN n - 1 ELSE n
                             /\ \A i \in 1..(n - 1) : queue'[i] = queue[i + 1]
                             /\ ~Ends(h) => Sends(h, queue'[n])
  BY DEF BookInv, Plain, Answered
<1>2. PICK u : u = Amounts(queue) /\ u \in [1..n -> Int] /\ \A i \in 1..n : u[i] = Unbooked(queue[i])
  <2>1. Amounts(queue) \in [1..n -> Int]
    BY <1>1, BalancingIsSum
  <2>2. \A i \in 1..n : Amounts(queue)[i] = Unbooked(queue[i])
    BY <1>1, Zenon DEF Amounts
  <2> QED BY <2>1, <2>2, Zenon
<1>3. PICK l \in Nat : l = Len(queue') /\ l = IF Ends(h) THEN n - 1 ELSE n
  <2>1. (IF Ends(h) THEN n - 1 ELSE n) \in Nat
    OBVIOUS
  <2> QED BY <1>1, <2>1, Zenon
<1>4. PICK v : v = Amounts(queue') /\ v \in [1..l -> Int] /\ \A i \in 1..l : v[i] = Unbooked(queue'[i])
  <2>1. Amounts(queue') \in [1..l -> Int]
    BY <1>3, BalancingIsSumNext
  <2>2. \A i \in 1..l : Amounts(queue')[i] = Unbooked(queue'[i])
    BY <1>3, Zenon DEF Amounts
  <2> QED BY <2>1, <2>2, Zenon
<1>5. PICK a \in Int, b \in Int : a = OffBy /\ b = OffBy'
  <2>1. OffBy' \in Int
    <3>1. /\ Get("realized")' \in Int /\ Get("sold")' \in Int /\ Get("bought")' \in Int /\ Get("cost")' \in Int
          /\ uncosted' \in Int
      BY DEF BookInv, BookFields, Get
    <3> QED BY <3>1 DEF OffBy
  <2> QED BY <2>1, OffByIsInt
<1>6. PICK p : SumsUp(p, n, a, u)
  BY <1>1, <1>2, <1>5, BalancingIsSum, Zenon
<1>7. u[1] = Unbooked(h) /\ u[1] \in Int
  BY <1>1, <1>2
<1>8. \A i \in 1..(n - 1) : i \in 1..l /\ i + 1 \in 1..n /\ v[i] = u[i + 1]
  <2> SUFFICES ASSUME NEW i \in 1..(n - 1) PROVE i \in 1..l /\ i + 1 \in 1..n /\ v[i] = u[i + 1]
    OBVIOUS
  <2>1. i \in 1..l /\ i + 1 \in 1..n
    BY <1>3
  <2> QED BY <1>1, <1>2, <1>4, <2>1
<1>9. CASE Ends(h)
  <2>1. Unbooked([at |-> "keep"]) = 0
    BY UnbookedIs
  <2>2. b = a + u[1]
    <3>1. OffBy' = OffBy + Unbooked(h) - Unbooked([at |-> "keep"])
      BY <1>9, <2>1, PlainOffBy, Zenon
    <3> QED BY <1>5, <1>7, <2>1, <3>1
  <2>3. \E q : SumsUp(q, l, a + u[1], v)
    <3>1. l = n - 1 /\ \A i \in 1..l : v[i] = u[i + 1]
      BY <1>3, <1>8, <1>9
    <3> QED BY <1>2, <1>4, <1>6, <3>1, FirstLeaves
  <2> QED BY <1>3, <1>4, <1>5, <2>2, <2>3, BalancingIsSumNext
<1>10. CASE ~Ends(h)
  <2>1. l = n /\ n \in 1..n /\ v[n] = Unbooked(queue'[n]) /\ v[n] \in Int
    BY <1>3, <1>4, <1>10
  <2>2. b = a + u[1] - v[n]
    <3>1. OffBy' = OffBy + Unbooked(h) - Unbooked(queue'[n])
      BY <1>1, <1>10, PlainOffBy, Zenon
    <3> QED BY <1>5, <1>7, <2>1, <3>1
  <2>3. \E q : SumsUp(q, n, a + u[1] - v[n], v)
    BY <1>2, <1>4, <1>6, <1>8, <2>1, FirstGoesLast
  <2> QED BY <1>3, <1>4, <1>5, <2>1, <2>2, <2>3, BalancingIsSumNext
<1> QED BY <1>9, <1>10

LEMMA PlainCost ==
  ASSUME BookInv, CostFits, NEW h, Plain(h),
         crossed' = (crossed \/ (h.at = "basis" /\ 0 < h.held /\ h.held < h.raw))
  PROVE  CostFits'
<1> SUFFICES ASSUME ~crossed' PROVE CostFits'
  BY DEF CostFits
<1>1. /\ BookFields /\ h \in Handler /\ Routed(h) /\ Effect(h) /\ Answered(h) /\ h.at \notin {"set", "delete"}
      /\ h.kind \in BookKinds
  BY BookHandler DEF BookInv, Plain
<1>2. PICK n \in Nat : n = Len(queue) /\ n >= 1 /\ h = queue[1] /\ 1 \in 1..n
  BY <1>1 DEF BookInv, Answered
<1>3. PICK C \in Nat : C = Get("cost")
  <2>1. Get("cost") >= 0 /\ Get("cost") \in Int
    BY <1>1, GetIsInt, Zenon DEF CostFits
  <2> QED BY <2>1
<1>4. /\ h.at = "basis" /\ h.held > 0 => h.raw <= h.held
      /\ \A i \in 1..n : queue[i].at \in {"realized", "takeCost"} =>
           0 <= queue[i].basis /\ queue[i].basis <= C /\ queue[i].raw <= queue[i].held
      /\ \A i, j \in 1..n : i # j => ~(queue[i].kind = "sell" /\ queue[j].kind = "sell")
  <2>1. ~crossed /\ ~(h.at = "basis" /\ 0 < h.held /\ h.held < h.raw)
    BY Zenon
  <2>2. h.at = "basis" /\ h.held > 0 => h.raw <= h.held
    <3>1. h.raw \in Int /\ h.held \in Int
      BY <1>1, BookHandler
    <3> QED BY <2>1, <3>1
  <2> QED BY <1>2, <1>3, <2>1, <2>2, Zenon DEF CostFits
<1>5. h.at = "takeCost" => CostOfSold(h) \in Nat /\ CostOfSold(h) <= C /\ h.kind = "sell"
  <2> SUFFICES ASSUME h.at = "takeCost" PROVE CostOfSold(h) \in Nat /\ CostOfSold(h) <= C /\ h.kind = "sell"
    OBVIOUS
  <2>1. 0 <= h.basis /\ h.basis <= C /\ h.raw <= h.held
    BY <1>2, <1>4
  <2>2. h.held > 0 /\ h.kind = "sell"
    BY <1>1 DEF Routed, OnRoute, Buying, Swapped
  <2>3. CostOfSold(h) \in Nat /\ CostOfSold(h) <= h.basis
    BY <1>1, <2>1, <2>2, ShareOfCost
  <2>4. h.basis \in Int
    BY <1>1, BookHandler
  <2>5. PICK c, b : c = CostOfSold(h) /\ b = h.basis
    OBVIOUS
  <2>6. c \in Nat /\ c <= b /\ b \in Int /\ b <= C
    BY <2>1, <2>3, <2>4, <2>5
  <2>7. c <= C
    BY <2>6
  <2> QED BY <2>2, <2>5, <2>6, <2>7
<1>6. PICK D : D = Get("cost")' /\ D = IF h.at = "cost" THEN C + h.usd
                                      ELSE IF h.at = "takeCost" THEN C + -CostOfSold(h) ELSE C
  BY <1>1, <1>3, FieldsAfter
<1>7. D >= 0 /\ D \in Int /\ (h.at # "takeCost" => D >= C)
  <2>1. h.usd \in Nat
    BY <1>1, BookHandler
  <2>2. PICK c, u : c = CostOfSold(h) /\ u = h.usd
    OBVIOUS
  <2>3. /\ D = IF h.at = "cost" THEN C + u ELSE IF h.at = "takeCost" THEN C + -c ELSE C
        /\ u \in Nat /\ (h.at = "takeCost" => c \in Nat /\ c <= C)
    BY <1>5, <1>6, <2>1, <2>2
  <2>4. CASE h.at = "cost"
    BY <2>3, <2>4
  <2>5. CASE h.at = "takeCost"
    BY <2>3, <2>5
  <2>6. CASE h.at \notin {"cost", "takeCost"}
    BY <2>3, <2>6
  <2> QED BY <2>4, <2>5, <2>6
<1>8. ASSUME NEW i \in 1..Len(queue')
      PROVE  \E s \in 1..n : queue'[i].kind = queue[s].kind /\ (s = i + 1 \/ (s = 1 /\ i = n))
  BY <1>1, <1>2, WhereFrom DEF Sends
<1>9. ASSUME NEW i \in 1..Len(queue'), NEW j \in 1..Len(queue'), i # j
      PROVE  ~(queue'[i].kind = "sell" /\ queue'[j].kind = "sell")
  <2>1. PICK s \in 1..n : queue'[i].kind = queue[s].kind /\ (s = i + 1 \/ (s = 1 /\ i = n))
    BY <1>8
  <2>2. PICK t \in 1..n : queue'[j].kind = queue[t].kind /\ (t = j + 1 \/ (t = 1 /\ j = n))
    BY <1>8
  <2>3. s # t
    <3>1. i >= 1 /\ j >= 1 /\ i \in Int /\ j \in Int
      BY <1>1, <1>2, WhereFrom
    <3> QED BY <1>2, <1>9, <2>1, <2>2, <3>1
  <2> QED BY <1>4, <2>1, <2>2, <2>3
<1>10. ASSUME NEW i \in 1..Len(queue'), queue'[i].at \in {"realized", "takeCost"}
       PROVE  0 <= queue'[i].basis /\ queue'[i].basis <= D /\ queue'[i].raw <= queue'[i].held
  <2>1. CASE i \in 1..(n - 1) /\ i + 1 \in 1..n /\ queue'[i] = queue[i + 1]
    <3>1. queue[i + 1] \in Handler /\ Routed(queue[i + 1]) /\ i + 1 # 1
      BY <1>2, <2>1 DEF BookInv
    <3>2. queue[i + 1].kind = "sell"
      BY <1>10, <2>1, <3>1 DEF Routed, OnRoute, Buying, Swapped
    <3>3. h.at # "takeCost"
      BY <1>2, <1>4, <1>5, <2>1, <3>1, <3>2
    <3>4. 0 <= queue[i + 1].basis /\ queue[i + 1].basis <= C /\ queue[i + 1].raw <= queue[i + 1].held
      BY <1>4, <1>10, <2>1
    <3>5. queue[i + 1].basis \in Int
      BY <3>1, BookHandler
    <3>6. PICK b \in Int : b = queue[i + 1].basis
      BY <3>5
    <3>7. b <= D
      BY <1>7, <3>3, <3>4, <3>6
    <3> QED BY <2>1, <3>4, <3>6, <3>7
  <2>2. CASE ~Ends(h) /\ Sends(h, queue'[i])
    <3>1. PICK k : k = queue'[i] /\ Sends(h, k) /\ k.raw = h.raw
      BY <2>2 DEF Sends
    <3>2. h.at = "realized" \/ (h.at = "basis" /\ h.held > 0)
      <4>1. h.at \in {"bought", "cost", "count", "balance", "sold", "countSale", "held", "basis", "realized",
                      "takeCost", "transactions", "first", "setFirst", "last", "keep", "read", "rank", "unrank",
                      "top", "all"}
        BY <1>1, <2>2, LastCommands DEF Routed, OnRoute, Ends, Buying, Selling, Swapped, BookKinds
      <4>2. CASE h.at \in {"bought", "cost", "count", "balance", "sold", "countSale", "held"}
        BY <1>1, <1>10, <3>1, <4>2, SendsTable
      <4>3. CASE h.at \in {"basis", "realized", "takeCost", "transactions", "first", "setFirst", "last"}
        BY <1>1, <1>10, <3>1, <4>3, SendsTable
      <4>4. CASE h.at \in {"keep", "read", "rank", "unrank", "top", "all"}
        BY <1>1, <1>10, <3>1, <4>4, SendsTable
      <4> QED BY <4>1, <4>2, <4>3, <4>4
    <3>3. D = C
      BY <1>6, <3>2
    <3>4. CASE h.at = "realized"
      <4>1. k.held = h.held /\ k.basis = h.basis
        BY <1>1, <3>1, <3>4, SendsTable
      <4> QED BY <1>2, <1>4, <3>1, <3>3, <3>4, <4>1
    <3>5. CASE h.at = "basis" /\ h.held > 0
      <4>1. k.held = h.held /\ k.basis = C
        BY <1>1, <1>3, <3>1, <3>5, SendsTable
      <4>2. h.raw <= h.held
        BY <1>4, <3>5
      <4>3. k.raw <= k.held
        BY <3>1, <4>1, <4>2
      <4>4. 0 <= k.basis /\ k.basis <= D
        BY <3>3, <4>1
      <4> QED BY <3>1, <4>3, <4>4
    <3> QED BY <3>2, <3>4, <3>5
  <2> QED BY <1>1, <1>2, <2>1, <2>2, WhereFrom
<1> QED BY <1>6, <1>7, <1>9, <1>10, Zenon DEF CostFits

(***************************************************************************)
(* A report sets all there is to agree; a removal leaves nothing.          *)
(***************************************************************************)
LEMMA SetKeepsRight ==
  ASSUME BookInv, BookInv', BooksRight, NEW h, h \in Handler, Routed(h), Answered(h), h.at = "set", Effect(h),
         Complete(h.data), uncosted' = 0
  PROVE  BooksRight'
<1>1. PICK n \in Nat : n = Len(queue) /\ n >= 1 /\ h = queue[1] /\ 1 \in 1..n
  BY DEF BookInv, Answered
<1>2. h.kind = "report" /\ h.data \in Reports /\ SetFields(Reported(h.data)) /\ BookFields
  BY EffectTable DEF Routed, OnRoute, Buying, Selling, Swapped, BookInv
<1>3. /\ "balance" \in DOMAIN book' /\ Get("balance")' = h.data.balance /\ Get("cost")' >= 0
      /\ Get("realized")' - Get("sold")' + Get("bought")' - Get("cost")' = 0
  BY <1>2, ReportAgrees
<1>4. ~Ends(h) /\ Len(queue') = n /\ n \in 1..n /\ Sends(h, queue'[n])
  <2>1. ~Ends(h)
    BY <1>2, LastCommands DEF Ends
  <2> QED BY <1>1, <2>1 DEF Answered
<1>5. queue'[n].at = "keep" /\ queue'[n].kind = "report" /\ queue'[n].data = h.data
  BY <1>2, <1>4, SendsTable DEF Sends
<1>6. ASSUME NEW i \in 1..n, i # n PROVE queue'[i].kind = "price" /\ queue'[i].at \in {"top", "all", "unrealized"}
  <2>1. i \in 1..(n - 1) /\ i + 1 \in 1..n /\ i + 1 # 1
    BY <1>1, <1>6
  <2>2. queue'[i] = queue[i + 1] /\ queue[i + 1] \in Handler /\ Routed(queue[i + 1])
    BY <1>1, <2>1, SMTT(30) DEF Answered, BookInv
  <2>3. ~Clashes(queue[i + 1].kind, "report") /\ ~Clashes("report", queue[i + 1].kind)
    BY <1>1, <1>2, <2>1 DEF BooksRight, NoClash
  <2>4. queue[i + 1].kind \in BookKinds
    BY <2>2, BookHandler
  <2>5. queue[i + 1].kind = "price"
    BY <2>3, <2>4 DEF Clashes, Adds, BookKinds
  <2> QED BY <2>2, <2>5 DEF Routed, OnRoute
<1>7. NoClash'
  BY AnsweredClash DEF BooksRight
<1>8. HasBalance'
  BY <1>3 DEF HasBalance
<1>9. LastsAwhile'
  <2>1. WillKeep(queue'[n])
    BY <1>5 DEF WillKeep
  <2>2. WillKeep(queue[n])' <=> WillKeep(queue'[n])
    BY DEF WillKeep, Swapping
  <2> QED BY <1>4, <2>1, <2>2, Zenon DEF LastsAwhile
<1>10. ScoreRight'
  <2>1. WillRank(queue'[n]) /\ Shares(queue'[n]) = Get("balance")'
    BY <1>3, <1>5 DEF WillRank, Shares
  <2>2. \A j \in 1..Len(queue') : ~(j > n)
    BY <1>4
  <2> QED BY <1>4, <2>1, <2>2, ScoreWillBe, Zenon
<1>11. ReportStored'
  <2>1. ASSUME NEW i \in 1..n, queue'[i].kind = "report" PROVE queue'[i].data.balance = Get("balance")'
    <3>1. i = n
      BY <1>6, <2>1
    <3> QED BY <1>3, <1>5, <3>1
  <2> QED BY <1>4, <2>1, Zenon DEF ReportStored
<1>12. Balancing'
  <2>1. OffBy' = 0
    <3>1. /\ Get("realized")' \in Int /\ Get("sold")' \in Int /\ Get("bought")' \in Int /\ Get("cost")' \in Int
      BY DEF BookInv, BookFields, Get
    <3>2. OffBy' = Get("realized")' + uncosted' - Get("sold")' + Get("bought")' - Get("cost")'
      BY DEF OffBy
    <3>3. PICK R \in Int, S \in Int, B \in Int, C \in Int :
            R = Get("realized")' /\ S = Get("sold")' /\ B = Get("bought")' /\ C = Get("cost")'
      BY <3>1
    <3> QED BY <1>3, <3>2, <3>3
  <2>2. ASSUME NEW i \in 1..n PROVE Unbooked(queue'[i]) = 0
    <3>1. queue'[i].at \in {"keep", "top", "all", "unrealized"}
      BY <1>5, <1>6
    <3> QED BY <3>1, UnbookedIs
  <2>3. PICK v : v = Amounts(queue') /\ v \in [1..n -> Int] /\ \A i \in 1..n : v[i] = 0
    <3>1. Amounts(queue') \in [1..n -> Int]
      BY <1>4, BalancingIsSumNext
    <3>2. \A i \in 1..n : Amounts(queue')[i] = 0
      BY <1>4, <2>2, Zenon DEF Amounts
    <3> QED BY <3>1, <3>2, Zenon
  <2>4. PICK p : p = [i \in 1..(n + 1) |-> 0]
    OBVIOUS
  <2>5. SumsUp(p, n, 0, v)
    <3>1. \A i \in 1..n : i \in 1..(n + 1) /\ i + 1 \in 1..(n + 1)
      OBVIOUS
    <3> QED BY <2>3, <2>4, <3>1 DEF SumsUp
  <2> QED BY <1>4, <2>1, <2>3, <2>5, BalancingIsSumNext, Zenon
<1>13. CostFits'
  <2>1. \A i \in 1..n : queue'[i].kind \in {"price", "report"} /\ queue'[i].at \in {"keep", "top", "all", "unrealized"}
    BY <1>5, <1>6
  <2>2. \A i \in 1..n : queue'[i].kind # "sell" /\ queue'[i].at \notin {"realized", "takeCost"}
    BY <2>1
  <2> QED BY <1>3, <1>4, <2>2, Zenon DEF CostFits
<1> QED BY <1>7, <1>8, <1>9, <1>10, <1>11, <1>12, <1>13 DEF BooksRight

(* Nothing is in the queue and nothing in the hash.                        *)
LEMMA NothingIsRight ==
  ASSUME book' = <<>>, Len(queue') = 0, lasting' = FALSE, uncosted' = 0
  PROVE  BooksRight'
<1>1. 1..Len(queue') = {} /\ DOMAIN book' = {} /\ \A f : Get(f)' = 0
  BY DEF Get
<1>2. NoClash' /\ HasBalance' /\ LastsAwhile' /\ ScoreRight' /\ ReportStored'
  BY <1>1, Zenon DEF NoClash, HasBalance, LastsAwhile, ScoreRight, ReportStored
<1>3. Balancing'
  <2>1. OffBy' = 0
    BY <1>1 DEF OffBy
  <2>2. PICK p : p = [i \in 1..1 |-> 0]
    OBVIOUS
  <2>3. p \in [1..(Len(queue') + 1) -> Int] /\ p[1] = 0 /\ Len(queue') + 1 = 1
    BY <2>2
  <2> QED BY <1>1, <2>1, <2>3 DEF Balancing
<1>4. CostFits'
  <2>1. Get("cost")' >= 0
    BY <1>1
  <2> QED BY <1>1, <2>1, Zenon DEF CostFits
<1> QED BY <1>2, <1>3, <1>4 DEF BooksRight

LEMMA DeleteKeepsRight ==
  ASSUME BookInv, BooksRight, NEW h, h \in Handler, Routed(h), Answered(h), h.at = "delete", Effect(h),
         uncosted' = 0, lasting' = FALSE
  PROVE  BooksRight'
<1>1. PICK n \in Nat : n = Len(queue) /\ n >= 1 /\ h = queue[1] /\ 1 \in 1..n
  BY DEF BookInv, Answered
<1>2. h.kind = "removal" /\ book' = <<>>
  BY EffectTable DEF Routed, OnRoute, Buying, Selling, Swapped
<1>3. n = 1
  <2> SUFFICES ASSUME n # 1 PROVE FALSE
    OBVIOUS
  <2>1. 2 \in 1..n
    BY <1>1
  <2>2. queue[2].kind \in BookKinds
    BY <1>1, <2>1, BookHandler DEF BookInv
  <2>3. ~Clashes(queue[2].kind, "removal") /\ ~Clashes("removal", queue[2].kind)
    BY <1>1, <1>2, <2>1 DEF BooksRight, NoClash
  <2> QED BY <2>2, <2>3 DEF Clashes, Adds, BookKinds
<1>4. Ends(h)
  BY <1>2, LastCommands DEF Ends
<1>5. Len(queue') = 0
  BY <1>1, <1>3, <1>4 DEF Answered
<1> QED BY <1>2, <1>5, NothingIsRight

(* A price update that fails has written nothing.                          *)
LEMMA PriceLeaves ==
  ASSUME BookInv, BookInv', BooksRight, Len(queue) >= 1, queue[1].kind = "price", Len(queue') = Len(queue) - 1,
         \A i \in 1..Len(queue') : queue'[i] = queue[i + 1], UNCHANGED <<book, lasting, score, uncosted, crossed>>
  PROVE  BooksRight'
<1>1. PICK n \in Nat : n = Len(queue) /\ n >= 1 /\ 1 \in 1..n
  BY DEF BookInv
<1>2. PICK l \in Nat : l = Len(queue') /\ l = n - 1
  BY <1>1
<1>3. \A i \in 1..l : i + 1 \in 1..n /\ i + 1 # 1 /\ queue'[i] = queue[i + 1]
  BY <1>1, <1>2
<1>4. \A i \in 1..n : i # 1 => i - 1 \in 1..l /\ queue'[i - 1] = queue[i]
  <2> SUFFICES ASSUME NEW i \in 1..n, i # 1 PROVE i - 1 \in 1..l /\ queue'[i - 1] = queue[i]
    OBVIOUS
  <2>1. i - 1 \in 1..l /\ (i - 1) + 1 = i
    BY <1>2
  <2> QED BY <1>2, <2>1
<1>5. PICK h : h = queue[1] /\ h \in Handler /\ Routed(h) /\ h.kind = "price"
  BY <1>1 DEF BookInv
<1>6. h.at \in {"top", "all", "unrealized"}
  BY <1>5 DEF Routed, OnRoute
<1>7. ~WillKeep(h) /\ ~WillRead(h) /\ ~WillRank(h) /\ h.at # "delete" /\ Unbooked(h) = 0
  BY <1>5, <1>6, UnbookedIs DEF WillKeep, WillRead, WillRank, Swapping
<1>8. \A f : Get(f)' = Get(f)
  BY DEF Get
<1>9. NoClash'
  <2>1. ASSUME NEW i \in 1..l, NEW j \in 1..l, i # j PROVE ~Clashes(queue'[i].kind, queue'[j].kind)
    <3>1. i + 1 # j + 1
      BY <2>1
    <3> QED BY <1>1, <1>3, <3>1 DEF BooksRight, NoClash
  <2>2. \A i, j : Clashes(queue[i].kind, queue[j].kind)' <=> Clashes(queue'[i].kind, queue'[j].kind)
    BY Zenon DEF Clashes, Adds
  <2> QED BY <1>2, <2>1, <2>2, Zenon DEF NoClash
<1>10. HasBalance'
  <2>1. \A i \in 1..l : Begun(queue'[i]) => "balance" \in DOMAIN book
    BY <1>1, <1>3, Zenon DEF BooksRight, HasBalance
  <2>2. \A i : Begun(queue[i])' <=> Begun(queue'[i])
    BY DEF Begun
  <2> QED BY <1>2, <2>1, <2>2, Zenon DEF BooksRight, HasBalance
<1>11. LastsAwhile'
  <2>1. lasting => \E i \in 1..l : WillKeep(queue'[i])
    BY <1>1, <1>4, <1>5, <1>7, Zenon DEF BooksRight, LastsAwhile
  <2>2. \A i : WillKeep(queue[i])' <=> WillKeep(queue'[i])
    BY DEF WillKeep, Swapping
  <2> QED BY <1>2, <2>1, <2>2, Zenon DEF LastsAwhile
<1>12. ScoreRight'
  <2>1. CASE "balance" \notin DOMAIN book
    BY <2>1, ScoreWillBe, Zenon
  <2>2. ASSUME NEW i \in 1..n, WillRead(queue[i]) \/ queue[i].at = "delete" PROVE ScoreRight'
    <3>1. i # 1
      BY <1>5, <1>7, <2>2
    <3> QED BY <1>2, <1>4, <2>2, <3>1, ScoreWillBe, Zenon
  <2>3. ASSUME NEW i \in 1..n, WillRank(queue[i]), Shares(queue[i]) = Get("balance"),
               \A j \in 1..n : j > i => ~WillRank(queue[j])
        PROVE  ScoreRight'
    <3>1. i # 1
      BY <1>5, <1>7, <2>3
    <3>2. i - 1 \in 1..l /\ queue'[i - 1] = queue[i]
      BY <1>4, <3>1
    <3>3. ASSUME NEW j \in 1..l, j > i - 1 PROVE ~WillRank(queue'[j])
      <4>1. j + 1 > i
        BY <3>3
      <4> QED BY <1>3, <2>3, <4>1
    <3> QED BY <1>2, <1>8, <2>3, <3>2, <3>3, ScoreWillBe, Zenon
  <2>4. CASE (\A i \in 1..n : ~WillRank(queue[i])) /\ score = Ranking(Get("balance"))
    <3>1. \A i \in 1..l : ~WillRank(queue'[i])
      BY <1>3, <2>4
    <3>2. score' = Ranking(Get("balance")')
      BY <1>8, <2>4
    <3> QED BY <1>2, <3>1, <3>2, ScoreWillBe, Zenon
  <2> QED BY <1>1, <2>1, <2>2, <2>3, <2>4, Zenon DEF BooksRight, ScoreRight
<1>13. ReportStored'
  <2>1. \A i \in 1..l : queue'[i].kind = "report" /\ WillRank(queue'[i]) => queue'[i].data.balance = Get("balance")'
    BY <1>1, <1>3, <1>8 DEF BooksRight, ReportStored
  <2> QED BY <1>2, <2>1, RankReads, Zenon DEF ReportStored
<1>14. Balancing'
  <2>1. PICK u : u = Amounts(queue) /\ u \in [1..n -> Int] /\ \A i \in 1..n : u[i] = Unbooked(queue[i])
    <3>1. Amounts(queue) \in [1..n -> Int]
      BY <1>1, BalancingIsSum
    <3>2. \A i \in 1..n : Amounts(queue)[i] = Unbooked(queue[i])
      BY <1>1, Zenon DEF Amounts
    <3> QED BY <3>1, <3>2, Zenon
  <2>2. PICK v : v = Amounts(queue') /\ v \in [1..l -> Int] /\ \A i \in 1..l : v[i] = Unbooked(queue'[i])
    <3>1. Amounts(queue') \in [1..l -> Int]
      BY <1>2, BalancingIsSumNext
    <3>2. \A i \in 1..l : Amounts(queue')[i] = Unbooked(queue'[i])
      BY <1>2, Zenon DEF Amounts
    <3> QED BY <3>1, <3>2, Zenon
  <2>3. PICK a \in Int : a = OffBy /\ a = OffBy'
    BY <1>8, OffByIsInt DEF OffBy
  <2>4. PICK p : SumsUp(p, n, a, u)
    BY <1>1, <2>1, <2>3, BalancingIsSum, Zenon DEF BooksRight
  <2>5. u[1] = 0 /\ \A i \in 1..l : v[i] = u[i + 1]
    BY <1>1, <1>3, <1>5, <1>7, <2>1, <2>2
  <2>6. \E q : SumsUp(q, l, a + u[1], v)
    <3>1. n \in Nat \ {0} /\ l = n - 1 /\ u \in [1..n -> Int] /\ v \in [1..l -> Int]
      BY <1>1, <1>2, <2>1, <2>2
    <3>2. \A i \in 1..l : v[i] = u[i + 1]
      BY <2>5
    <3> QED BY <2>4, <3>1, <3>2, FirstLeaves
  <2>7. a + u[1] = a
    BY <2>5
  <2> QED BY <1>2, <2>2, <2>3, <2>6, <2>7, BalancingIsSumNext
<1>15. CostFits'
  <2> SUFFICES ASSUME ~crossed' PROVE CostFits'
    BY DEF CostFits
  <2>1. ~crossed
    BY Zenon
  <2>2. ASSUME NEW i \in 1..l, NEW j \in 1..l, i # j PROVE ~(queue'[i].kind = "sell" /\ queue'[j].kind = "sell")
    <3>1. i + 1 # j + 1
      BY <2>2
    <3> QED BY <1>1, <1>3, <2>1, <3>1, Zenon DEF BooksRight, CostFits
  <2>3. \A i \in 1..l : queue'[i].at \in {"realized", "takeCost"} =>
          0 <= queue'[i].basis /\ queue'[i].basis <= Get("cost") /\ queue'[i].raw <= queue'[i].held
    BY <1>1, <1>3, <2>1, Zenon DEF BooksRight, CostFits
  <2> QED BY <1>2, <1>8, <2>1, <2>2, <2>3, Zenon DEF BooksRight, CostFits
<1> QED BY <1>9, <1>10, <1>11, <1>12, <1>13, <1>14, <1>15 DEF BooksRight

LEMMA RejectKeepsRight ==
  ASSUME BookInv, BookInv', BooksRight, queue # <<>>, Reject(Head(queue)), ~muddled'
  PROVE  BooksRight'
<1>1. /\ queue' = Tail(queue) /\ Head(queue).kind = "price"
      /\ UNCHANGED <<book, lasting, score, uncosted, crossed>>
  BY Zenon DEF Reject
<1>2. queue \in Seq(Handler)
  BY DEF BookInv
<1>3. /\ Len(queue) >= 1 /\ queue[1] = Head(queue) /\ Len(queue') = Len(queue) - 1
      /\ \A i \in 1..Len(queue') : queue'[i] = queue[i + 1]
  BY <1>1, <1>2
<1> QED BY <1>1, <1>3, PriceLeaves

LEMMA ExecKeepsRight ==
  ASSUME BookInv, BookInv', BooksRight, queue # <<>>, Exec(Head(queue)), ~muddled'
  PROVE  BooksRight'
<1>1. PICK h : h = Head(queue)
  OBVIOUS
<1>2. Answered(h) /\ h \in Handler /\ Routed(h)
  BY <1>1, ExecIsAnswer
<1>3. /\ Effect(h) /\ score' = Ranked(h)
      /\ lasting' = (h.at \notin {"keep", "delete"} /\ (lasting \/ (book = <<>> /\ book' # <<>>)))
      /\ crossed' = (crossed \/ (h.at = "basis" /\ 0 < h.held /\ h.held < h.raw))
      /\ muddled' = (muddled \/ (h.at = "set" /\ ~Complete(h.data)))
  BY <1>1, Zenon DEF Exec
<1>4. uncosted' = Uncosted(h)
  BY <1>1, Zenon DEF Exec, Uncosted
<1>5. CASE h.at = "set"
  <2>1. Complete(h.data)
    BY <1>3, <1>5, Zenon
  <2>2. uncosted' = 0
    BY <1>4, <1>5, <2>1 DEF Uncosted
  <2> QED BY <1>2, <1>3, <1>5, <2>1, <2>2, SetKeepsRight
<1>6. CASE h.at = "delete"
  <2>1. uncosted' = 0
    BY <1>4, <1>6 DEF Uncosted
  <2>2. lasting' = FALSE
    BY <1>3, <1>6
  <2> QED BY <1>2, <1>3, <1>6, <2>1, <2>2, DeleteKeepsRight
<1>7. CASE h.at \notin {"set", "delete"}
  <2>1. Plain(h)
    BY <1>2, <1>3, <1>7 DEF Plain
  <2>2. NoClash' /\ HasBalance' /\ ReportStored'
    BY <1>2, <2>1, AnsweredClash, PlainBalance, PlainReport DEF BooksRight
  <2>3. LastsAwhile'
    BY <1>3, <2>1, PlainLasts DEF BooksRight
  <2>4. ScoreRight'
    BY <1>3, <2>1, PlainScore DEF BooksRight
  <2>5. Balancing'
    BY <1>4, <2>1, PlainBalances DEF BooksRight
  <2>6. CostFits'
    BY <1>3, <2>1, PlainCost DEF BooksRight
  <2> QED BY <2>2, <2>3, <2>4, <2>5, <2>6 DEF BooksRight
<1> QED BY <1>5, <1>6, <1>7

BalanceInv == ~muddled => BooksRight

LEMMA BalanceInvInit == BookInit => BalanceInv
<1> SUFFICES ASSUME BookInit PROVE BooksRight
  BY DEF BalanceInv
<1>1. book = <<>> /\ queue = <<>> /\ lasting = FALSE /\ uncosted = 0
  BY Zenon DEF BookInit
<1>2. 1..Len(queue) = {} /\ DOMAIN book = {} /\ Len(queue) = 0 /\ \A f : Get(f) = 0
  BY <1>1 DEF Get
<1>3. NoClash /\ HasBalance /\ LastsAwhile /\ ScoreRight /\ ReportStored
  BY <1>1, <1>2, Zenon DEF NoClash, HasBalance, LastsAwhile, ScoreRight, ReportStored
<1>4. Balancing
  <2>1. OffBy = 0
    BY <1>1, <1>2 DEF OffBy
  <2>2. PICK p : p = [i \in 1..1 |-> 0]
    OBVIOUS
  <2>3. p \in [1..(Len(queue) + 1) -> Int] /\ p[1] = 0 /\ Len(queue) + 1 = 1
    BY <1>2, <2>2
  <2> QED BY <1>2, <2>1, <2>3 DEF Balancing
<1>5. CostFits
  <2>1. Get("cost") >= 0
    BY <1>2
  <2> QED BY <1>2, <2>1, Zenon DEF CostFits
<1> QED BY <1>3, <1>4, <1>5 DEF BooksRight

LEMMA BalanceInvStep == BookInv /\ BookInv' /\ BalanceInv /\ [BookStep]_bookVars => BalanceInv'
<1> SUFFICES ASSUME BookInv, BookInv', BalanceInv, [BookStep]_bookVars, ~muddled' PROVE BooksRight'
  BY DEF BalanceInv
<1>1. CASE UNCHANGED bookVars
  <2>1. UNCHANGED <<book, lasting, score, queue, uncosted, crossed, muddled>>
    BY <1>1, Zenon DEF bookVars
  <2>2. BooksRight
    BY <2>1, Zenon DEF BalanceInv
  <2>3. \A f : Get(f)' = Get(f)
    BY <2>1 DEF Get
  <2>4. NoClash' /\ HasBalance' /\ LastsAwhile'
    BY <2>1, <2>2, Zenon DEF BooksRight, NoClash, HasBalance, LastsAwhile, Clashes, Adds, Begun, WillKeep, Swapping
  <2>5. ScoreRight' /\ ReportStored'
    BY <2>1, <2>2, <2>3, ZenonT(60) DEF BooksRight, ScoreRight, ReportStored, WillRead, WillRank, Shares, Swapping, Ranking
  <2>6. OffBy' = OffBy
    BY <2>1, <2>3 DEF OffBy
  <2>7. Balancing' /\ CostFits'
    BY <2>1, <2>2, <2>3, <2>6, Zenon DEF BooksRight, Balancing, CostFits, Unbooked, CostOfSold
  <2> QED BY <2>4, <2>5, <2>7 DEF BooksRight
<1>2. ASSUME NEW deal \in Deals, OnSwapEvent(deal) PROVE BooksRight'
  <2>1. PICK kind : kind = IF deal.buys THEN "buy" ELSE "sell"
    OBVIOUS
  <2>2. Begin(kind, deal.raw, deal.usd, <<>>)
    BY <1>2, <2>1, Zenon DEF OnSwapEvent
  <2>3. kind \in BookKinds /\ kind # "report" /\ deal.raw \in Nat /\ deal.usd \in Nat
    BY <2>1, BooksAssumption DEF BookKinds
  <2>4. BooksRight
    BY <2>2, Zenon DEF Begin, BalanceInv
  <2> QED BY <2>2, <2>3, <2>4, BeginKeepsRight
<1>3. ASSUME NEW data \in Reports, OnHolderUpdate(data) PROVE BooksRight'
  <2>1. Begin("report", 0, 0, data)
    BY <1>3, Zenon DEF OnHolderUpdate
  <2>2. BooksRight
    BY <2>1, Zenon DEF Begin, BalanceInv
  <2> QED BY <2>1, <2>2, BeginKeepsRight DEF BookKinds
<1>4. CASE OnRemoved
  <2>1. Begin("removal", 0, 0, <<>>)
    BY <1>4, Zenon DEF OnRemoved
  <2>2. BooksRight
    BY <2>1, Zenon DEF Begin, BalanceInv
  <2> QED BY <2>1, <2>2, BeginKeepsRight DEF BookKinds
<1>5. CASE OnPriceUpdate
  <2>1. Begin("price", 0, 0, <<>>)
    BY <1>5, Zenon DEF OnPriceUpdate
  <2>2. BooksRight
    BY <2>1, Zenon DEF Begin, BalanceInv
  <2> QED BY <2>1, <2>2, BeginKeepsRight DEF BookKinds
<1>6. CASE Expire
  <2>1. /\ ~lasting /\ lasting' = lasting /\ book' = <<>> /\ uncosted' = 0 /\ queue' = queue
        /\ muddled' = (muddled \/ queue # <<>>)
    BY <1>6, Zenon DEF Expire
  <2>2. queue = <<>> /\ Len(queue') = 0
    <3>1. queue = <<>>
      BY <2>1, Zenon
    <3> QED BY <2>1, <3>1
  <2>3. lasting' = FALSE
    BY <2>1
  <2> QED BY <2>1, <2>2, <2>3, NothingIsRight
<1>7. CASE queue # <<>> /\ Exec(Head(queue))
  <2>1. BooksRight
    BY <1>7, Zenon DEF Exec, BalanceInv
  <2> QED BY <1>7, <2>1, ExecKeepsRight
<1>8. CASE queue # <<>> /\ Reject(Head(queue))
  <2>1. BooksRight
    BY <1>8, Zenon DEF Reject, BalanceInv
  <2> QED BY <1>8, <2>1, RejectKeepsRight
<1> QED BY <1>1, <1>2, <1>3, <1>4, <1>5, <1>6, <1>7, <1>8, Zenon DEF BookStep

LEMMA BalanceIsRight == BookInv /\ BookFlags /\ BalanceInv => BooksBalance
<1> SUFFICES ASSUME BookInv, BookFlags, BooksRight, queue = <<>> PROVE BooksBalance
  BY Zenon DEF BalanceInv, BooksBalance
<1>1. Len(queue) = 0 /\ 1..Len(queue) = {}
  OBVIOUS
<1>2. PICK R \in Int, S \in Int, B \in Int, C \in Int, u \in Int :
        R = Get("realized") /\ S = Get("sold") /\ B = Get("bought") /\ C = Get("cost") /\ u = uncosted
  <2>1. /\ Get("realized") \in Int /\ Get("sold") \in Int /\ Get("bought") \in Int /\ Get("cost") \in Int
        /\ uncosted \in Int
    BY GetIsInt DEF BookInv
  <2> QED BY <2>1
<1>3. R + u - S + B - C = 0
  <2>1. OffBy = 0
    BY <1>1 DEF BooksRight, Balancing
  <2> QED BY <1>2, <2>1 DEF OffBy
<1>4. Get("realized") + uncosted = Get("sold") - (Get("bought") - Get("cost"))
  <2>1. R + u = S - (B - C)
    BY <1>3
  <2> QED BY <1>2, <2>1
<1>5. book # <<>> => /\ "balance" \in DOMAIN book /\ ~lasting
                     /\ score = IF Get("balance") > 0 THEN Get("balance") ELSE 0
  <2> SUFFICES ASSUME book # <<>>
               PROVE  /\ "balance" \in DOMAIN book /\ ~lasting
                      /\ score = IF Get("balance") > 0 THEN Get("balance") ELSE 0
    OBVIOUS
  <2>1. "balance" \in DOMAIN book
    BY Zenon DEF BooksRight, HasBalance
  <2>2. ~lasting
    BY <1>1, Zenon DEF BooksRight, LastsAwhile
  <2>3. score = Ranking(Get("balance"))
    BY <1>1, <2>1, Zenon DEF BooksRight, ScoreRight
  <2> QED BY <2>1, <2>2, <2>3 DEF Ranking
<1>6. ~crossed => Get("cost") >= 0
  BY Zenon DEF BooksRight, CostFits
<1> QED BY <1>4, <1>5, <1>6 DEF BooksBalance

(* HolderBooks.BooksBalance, for any swaps, any reports that add up and    *)
(* any number of handlers at once: however their commands interleave, the  *)
(* profit is what was sold for less what it cost, the ranking has the      *)
(* balance and what is left costs no less than nothing, once all is quiet. *)
THEOREM BooksAlwaysBalance == BookSpec => []BooksBalance
<1>1. BookInv /\ BookInv' /\ BalanceInv /\ [BookStep]_bookVars => BalanceInv'
  BY BalanceInvStep
<1>2. BookSpec => [](BookInv /\ BookFlags)
  BY BookAlways
<1>3. BookSpec => []BalanceInv
  BY <1>1, <1>2, BalanceInvInit, PTL DEF BookSpec
<1> QED BY <1>2, <1>3, BalanceIsRight, PTL

(***************************************************************************)
(* HolderPnl.  The replay of a holder's swaps, in the order of their block *)
(* times, keeps the cost of what it holds: what was realized is what was   *)
(* sold for less what was bought for, but for that cost.                   *)
(***************************************************************************)
Side(S, buys) == {t \in S : t.buys = buys}

HeldOf(S) == Raw(Side(S, TRUE)) - Raw(Side(S, FALSE))
NetOf(S)  == Usd(Side(S, FALSE)) - Usd(Side(S, TRUE))

UpTo(S, t) == {u \in S : u.day <= t.day}

Untied(S)   == \A t, u \in S : t.day = u.day => t = u
BoughtAll(S) == \A t \in S : HeldOf(UpTo(S, t)) >= 0

LEMMA DealFacts ==
  ASSUME NEW t \in Deals
  PROVE  /\ t.buys \in BOOLEAN /\ t.raw \in Nat /\ t.usd \in Nat /\ t.day \in Nat /\ t.priced \in BOOLEAN
         /\ StoredUsd(t) \in Nat /\ (t.raw = 0 => StoredUsd(t) = 0) /\ (t.priced => StoredUsd(t) = t.usd)
  BY BooksAssumption, HolderChartAssumption DEF StoredUsd

LEMMA SwapSets ==
  ASSUME NEW S \in SUBSET Deals
  PROVE  IsFiniteSet(S) /\ Cardinality(S) \in Nat /\ (Cardinality(S) = 0 <=> S = {})
         /\ \A t \in S : S \ {t} \in SUBSET Deals /\ Cardinality(S \ {t}) = Cardinality(S) - 1
<1>1. IsFiniteSet(S)
  BY FS_Subset, HolderChartAssumption
<1> QED BY <1>1, FS_CardinalityType, FS_EmptySet, FS_RemoveElement

(* One of the swaps is the last.                                           *)
LEMMA LatestIs ==
  ASSUME NEW S \in SUBSET Deals, S # {}
  PROVE  Latest(S) \in S /\ \A u \in S : u.day <= Latest(S).day
<1> DEFINE HasLast(T) == \E t \in T : \A u \in T : u.day <= t.day
           Bad == {n \in Nat : \E T \in SUBSET Deals : Cardinality(T) = n /\ T # {} /\ ~HasLast(T)}
<1>1. Bad = {}
  <2> SUFFICES ASSUME Bad # {} PROVE FALSE
    OBVIOUS
  <2>1. PICK n \in Bad : \A m \in Bad : n <= m
    <3>1. Bad \in SUBSET Nat
      OBVIOUS
    <3> HIDE DEF Bad
    <3> QED BY <3>1, LeastOf
  <2>2. PICK T \in SUBSET Deals : Cardinality(T) = n /\ T # {} /\ ~HasLast(T)
    OBVIOUS
  <2>3. PICK t \in T : t.day \in Nat
    BY <2>2, DealFacts
  <2>4. PICK R : R = T \ {t}
    OBVIOUS
  <2>5. R \in SUBSET Deals /\ Cardinality(R) = n - 1 /\ n \in Nat /\ n - 1 \in Nat
    <3>1. Cardinality(R) \in Nat
      BY <2>4, SwapSets
    <3> QED BY <2>2, <2>4, <3>1, SwapSets
  <2>6. R = {} \/ HasLast(R)
    <3>1. ~(n <= n - 1)
      BY <2>5
    <3>2. n - 1 \notin Bad
      BY <2>1, <3>1, Zenon
    <3> QED BY <2>5, <3>2, Zenon
  <2>7. CASE R = {}
    <3>1. \A u \in T : u = t
      BY <2>4, <2>7
    <3> QED BY <2>2, <2>3, <3>1
  <2>8. CASE HasLast(R)
    <3>1. PICK r \in R : \A u \in R : u.day <= r.day
      BY <2>8
    <3>2. r \in T /\ \A u \in T : u = t \/ u \in R
      BY <2>4, <3>1
    <3>3. r.day \in Nat /\ t.day \in Nat
      BY <2>2, <2>3, <3>2, DealFacts
    <3>4. CASE r.day <= t.day
      <4>1. \A u \in T : u.day <= t.day
        <5> TAKE u \in T
        <5>1. CASE u = t
          BY <3>3, <5>1
        <5>2. CASE u \in R
          <6>1. u.day \in Nat /\ u.day <= r.day
            BY <2>2, <3>1, <5>2, DealFacts
          <6> QED BY <3>3, <3>4, <6>1
        <5> QED BY <3>2, <5>1, <5>2
      <4> QED BY <2>2, <4>1
    <3>5. CASE t.day <= r.day
      BY <2>2, <3>1, <3>2, <3>5
    <3> QED BY <3>3, <3>4, <3>5
  <2> QED BY <2>6, <2>7, <2>8
<1>2. Cardinality(S) \in Nat
  BY SwapSets
<1>3. HasLast(S)
  BY <1>1, <1>2
<1> QED BY <1>3, Zenon DEF Latest

(* The replay is defined.                                                  *)
IsReplay(f) ==
  f = [S \in SUBSET Deals |-> IF S = {} THEN NoLot ELSE ReplaySwap(f[S \ {Latest(S)}], Latest(S))]

LEMMA ReplayExists == \E f : IsReplay(f)
<1> DEFINE Small(n) == {s \in SUBSET Deals : Cardinality(s) <= n}
           Part(g, n) == \A s \in Small(n) :
             g[s] = IF s = {} THEN NoLot ELSE ReplaySwap(g[s \ {Latest(s)}], Latest(s))
           Bad == {n \in Nat : ~\E g : Part(g, n)}
<1>1. Bad = {}
  <2> SUFFICES ASSUME Bad # {} PROVE FALSE
    OBVIOUS
  <2>1. PICK n \in Bad : \A m \in Bad : n <= m
    <3>1. Bad \in SUBSET Nat
      OBVIOUS
    <3> HIDE DEF Bad
    <3> QED BY <3>1, LeastOf
  <2>2. n \in Nat /\ ~\E g : Part(g, n)
    OBVIOUS
  <2>3. CASE n = 0
    <3> DEFINE g == [s \in SUBSET Deals |-> NoLot]
    <3>1. ASSUME NEW s \in Small(n)
          PROVE  s = {} /\ g[s] = NoLot
      BY <2>3, SwapSets
    <3> HIDE DEF g
    <3>2. Part(g, n)
      BY <3>1
    <3> QED BY <2>2, <3>2
  <2>4. CASE n # 0
    <3>0. n - 1 \in Nat /\ ~(n <= n - 1)
      BY <2>2, <2>4
    <3>1. n - 1 \notin Bad
      <4> HIDE DEF Bad
      <4> QED BY <2>1, <3>0
    <3>2. PICK g : Part(g, n - 1)
      BY <3>0, <3>1
    <3> DEFINE h == [s \in SUBSET Deals |->
                 IF Cardinality(s) <= n - 1 THEN g[s]
                 ELSE ReplaySwap(g[s \ {Latest(s)}], Latest(s))]
    <3>3. ASSUME NEW s \in Small(n)
          PROVE  h[s] = IF s = {} THEN NoLot ELSE ReplaySwap(h[s \ {Latest(s)}], Latest(s))
      <4>1. /\ Cardinality(s) \in Nat /\ Cardinality(s) <= n /\ (Cardinality(s) = 0 <=> s = {})
            /\ s # {} => /\ s \ {Latest(s)} \in SUBSET Deals
                         /\ Cardinality(s \ {Latest(s)}) = Cardinality(s) - 1
        BY SwapSets, LatestIs
      <4>2. s # {} => h[s \ {Latest(s)}] = g[s \ {Latest(s)}]
        <5> SUFFICES ASSUME s # {} PROVE h[s \ {Latest(s)}] = g[s \ {Latest(s)}]
          OBVIOUS
        <5>1. PICK r \in SUBSET Deals : r = s \ {Latest(s)} /\ Cardinality(r) = Cardinality(s) - 1
          BY <4>1
        <5>2. Cardinality(r) <= n - 1
          BY <2>2, <4>1, <5>1
        <5>3. h[r] = g[r]
          BY <5>2
        <5> QED BY <5>1, <5>3, Zenon
      <4>3. CASE Cardinality(s) <= n - 1
        <5>1. s \in Small(n - 1)
          BY <4>3
        <5>2. h[s] = g[s]
          BY <4>3
        <5>3. g[s] = IF s = {} THEN NoLot ELSE ReplaySwap(g[s \ {Latest(s)}], Latest(s))
          BY <3>2, <5>1, Zenon
        <5> HIDE DEF h
        <5> QED BY <5>2, <5>3, <4>2, Zenon
      <4>4. CASE ~(Cardinality(s) <= n - 1)
        <5>1. s # {}
          BY <4>1, <4>4, <3>0
        <5>2. h[s] = ReplaySwap(g[s \ {Latest(s)}], Latest(s))
          BY <4>4
        <5> HIDE DEF h
        <5> QED BY <5>1, <5>2, <4>2, Zenon
      <4> QED BY <4>3, <4>4
    <3> HIDE DEF h
    <3>4. Part(h, n)
      BY <3>3, Zenon
    <3> QED BY <2>2, <3>4
  <2> QED BY <2>3, <2>4
<1>2. Cardinality(Deals) \in Nat
  BY SwapSets
<1>3. PICK g : Part(g, Cardinality(Deals))
  BY <1>1, <1>2
<1>4. ASSUME NEW s \in SUBSET Deals
      PROVE  g[s] = IF s = {} THEN NoLot ELSE ReplaySwap(g[s \ {Latest(s)}], Latest(s))
  <2>1. Cardinality(s) <= Cardinality(Deals)
    BY FS_Subset, HolderChartAssumption
  <2> QED BY <1>3, <2>1, Zenon
<1> HIDE DEF Part
<1>5. PICK f : f = [s \in SUBSET Deals |-> g[s]]
  OBVIOUS
<1>6. f = [s \in SUBSET Deals |-> f[s]] /\ \A s \in SUBSET Deals : f[s] = g[s]
  BY <1>5
<1>7. \A s \in SUBSET Deals : f[s] = IF s = {} THEN NoLot ELSE ReplaySwap(f[s \ {Latest(s)}], Latest(s))
  <2> TAKE s \in SUBSET Deals
  <2>1. PICK r \in SUBSET Deals : r = s \ {Latest(s)}
    OBVIOUS
  <2>2. f[s] = g[s] /\ f[r] = g[r]
    BY <1>6
  <2> QED BY <1>4, <2>1, <2>2, Zenon
<1>8. f = [s \in SUBSET Deals |-> IF s = {} THEN NoLot ELSE ReplaySwap(f[s \ {Latest(s)}], Latest(s))]
  BY <1>6, <1>7, Zenon
<1> QED BY <1>8, Zenon DEF IsReplay

LEMMA ReplayedIs ==
  ASSUME NEW S \in SUBSET Deals
  PROVE  Replayed[S] = IF S = {} THEN NoLot ELSE ReplaySwap(Replayed[S \ {Latest(S)}], Latest(S))
<1>1. Replayed = CHOOSE f : IsReplay(f)
  BY DEF Replayed, IsReplay
<1>2. IsReplay(Replayed)
  BY <1>1, ReplayExists, Zenon
<1>3. PICK f : f = Replayed /\ IsReplay(f)
  BY <1>2
<1>4. f[S] = IF S = {} THEN NoLot ELSE ReplaySwap(f[S \ {Latest(S)}], Latest(S))
  BY <1>3, Zenon DEF IsReplay
<1> QED BY <1>3, <1>4, Zenon

(* A later swap finds what the others left.                                *)
LEMMA ReplayGrows ==
  ASSUME NEW S \in SUBSET Deals, NEW t \in Deals, \A u \in S : u.day < t.day
  PROVE  t \notin S /\ Replayed[S \cup {t}] = ReplaySwap(Replayed[S], t)
<1>1. t.day \in Nat
  BY DealFacts
<1>2. t \notin S
  BY <1>1
<1>3. PICK T \in SUBSET Deals : T = S \cup {t}
  OBVIOUS
<1>4. Latest(T) = t
  <2>1. Latest(T) \in T /\ t.day <= Latest(T).day
    BY <1>3, LatestIs
  <2>2. Latest(T) \notin S
    <3> SUFFICES ASSUME Latest(T) \in S PROVE FALSE
      OBVIOUS
    <3>1. Latest(T).day < t.day /\ Latest(T).day \in Nat
      BY DealFacts
    <3> QED BY <1>1, <2>1, <3>1
  <2> QED BY <1>3, <2>1, <2>2
<1>5. T \ {Latest(T)} = S /\ T # {}
  BY <1>2, <1>3, <1>4
<1>6. Replayed[T] = ReplaySwap(Replayed[T \ {Latest(T)}], Latest(T))
  BY <1>5, ReplayedIs, Zenon
<1>7. Replayed[T] = ReplaySwap(Replayed[S], t)
  BY <1>4, <1>5, <1>6, Zenon
<1> QED BY <1>2, <1>3, <1>7, Zenon


(* The sums over a set with one swap more.                                 *)
LEMMA TotalsAre ==
  ASSUME NEW S \in SUBSET Deals
  PROVE  /\ Raw(S) = TotalOf([u \in Deals |-> u.raw], S)
         /\ Usd(S) = TotalOf([u \in Deals |-> StoredUsd(u)], S)
<1>1. IsFiniteSet(S)
  BY SwapSets
<1>2. PICK f, g : f = [u \in S |-> u.raw] /\ g = [u \in Deals |-> u.raw]
  OBVIOUS
<1>3. DOMAIN f = S /\ \A u \in S : f[u] = g[u]
  BY <1>2
<1>4. TotalOf(f, S) = TotalOf(g, S)
  BY <1>1, <1>3, TotalSame
<1>5. PICK k, l : k = [u \in S |-> StoredUsd(u)] /\ l = [u \in Deals |-> StoredUsd(u)]
  OBVIOUS
<1>6. DOMAIN k = S /\ \A u \in S : k[u] = l[u]
  BY <1>5
<1>7. TotalOf(k, S) = TotalOf(l, S)
  BY <1>1, <1>6, TotalSame
<1>8. Raw(S) = TotalOf(f, S)
  BY <1>2, <1>3, Zenon DEF Raw, SumFunction, TotalOf
<1>9. Usd(S) = TotalOf(k, S)
  BY <1>5, <1>6, Zenon DEF Usd, SumFunction, TotalOf
<1> QED BY <1>2, <1>4, <1>5, <1>7, <1>8, <1>9

LEMMA TotalGrows ==
  ASSUME NEW S \in SUBSET Deals, NEW t \in Deals, t \notin S
  PROVE  /\ Raw(S) \in Int /\ Raw(S \cup {t}) = Raw(S) + t.raw
         /\ Usd(S) \in Int /\ Usd(S \cup {t}) = Usd(S) + StoredUsd(t)
<1>1. PICK f : f = [u \in Deals |-> u.raw]
  OBVIOUS
<1>2. PICK g : g = [u \in Deals |-> StoredUsd(u)]
  OBVIOUS
<1>3. \A u \in S \cup {t} : f[u] \in Int /\ g[u] \in Int
  <2> TAKE u \in S \cup {t}
  <2>1. u \in Deals /\ u.raw \in Nat /\ StoredUsd(u) \in Nat
    BY DealFacts
  <2> QED BY <1>1, <1>2, <2>1
<1>4. IsFiniteSet(S)
  BY SwapSets
<1>5. TotalOf(f, S) \in Int /\ TotalOf(f, S \cup {t}) = f[t] + TotalOf(f, S)
  BY <1>3, <1>4, TotalMore
<1>6. TotalOf(g, S) \in Int /\ TotalOf(g, S \cup {t}) = g[t] + TotalOf(g, S)
  BY <1>3, <1>4, TotalMore
<1>7. S \cup {t} \in SUBSET Deals /\ f[t] = t.raw /\ g[t] = StoredUsd(t) /\ t.raw \in Nat /\ StoredUsd(t) \in Nat
  BY <1>1, <1>2, DealFacts
<1>8. /\ Raw(S) = TotalOf(f, S) /\ Raw(S \cup {t}) = TotalOf(f, S \cup {t})
      /\ Usd(S) = TotalOf(g, S) /\ Usd(S \cup {t}) = TotalOf(g, S \cup {t})
  BY <1>1, <1>2, <1>7, TotalsAre, Zenon
<1>9. PICK r \in Int, w \in Int, a \in Int, b \in Int :
        r = TotalOf(f, S) /\ w = TotalOf(g, S) /\ a = f[t] /\ b = g[t]
  BY <1>5, <1>6, <1>7
<1>10. a + r = r + a /\ b + w = w + b
  OBVIOUS
<1>11. /\ Raw(S) = r /\ Raw(S \cup {t}) = a + r /\ a = t.raw
       /\ Usd(S) = w /\ Usd(S \cup {t}) = b + w /\ b = StoredUsd(t)
  BY <1>5, <1>6, <1>7, <1>8, <1>9, Zenon
<1> QED BY <1>10, <1>11, Zenon

LEMMA NoTotal == Raw({}) = 0 /\ Usd({}) = 0
  BY TotalNone, TotalsAre

LEMMA TotalIsInt == ASSUME NEW S \in SUBSET Deals PROVE Raw(S) \in Int /\ Usd(S) \in Int
<1>1. IsFiniteSet(S) /\ \A u \in S : u.raw \in Nat /\ StoredUsd(u) \in Nat
  BY SwapSets, DealFacts
<1>2. PICK f, g : f = [u \in Deals |-> u.raw] /\ g = [u \in Deals |-> StoredUsd(u)]
  OBVIOUS
<1>3. \A u \in S : f[u] \in Int /\ g[u] \in Int
  BY <1>1, <1>2
<1>4. TotalOf(f, S) \in Int /\ TotalOf(g, S) \in Int
  BY <1>1, <1>3, TotalTyped
<1> QED BY <1>2, <1>4, TotalsAre

LEMMA NothingHeld == HeldOf({}) = 0 /\ NetOf({}) = 0
<1>1. Side({}, TRUE) = {} /\ Side({}, FALSE) = {}
  BY DEF Side
<1>2. HeldOf({}) = Raw({}) - Raw({}) /\ NetOf({}) = Usd({}) - Usd({})
  BY <1>1, Zenon DEF HeldOf, NetOf
<1>3. 0 - 0 = 0
  OBVIOUS
<1> QED BY <1>2, <1>3, NoTotal, Zenon

LEMMA HeldGrows ==
  ASSUME NEW S \in SUBSET Deals, NEW t \in Deals, t \notin S
  PROVE  /\ HeldOf(S) \in Int /\ HeldOf(S \cup {t}) = HeldOf(S) + (IF t.buys THEN t.raw ELSE -t.raw)
         /\ NetOf(S) \in Int /\ NetOf(S \cup {t}) = NetOf(S) + (IF t.buys THEN -StoredUsd(t) ELSE StoredUsd(t))
<1>1. PICK B \in SUBSET Deals, C \in SUBSET Deals : B = Side(S, TRUE) /\ C = Side(S, FALSE)
  BY DEF Side
<1>2. PICK a \in Int, b \in Int, c \in Int, d \in Int : a = Raw(B) /\ b = Raw(C) /\ c = Usd(B) /\ d = Usd(C)
  BY TotalIsInt
<1>3. PICK r \in Nat, w \in Nat : r = t.raw /\ w = StoredUsd(t)
  BY DealFacts
<1>4. HeldOf(S) = a - b /\ NetOf(S) = d - c
  BY <1>1, <1>2 DEF HeldOf, NetOf
<1>5. t \notin B /\ t \notin C
  BY <1>1 DEF Side
<1>6. CASE t.buys
  <2>1. Side(S \cup {t}, TRUE) = B \cup {t} /\ Side(S \cup {t}, FALSE) = C
    BY <1>1, <1>6 DEF Side
  <2>2. Raw(B \cup {t}) = a + r /\ Usd(B \cup {t}) = c + w
    BY <1>2, <1>3, <1>5, TotalGrows
  <2>3. HeldOf(S \cup {t}) = (a + r) - b /\ NetOf(S \cup {t}) = d - (c + w)
    BY <1>2, <2>1, <2>2, Zenon DEF HeldOf, NetOf
  <2> QED BY <1>3, <1>4, <1>6, <2>3
<1>7. CASE ~t.buys
  <2>1. t.buys = FALSE
    BY <1>7, DealFacts
  <2>2. Side(S \cup {t}, TRUE) = B /\ Side(S \cup {t}, FALSE) = C \cup {t}
    BY <1>1, <2>1 DEF Side
  <2>3. Raw(C \cup {t}) = b + r /\ Usd(C \cup {t}) = d + w
    BY <1>2, <1>3, <1>5, TotalGrows
  <2>4. HeldOf(S \cup {t}) = a - (b + r) /\ NetOf(S \cup {t}) = (d + w) - c
    BY <1>2, <2>2, <2>3, Zenon DEF HeldOf, NetOf
  <2> QED BY <1>3, <1>4, <1>7, <2>4
<1> QED BY <1>6, <1>7

(***************************************************************************)
(* One swap of what is held.                                               *)
(***************************************************************************)
FullLot == [held : Nat, cost : Nat, realized : Int]

PartCost(lot, t) == (t.raw * lot.cost) \div lot.held

LEMMA PartCostIs ==
  ASSUME NEW lot \in FullLot, NEW t \in Deals, t.raw <= lot.held, lot.held > 0
  PROVE  PartCost(lot, t) \in Nat /\ PartCost(lot, t) <= lot.cost
<1>1. PICK n \in Nat \ {0}, b \in Nat, w \in Nat : n = lot.held /\ b = lot.cost /\ w = t.raw /\ w <= n
  BY DealFacts DEF FullLot
<1>2. PICK x \in Nat : x = w * b
  OBVIOUS
<1>3. x <= b * n
  BY <1>1, <1>2
<1>4. PICK d \in Nat : d = x \div n /\ n * d <= x
  OBVIOUS
<1>5. d <= b
  <2> SUFFICES ASSUME d > b PROVE FALSE
    OBVIOUS
  <2>1. n * (b + 1) <= n * d /\ n * (b + 1) = b * n + n
    OBVIOUS
  <2> QED BY <1>3, <1>4, <2>1
<1>6. PartCost(lot, t) = d
  BY <1>1, <1>2, <1>4 DEF PartCost
<1> QED BY <1>1, <1>4, <1>5, <1>6

LEMMA SwapIs ==
  ASSUME NEW lot \in FullLot, NEW t \in Deals, t.buys \/ t.raw <= lot.held
  PROVE  /\ ReplaySwap(lot, t) \in FullLot
         /\ t.buys => ReplaySwap(lot, t) = [held |-> lot.held + t.raw, cost |-> lot.cost + StoredUsd(t),
                                            realized |-> lot.realized]
         /\ ~t.buys /\ lot.held = 0 => ReplaySwap(lot, t) = lot
         /\ ~t.buys /\ lot.held > 0 =>
              ReplaySwap(lot, t) = [held |-> lot.held - t.raw, cost |-> lot.cost - PartCost(lot, t),
                                    realized |-> lot.realized + StoredUsd(t) - PartCost(lot, t)]
<1>1. PICK n \in Nat, b \in Nat, p \in Int : n = lot.held /\ b = lot.cost /\ p = lot.realized
      /\ lot = [held |-> n, cost |-> b, realized |-> p]
  BY DEF FullLot
<1>2. PICK r \in Nat, w \in Nat : r = t.raw /\ w = StoredUsd(t)
  BY DealFacts
<1>3. CASE t.buys
  <2>1. ReplaySwap(lot, t) = Bought(lot, t)
    BY <1>3, Zenon DEF ReplaySwap
  <2>2. Bought(lot, t) = [held |-> n + r, cost |-> b + w, realized |-> p]
    BY <1>1, <1>2, Zenon DEF Bought
  <2>3. [held |-> n + r, cost |-> b + w, realized |-> p] \in FullLot
    BY DEF FullLot
  <2>4. ReplaySwap(lot, t) = [held |-> lot.held + t.raw, cost |-> lot.cost + StoredUsd(t),
                              realized |-> lot.realized]
    BY <1>1, <1>2, <2>1, <2>2, Zenon
  <2> QED BY <1>3, <2>1, <2>2, <2>3, <2>4, Zenon
<1>4. CASE ~t.buys /\ n = 0
  <2>1. ReplaySwap(lot, t) = lot
    BY <1>1, <1>4 DEF ReplaySwap
  <2> QED BY <1>1, <1>4, <2>1
<1>5. CASE ~t.buys /\ n > 0
  <2>1. r <= n
    BY <1>1, <1>2, <1>5
  <2>2. PICK c \in Nat : c = PartCost(lot, t) /\ c <= b
    BY <1>1, <1>2, <1>5, <2>1, PartCostIs
  <2>3. c = (r * b) \div n
    BY <1>1, <1>2, <2>2 DEF PartCost
  <2>4. PICK s \in Nat : s = (IF r < n THEN r ELSE n) /\ s = r
    BY <2>1
  <2>5. ReplaySwap(lot, t) = [held |-> AtLeast0(n - s), cost |-> AtLeast0(b - (s * b) \div n),
                              realized |-> p + w - (s * b) \div n]
    BY <1>1, <1>2, <1>5, <2>4 DEF ReplaySwap
  <2>6. ReplaySwap(lot, t) = [held |-> AtLeast0(n - r), cost |-> AtLeast0(b - c), realized |-> p + w - c]
    BY <2>3, <2>4, <2>5
  <2>7. AtLeast0(n - r) = n - r /\ AtLeast0(b - c) = b - c /\ n - r \in Nat /\ b - c \in Nat
    BY <2>1, <2>2 DEF AtLeast0
  <2> QED BY <1>1, <1>2, <1>5, <2>2, <2>6, <2>7 DEF FullLot
<1> QED BY <1>1, <1>3, <1>4, <1>5

(* All that was sold before had been bought.                               *)
LEMMA EarlierBought ==
  ASSUME NEW S \in SUBSET Deals, NEW t \in Deals, \A u \in S : u.day < t.day, BoughtAll(S \cup {t})
  PROVE  BoughtAll(S) /\ HeldOf(S \cup {t}) >= 0
<1>1. t.day \in Nat /\ \A u \in S : u.day \in Nat /\ u.day <= t.day
  BY DealFacts
<1>2. UpTo(S \cup {t}, t) = S \cup {t}
  BY <1>1 DEF UpTo
<1>3. \A u \in S : UpTo(S \cup {t}, u) = UpTo(S, u)
  BY <1>1 DEF UpTo
<1> QED BY <1>2, <1>3, Zenon DEF BoughtAll

(* What the replay of swaps that sell nothing unbought ends with.          *)
LotIsRight(S) ==
  /\ Replayed[S] \in FullLot /\ Replayed[S].held = HeldOf(S)
  /\ Replayed[S].realized - Replayed[S].cost = NetOf(S)

LEMMA ReplayIsRight ==
  ASSUME NEW S \in SUBSET Deals, Untied(S), BoughtAll(S)
  PROVE  LotIsRight(S)
<1> DEFINE Bad == {n \in Nat : \E T \in SUBSET Deals :
                     Cardinality(T) = n /\ Untied(T) /\ BoughtAll(T) /\ ~LotIsRight(T)}
<1>1. Bad = {}
  <2> SUFFICES ASSUME Bad # {} PROVE FALSE
    OBVIOUS
  <2>1. PICK n \in Bad : \A m \in Bad : n <= m
    <3>1. Bad \in SUBSET Nat
      OBVIOUS
    <3> HIDE DEF Bad
    <3> QED BY <3>1, LeastOf
  <2>2. PICK T \in SUBSET Deals : Cardinality(T) = n /\ Untied(T) /\ BoughtAll(T) /\ ~LotIsRight(T)
    OBVIOUS
  <2>3. CASE T = {}
    <3>1. Replayed[T] = NoLot
      BY <2>3, ReplayedIs, Zenon
    <3>2. HeldOf(T) = 0 /\ NetOf(T) = 0
      BY <2>3, NothingHeld
    <3>3. LotIsRight(T)
      BY <3>1, <3>2 DEF LotIsRight, NoLot, FullLot
    <3> QED BY <2>2, <3>3
  <2>4. CASE T # {}
    <3>1. PICK t \in T : t = Latest(T) /\ \A u \in T : u.day <= t.day
      BY <2>4, LatestIs
    <3>2. PICK R \in SUBSET Deals : R = T \ {t}
      BY <2>2
    <3>3. T = R \cup {t} /\ t \in Deals /\ t \notin R /\ \A u \in R : u.day < t.day
      <4>1. T = R \cup {t} /\ t \in Deals /\ t \notin R
        BY <3>1, <3>2
      <4>2. ASSUME NEW u \in R PROVE u.day < t.day
        <5>1. u \in T /\ u # t /\ u.day <= t.day
          BY <3>1, <3>2
        <5>2. u.day # t.day
          BY <2>2, <3>1, <5>1, Zenon DEF Untied
        <5> QED BY <4>1, <5>1, <5>2, DealFacts
      <4> QED BY <4>1, <4>2
    <3>4. LotIsRight(R)
      <4>1. Cardinality(R) = n - 1 /\ n \in Nat /\ n - 1 \in Nat
        <5>1. Cardinality(R) \in Nat
          BY SwapSets
        <5> QED BY <2>2, <3>1, <3>2, <5>1, SwapSets
      <4>2. ~(n <= n - 1)
        BY <4>1
      <4>3. n - 1 \notin Bad
        BY <2>1, <4>2, Zenon
      <4>4. Untied(R) /\ BoughtAll(R)
        <5>1. BoughtAll(R)
          BY <2>2, <3>3, EarlierBought
        <5> QED BY <2>2, <3>2, <5>1, Zenon DEF Untied
      <4> QED BY <4>1, <4>3, <4>4, Zenon
    <3>5. PICK lot \in FullLot : /\ lot = Replayed[R] /\ lot.held = HeldOf(R)
                                 /\ lot.realized - lot.cost = NetOf(R)
      BY <3>4 DEF LotIsRight
    <3>6. Replayed[T] = ReplaySwap(lot, t)
      BY <3>3, <3>5, ReplayGrows
    <3>7. HeldOf(T) >= 0
      BY <2>2, <3>3, EarlierBought
    <3>8. /\ HeldOf(T) = HeldOf(R) + (IF t.buys THEN t.raw ELSE -t.raw)
          /\ NetOf(T) = NetOf(R) + (IF t.buys THEN -StoredUsd(t) ELSE StoredUsd(t))
      BY <3>3, HeldGrows
    <3>9. PICK k \in Nat, b \in Nat, p \in Int, r \in Nat, w \in Nat :
            /\ k = lot.held /\ b = lot.cost /\ p = lot.realized /\ r = t.raw /\ w = StoredUsd(t)
            /\ (r = 0 => w = 0)
      BY <3>3, DealFacts DEF FullLot
    <3>10. /\ HeldOf(T) = k + (IF t.buys THEN r ELSE -r)
           /\ NetOf(T) = p - b + (IF t.buys THEN -w ELSE w)
      BY <3>5, <3>8, <3>9
    <3>11. t.buys \/ t.raw <= lot.held
      BY <3>7, <3>9, <3>10
    <3>12. PICK l : l = Replayed[T]
      OBVIOUS
    <3>13. CASE t.buys
      <4>1. l \in FullLot /\ l = [held |-> k + r, cost |-> b + w, realized |-> p]
        BY <3>3, <3>6, <3>9, <3>11, <3>12, <3>13, SwapIs
      <4>2. l.held = HeldOf(T)
        BY <3>9, <3>10, <3>13, <4>1
      <4>3. l.realized - l.cost = NetOf(T)
        BY <3>9, <3>10, <3>13, <4>1
      <4>4. LotIsRight(T)
        BY <3>12, <4>1, <4>2, <4>3, Zenon DEF LotIsRight
      <4> QED BY <2>2, <4>4
    <3>14. CASE ~t.buys /\ k = 0
      <4>1. l = lot
        BY <3>3, <3>6, <3>9, <3>11, <3>12, <3>14, SwapIs
      <4>2. r = 0 /\ w = 0
        BY <3>9, <3>11, <3>14
      <4>3. l \in FullLot /\ l.held = k /\ l.realized = p /\ l.cost = b
        BY <3>9, <4>1
      <4>4. HeldOf(T) = k /\ NetOf(T) = p - b
        <5>1. HeldOf(T) = k + (-r) /\ NetOf(T) = p - b + w
          BY <3>10, <3>14, Zenon
        <5>2. k + (-r) = k /\ p - b + w = p - b
          BY <4>2
        <5> QED BY <5>1, <5>2, Zenon
      <4>5. LotIsRight(T)
        BY <3>12, <4>3, <4>4, Zenon DEF LotIsRight
      <4> QED BY <2>2, <4>5
    <3>15. CASE ~t.buys /\ k > 0
      <4>1. PICK c \in Nat : c = PartCost(lot, t)
        BY <3>3, <3>9, <3>11, <3>15, PartCostIs
      <4>2. l \in FullLot /\ l = [held |-> k - r, cost |-> b - c, realized |-> p + w - c]
        BY <3>3, <3>6, <3>9, <3>11, <3>12, <3>15, <4>1, SwapIs
      <4>3. LotIsRight(T)
        BY <3>9, <3>10, <3>12, <3>15, <4>1, <4>2 DEF LotIsRight
      <4> QED BY <2>2, <4>3
    <3> QED BY <3>9, <3>13, <3>14, <3>15
  <2> QED BY <2>3, <2>4
<1>2. Cardinality(S) \in Nat
  BY SwapSets
<1> QED BY <1>1, <1>2

(***************************************************************************)
(* The chart.  Its points are those of a replay, and the live books go     *)
(* through the same lots, as long as swaps come one after the other and in *)
(* order.                                                                  *)
(***************************************************************************)
Known(S) == BoughtAll(S) /\ \A t \in S : t.priced

(* h is the handler of the swap t.                                         *)
OfDeal(h, t) ==
  /\ h.kind = IF t.buys THEN "buy" ELSE "sell"
  /\ h.raw = t.raw /\ h.usd = t.usd

BeforeCost   == {"balance", "bought", "cost", "sold", "countSale", "held", "basis", "realized", "takeCost"}
BeforeProfit == BeforeCost \ {"takeCost"}

(* From the lot l to the lot m, as far as h has come; what it has read was *)
(* of l.                                                                   *)
Midway(h, l, m, balance, cost, realized) ==
  /\ balance = IF h.at = "balance" THEN l.held ELSE m.held
  /\ cost = IF h.at \in BeforeCost THEN l.cost ELSE m.cost
  /\ realized = IF h.at \in BeforeProfit THEN l.realized ELSE m.realized
  /\ h.at \in {"basis", "realized", "takeCost"} => h.held = l.held
  /\ h.at \in {"realized", "takeCost"} => h.basis = l.cost

LastIn(S, t) == t \in S /\ \A u \in S \ {t} : u.day < t.day

(* q: the handlers, S: the swaps.                                          *)
Following(q, S, balance, cost, realized) ==
  \/ /\ \A i \in 1..Len(q) : ~Swapping(q[i])
     /\ balance = Replayed[S].held /\ cost = Replayed[S].cost /\ realized = Replayed[S].realized
  \/ \E i \in 1..Len(q), t \in S :
       /\ Swapping(q[i]) /\ OfDeal(q[i], t) /\ LastIn(S, t)
       /\ Midway(q[i], Replayed[S \ {t}], Replayed[S], balance, cost, realized)

InTurn(q, S, balance, cost, realized) ==
  /\ \A i \in 1..Len(q) : q[i].kind \in {"buy", "sell", "price"}
  /\ \A i, j \in 1..Len(q) : Swapping(q[i]) /\ Swapping(q[j]) => i = j
  /\ Untied(S)
  /\ Known(S) => Following(q, S, balance, cost, realized)

OrderInv ==
  ~diverged /\ ~muddled => InTurn(queue, dealt, Get("balance"), Get("cost"), Get("realized"))

LEMMA BalanceAfter ==
  ASSUME NEW h, Effect(h), h.at = "balance"
  PROVE  Get("balance")' = Get("balance") + (IF h.kind = "buy" THEN h.raw ELSE -h.raw)
<1>1. PICK d : d = IF h.kind = "buy" THEN h.raw ELSE -h.raw
  OBVIOUS
<1>2. Incr("balance", d)
  BY <1>1, EffectTable
<1>3. PICK n : n = Get("balance") + d /\ SetField("balance", n)
  BY <1>2, Zenon DEF Incr
<1>4. Get("balance")' = n
  BY <1>3, FieldSet
<1> QED BY <1>1, <1>3, <1>4, Zenon

LEMMA HeldRead ==
  ASSUME BookFields, NEW h \in Handler, h.at = "held", NEW k, Sends(h, k)
  PROVE  k.held = Get("balance") + h.raw
<1>1. Learnt(h) = [h EXCEPT !.held = Get("balance") + h.raw]
  BY SMT DEF Learnt
<1>2. PICK x : x = Get("balance") + h.raw
  OBVIOUS
<1>3. Learnt(h).held = x
  BY <1>1, <1>2 DEF Handler
<1> QED BY <1>2, <1>3 DEF Sends

(* What is left after a swap, in numbers: x is what was sold had cost.     *)
OneSwap(l, t, m, n, p, q, w, u) ==
  /\ l \in FullLot /\ t \in Deals /\ t.priced /\ (t.buys \/ t.raw <= l.held) /\ m = ReplaySwap(l, t)
  /\ n \in Nat /\ p \in Nat /\ q \in Int /\ w \in Nat /\ u \in Nat
  /\ n = l.held /\ p = l.cost /\ q = l.realized /\ w = t.raw /\ u = t.usd

LeftBySwap(l, t, m, n, p, q, w, u) ==
  \E x \in Int :
    /\ m.held = IF t.buys THEN n + w ELSE n - w
    /\ m.cost = IF t.buys THEN p + u ELSE p - x
    /\ m.realized = IF t.buys THEN q ELSE q + u - x
    /\ ~t.buys /\ n > 0 => x = PartCost(l, t)
    /\ ~t.buys /\ ~(n > 0) => x = 0 /\ w = 0 /\ u = 0

LEMMA SwapInNumbers ==
  ASSUME NEW l, NEW t, NEW m, NEW n, NEW p, NEW q, NEW w, NEW u, OneSwap(l, t, m, n, p, q, w, u)
  PROVE  LeftBySwap(l, t, m, n, p, q, w, u)
<1> SUFFICES \E x \in Int :
               /\ m.held = IF t.buys THEN n + w ELSE n - w
               /\ m.cost = IF t.buys THEN p + u ELSE p - x
               /\ m.realized = IF t.buys THEN q ELSE q + u - x
               /\ ~t.buys /\ n > 0 => x = PartCost(l, t)
               /\ ~t.buys /\ ~(n > 0) => x = 0 /\ w = 0 /\ u = 0
  BY Zenon DEF LeftBySwap
<1> USE DEF OneSwap
<1>1. u = StoredUsd(t) /\ (w = 0 => u = 0)
  BY DealFacts
<1>2. CASE t.buys
  <2>1. m = [held |-> n + w, cost |-> p + u, realized |-> q]
    BY <1>1, <1>2, SwapIs
  <2>2. m.held = n + w /\ m.cost = p + u /\ m.realized = q /\ 0 \in Int
    BY <2>1
  <2> QED BY <1>2, <2>2, Zenon
<1>3. CASE ~t.buys /\ n = 0
  <2>1. m = l
    BY <1>3, SwapIs
  <2>2. w = 0 /\ u = 0
    BY <1>1, <1>3
  <2>3. m.held = n - w /\ m.cost = p - 0 /\ m.realized = q + u - 0
    BY <2>1, <2>2
  <2>4. ~(n > 0) /\ 0 \in Int
    BY <1>3
  <2> QED BY <1>3, <2>2, <2>3, <2>4, Zenon
<1>4. CASE ~t.buys /\ n > 0
  <2>1. PICK x \in Nat : x = PartCost(l, t)
    BY <1>4, PartCostIs
  <2>2. m = [held |-> n - w, cost |-> p - x, realized |-> q + u - x]
    BY <1>1, <1>4, <2>1, SwapIs
  <2>3. m.held = n - w /\ m.cost = p - x /\ m.realized = q + u - x /\ x \in Int
    BY <2>1, <2>2
  <2> QED BY <1>4, <2>1, <2>3, Zenon
<1> QED BY <1>2, <1>3, <1>4

(* A command of the handler takes the books on from l to m.                *)
LEMMA MidwayMoves ==
  ASSUME BookInv, NEW h \in Handler, Routed(h), Effect(h), NEW t \in Deals, OfDeal(h, t), t.priced,
         NEW l \in FullLot, t.buys \/ t.raw <= l.held, NEW m, m = ReplaySwap(l, t),
         Midway(h, l, m, Get("balance"), Get("cost"), Get("realized"))
  PROVE  /\ Ends(h) => /\ Get("balance")' = m.held /\ Get("cost")' = m.cost
                       /\ Get("realized")' = m.realized
         /\ \A k : ~Ends(h) /\ Sends(h, k) => Midway(k, l, m, Get("balance")', Get("cost")', Get("realized")')
<1>1. PICK b \in Int, c \in Int, r \in Int : b = Get("balance") /\ c = Get("cost") /\ r = Get("realized")
  BY GetIsInt DEF BookInv
<1>2. PICK n \in Nat, p \in Nat, q \in Int : n = l.held /\ p = l.cost /\ q = l.realized
  BY DEF FullLot
<1>3. PICK w \in Nat, u \in Nat : w = t.raw /\ u = t.usd /\ h.raw = w /\ h.usd = u
  BY DealFacts DEF OfDeal
<1>4. PICK x \in Int :
        /\ m.held = IF t.buys THEN n + w ELSE n - w
        /\ m.cost = IF t.buys THEN p + u ELSE p - x
        /\ m.realized = IF t.buys THEN q ELSE q + u - x
        /\ ~t.buys /\ n > 0 => x = PartCost(l, t)
        /\ ~t.buys /\ ~(n > 0) => x = 0 /\ w = 0 /\ u = 0
  <2>1. OneSwap(l, t, m, n, p, q, w, u)
    BY <1>2, <1>3, Zenon DEF OneSwap
  <2>2. LeftBySwap(l, t, m, n, p, q, w, u)
    BY <2>1, SwapInNumbers, Zenon
  <2> QED BY <2>2, Zenon DEF LeftBySwap
<1>5. PICK n2 \in Int, p2 \in Int, q2 \in Int : n2 = m.held /\ p2 = m.cost /\ q2 = m.realized
  BY <1>4
<1>6. /\ b = IF h.at = "balance" THEN n ELSE n2
      /\ c = IF h.at \in BeforeCost THEN p ELSE p2
      /\ r = IF h.at \in BeforeProfit THEN q ELSE q2
      /\ h.at \in {"basis", "realized", "takeCost"} => h.held = n
      /\ h.at \in {"realized", "takeCost"} => h.basis = p
  BY <1>1, <1>2, <1>5, Zenon DEF Midway
<1>7. h.at \notin {"set", "delete", "top", "all", "unrealized"} /\ (h.kind = "buy" <=> t.buys)
      /\ (t.buys => h.at \in Buying) /\ (~t.buys => h.at \in Selling)
  BY DEF OfDeal, Routed, OnRoute, Buying, Selling, Swapped
<1>8. h.at \in {"realized", "takeCost"} => CostOfSold(h) = x /\ n > 0
  <2> SUFFICES ASSUME h.at \in {"realized", "takeCost"} PROVE CostOfSold(h) = x /\ n > 0
    OBVIOUS
  <2>1. n > 0 /\ ~t.buys
    BY <1>6, <1>7 DEF Routed, Buying, Swapped
  <2>2. CostOfSold(h) = (p * w) \div n /\ PartCost(l, t) = (w * p) \div n
    BY <1>2, <1>3, <1>6 DEF CostOfSold, PartCost
  <2>3. p * w = w * p
    OBVIOUS
  <2> QED BY <1>4, <2>1, <2>2, <2>3
<1>9. PICK b2, c2, r2 : b2 = Get("balance")' /\ c2 = Get("cost")' /\ r2 = Get("realized")'
  OBVIOUS
<1>10. /\ b2 = IF h.at = "balance" THEN n2 ELSE b
       /\ c2 = IF h.at = "cost" THEN c + u ELSE IF h.at = "takeCost" THEN c - x ELSE c
       /\ r2 = IF h.at = "realized" THEN r + (u - x) ELSE r
  <2>1. /\ h.at # "balance" => b2 = b
        /\ c2 = IF h.at = "cost" THEN c + h.usd
                ELSE IF h.at = "takeCost" THEN c + -CostOfSold(h) ELSE c
        /\ r2 = IF h.at = "realized" THEN r + (h.usd - CostOfSold(h)) ELSE r
    BY <1>1, <1>7, <1>9, FieldsAfter DEF BookInv
  <2>2. h.at = "balance" => b2 = b + (IF h.kind = "buy" THEN w ELSE -w)
    BY <1>1, <1>3, <1>9, BalanceAfter
  <2>3. h.at = "balance" => b2 = n2
    BY <1>4, <1>5, <1>6, <1>7, <2>2
  <2>4. h.at = "takeCost" => c2 = c - x
    BY <1>8, <2>1
  <2> QED BY <1>3, <1>8, <2>1, <2>3, <2>4
<1>11. CASE Ends(h)
  <2>1. h.at = "keepRanking"
    BY <1>7, <1>11, LastCommands DEF Ends, OfDeal
  <2>2. b2 = n2 /\ c2 = p2 /\ r2 = q2
    BY <1>6, <1>10, <2>1 DEF BeforeCost, BeforeProfit
  <2>3. b2 = m.held /\ c2 = m.cost /\ r2 = m.realized
    BY <1>5, <2>2
  <2> QED BY <1>9, <1>11, <2>3
<1>12. ASSUME NEW k, ~Ends(h), Sends(h, k)
       PROVE  Midway(k, l, m, b2, c2, r2)
  <2>1. h.at # "keepRanking"
    BY <1>12, <1>7, LastCommands DEF Ends, OfDeal
  <2>2. /\ b2 = IF k.at = "balance" THEN n ELSE n2
        /\ c2 = IF k.at \in BeforeCost THEN p ELSE p2
        /\ r2 = IF k.at \in BeforeProfit THEN q ELSE q2
        /\ k.at \in {"basis", "realized", "takeCost"} => k.held = n
        /\ k.at \in {"realized", "takeCost"} => k.basis = p
    <3>1. CASE h.at \in Swapped
      <4>1. k.at \in Swapped
        BY <1>12, <2>1, <3>1, SendsTable DEF BookInv, Swapped, OfDeal
      <4> QED BY <1>6, <1>10, <3>1, <4>1 DEF Swapped, BeforeCost, BeforeProfit
    <3>2. CASE h.at = "balance"
      <4>1. k.at \in {"bought", "sold"}
        BY <1>12, <3>2, SendsTable DEF BookInv
      <4> QED BY <1>6, <1>10, <3>2, <4>1 DEF BeforeCost, BeforeProfit
    <3>3. CASE h.at \in {"bought", "sold"}
      <4>1. k.at \in {"cost", "countSale"}
        BY <1>12, <3>3, SendsTable DEF BookInv
      <4> QED BY <1>6, <1>10, <3>3, <4>1 DEF BeforeCost, BeforeProfit
    <3>4. CASE h.at = "cost"
      <4>1. k.at = "count" /\ t.buys
        BY <1>7, <1>12, <3>4, SendsTable DEF BookInv, Selling, Swapped
      <4> QED BY <1>4, <1>5, <1>6, <1>10, <3>4, <4>1 DEF BeforeCost, BeforeProfit
    <3>5. CASE h.at = "count"
      <4>1. k.at = "transactions"
        BY <1>12, <3>5, SendsTable DEF BookInv
      <4> QED BY <1>6, <1>10, <3>5, <4>1 DEF BeforeCost, BeforeProfit
    <3>6. CASE h.at = "countSale"
      <4>1. k.at = "held"
        BY <1>12, <3>6, SendsTable DEF BookInv
      <4> QED BY <1>6, <1>10, <3>6, <4>1 DEF BeforeCost, BeforeProfit
    <3>7. CASE h.at = "held"
      <4>1. k.at = "basis" /\ ~t.buys /\ k.held = b + w
        BY <1>1, <1>3, <1>7, <1>12, <3>7, SendsTable, HeldRead DEF BookInv, Buying, Swapped
      <4> QED BY <1>4, <1>5, <1>6, <1>10, <3>7, <4>1 DEF BeforeCost, BeforeProfit
    <3>8. CASE h.at = "basis"
      <4>1. /\ k.at = IF n > 0 THEN "realized" ELSE "transactions"
            /\ k.basis = c /\ k.held = n /\ ~t.buys
        BY <1>1, <1>6, <1>7, <1>12, <3>8, SendsTable DEF BookInv, Buying, Swapped
      <4> QED BY <1>4, <1>5, <1>6, <1>10, <3>8, <4>1 DEF BeforeCost, BeforeProfit
    <3>9. CASE h.at = "realized"
      <4>1. k.at = "takeCost" /\ k.held = h.held /\ k.basis = h.basis /\ ~t.buys
        BY <1>7, <1>12, <3>9, SendsTable DEF BookInv, Buying, Swapped
      <4> QED BY <1>4, <1>5, <1>6, <1>10, <3>9, <4>1 DEF BeforeCost, BeforeProfit
    <3>10. CASE h.at = "takeCost"
      <4>1. k.at = "transactions" /\ ~t.buys
        BY <1>7, <1>12, <3>10, SendsTable DEF BookInv, Buying, Swapped
      <4> QED BY <1>4, <1>5, <1>6, <1>10, <3>10, <4>1 DEF BeforeCost, BeforeProfit
    <3> QED BY <1>7, <3>1, <3>2, <3>3, <3>4, <3>5, <3>6, <3>7, <3>8, <3>9, <3>10 DEF Buying, Selling
  <2> QED BY <1>2, <1>5, <2>2, Zenon DEF Midway
<1> QED BY <1>9, <1>11, <1>12

(* The lots before and after the last swap.                                *)
LEMMA LastSwap ==
  ASSUME NEW S \in SUBSET Deals, Untied(S), Known(S), NEW t, LastIn(S, t)
  PROVE  /\ t \in Deals /\ t.priced /\ Replayed[S \ {t}] \in FullLot
         /\ Replayed[S] = ReplaySwap(Replayed[S \ {t}], t)
         /\ t.buys \/ t.raw <= Replayed[S \ {t}].held
<1>1. t \in Deals /\ t.priced /\ BoughtAll(S) /\ t \in S
  BY DEF LastIn, Known
<1>2. PICK R \in SUBSET Deals : R = S \ {t} /\ S = R \cup {t} /\ t \notin R
  <2>1. S \ {t} \in SUBSET Deals /\ S = (S \ {t}) \cup {t} /\ t \notin S \ {t}
    BY <1>1
  <2> QED BY <2>1, Zenon
<1>3. \A u \in R : u.day < t.day
  BY <1>2 DEF LastIn
<1>4. BoughtAll(R) /\ HeldOf(S) >= 0
  BY <1>1, <1>2, <1>3, EarlierBought
<1>5. Untied(R)
  BY <1>2, Zenon DEF Untied
<1>6. LotIsRight(R)
  BY <1>4, <1>5, ReplayIsRight
<1>7. Replayed[S] = ReplaySwap(Replayed[R], t)
  <2>1. Replayed[R \cup {t}] = ReplaySwap(Replayed[R], t)
    BY <1>1, <1>3, ReplayGrows, Zenon
  <2> QED BY <1>2, <2>1, Zenon
<1>8. PICK lot \in FullLot : lot = Replayed[R] /\ lot.held = HeldOf(R)
  BY <1>6 DEF LotIsRight
<1>9. HeldOf(S) = lot.held + (IF t.buys THEN t.raw ELSE -t.raw) /\ lot.held \in Nat /\ t.raw \in Nat
  BY <1>1, <1>2, <1>8, HeldGrows, DealFacts DEF FullLot
<1>10. t.buys \/ t.raw <= lot.held
  BY <1>4, <1>9
<1> QED BY <1>1, <1>2, <1>7, <1>8, <1>10

(* What is in the queue once its head is answered.                         *)
LEMMA AnsweredInTurn ==
  ASSUME BookInv, NEW h, Answered(h), NEW S, NEW b, NEW c, NEW r, InTurn(queue, S, b, c, r)
  PROVE  /\ \A i \in 1..Len(queue') : queue'[i].kind \in {"buy", "sell", "price"}
         /\ \A i, j \in 1..Len(queue') : Swapping(queue'[i]) /\ Swapping(queue'[j]) => i = j
         /\ \A i \in 1..Len(queue') : Swapping(queue'[i]) =>
               (i + 1 \in 1..Len(queue) /\ queue'[i] = queue[i + 1]) \/ (Swapping(h) /\ ~Ends(h))
<1>1. PICK n \in Nat : n = Len(queue) /\ n >= 1 /\ h = queue[1] /\ 1 \in 1..n
  BY DEF BookInv, Answered
<1>2. ASSUME NEW i \in 1..Len(queue')
      PROVE  \E s \in 1..n : /\ queue'[i].kind = queue[s].kind
                             /\ (s = i + 1 /\ queue'[i] = queue[s]) \/ (s = 1 /\ i = n /\ ~Ends(h))
  BY <1>1, WhereFrom DEF Sends
<1>3. \A s \in 1..n : queue[s].kind \in {"buy", "sell", "price"}
  BY <1>1 DEF InTurn
<1>4. \A s, u \in 1..n : Swapping(queue[s]) /\ Swapping(queue[u]) => s = u
  BY <1>1, Zenon DEF InTurn
<1>5. ASSUME NEW i \in 1..Len(queue') PROVE queue'[i].kind \in {"buy", "sell", "price"}
  BY <1>2, <1>3
<1>6. ASSUME NEW i \in 1..Len(queue'), NEW j \in 1..Len(queue'), Swapping(queue'[i]), Swapping(queue'[j])
      PROVE  i = j
  <2>1. PICK s \in 1..n : queue'[i].kind = queue[s].kind /\ (s = i + 1 \/ (s = 1 /\ i = n))
    BY <1>2
  <2>2. PICK u \in 1..n : queue'[j].kind = queue[u].kind /\ (u = j + 1 \/ (u = 1 /\ j = n))
    BY <1>2
  <2>3. s = u
    BY <1>4, <1>6, <2>1, <2>2 DEF Swapping
  <2> QED BY <1>1, <2>1, <2>2, <2>3
<1>7. ASSUME NEW i \in 1..Len(queue'), Swapping(queue'[i])
      PROVE  (i + 1 \in 1..Len(queue) /\ queue'[i] = queue[i + 1]) \/ (Swapping(h) /\ ~Ends(h))
  <2>1. PICK s \in 1..n : /\ queue'[i].kind = queue[s].kind
                          /\ (s = i + 1 /\ queue'[i] = queue[s]) \/ (s = 1 /\ i = n /\ ~Ends(h))
    BY <1>2
  <2> QED BY <1>1, <1>7, <2>1 DEF Swapping
<1> QED BY <1>5, <1>6, <1>7

LEMMA ExecInTurn ==
  ASSUME BookInv, queue # <<>>, Exec(Head(queue)),
         InTurn(queue, dealt, Get("balance"), Get("cost"), Get("realized"))
  PROVE  InTurn(queue', dealt, Get("balance")', Get("cost")', Get("realized")')
<1>1. PICK h : h = Head(queue)
  OBVIOUS
<1>2. Answered(h) /\ h \in Handler /\ Routed(h)
  BY <1>1, ExecIsAnswer
<1>3. Effect(h)
  BY <1>1, Zenon DEF Exec
<1>4. PICK b, c, r : b = Get("balance") /\ c = Get("cost") /\ r = Get("realized")
  OBVIOUS
<1>5. PICK b2, c2, r2 : b2 = Get("balance")' /\ c2 = Get("cost")' /\ r2 = Get("realized")'
  OBVIOUS
<1>6. InTurn(queue, dealt, b, c, r)
  BY <1>4
<1>7. /\ \A i \in 1..Len(queue') : queue'[i].kind \in {"buy", "sell", "price"}
      /\ \A i, j \in 1..Len(queue') : Swapping(queue'[i]) /\ Swapping(queue'[j]) => i = j
      /\ \A i \in 1..Len(queue') : Swapping(queue'[i]) =>
           (i + 1 \in 1..Len(queue) /\ queue'[i] = queue[i + 1]) \/ (Swapping(h) /\ ~Ends(h))
  BY <1>2, <1>6, AnsweredInTurn
<1>8. PICK n \in Nat : /\ n = Len(queue) /\ n >= 1 /\ h = queue[1] /\ 1 \in 1..n
                       /\ Len(queue') = IF Ends(h) THEN n - 1 ELSE n
  BY <1>2 DEF Answered, BookInv
<1>9. h.kind \in {"buy", "sell", "price"} /\ dealt \in SUBSET Deals /\ Untied(dealt)
  BY <1>6, <1>8 DEF InTurn, BookInv
<1>10. \A i, j \in 1..n : Swapping(queue[i]) /\ Swapping(queue[j]) => i = j
  BY <1>6, <1>8, Zenon DEF InTurn
<1>11. ASSUME Known(dealt) PROVE Following(queue', dealt, b2, c2, r2)
  <2>1. Following(queue, dealt, b, c, r)
    BY <1>6, <1>11, Zenon DEF InTurn
  <2>2. CASE ~Swapping(h)
    <3>1. b2 = b /\ c2 = c /\ r2 = r
      <4>1. h.at \in {"top", "all", "unrealized"}
        BY <1>2, <1>9, <2>2 DEF Routed, OnRoute, Swapping
      <4> QED BY <1>2, <1>3, <1>4, <1>5, <4>1, FieldsAfter DEF BookInv
    <3>2. CASE \A i \in 1..Len(queue) : ~Swapping(queue[i])
      <4>1. \A i \in 1..Len(queue') : ~Swapping(queue'[i])
        BY <1>7, <2>2, <3>2
      <4>2. ~\E i \in 1..Len(queue) : Swapping(queue[i])
        BY <3>2
      <4>3. b2 = Replayed[dealt].held /\ c2 = Replayed[dealt].cost /\ r2 = Replayed[dealt].realized
        BY <2>1, <3>1, <4>2, Zenon DEF Following
      <4> QED BY <4>1, <4>3, Zenon DEF Following
    <3>3. CASE ~\A i \in 1..Len(queue) : ~Swapping(queue[i])
      <4>1. PICK i \in 1..n, t \in dealt :
              /\ Swapping(queue[i]) /\ OfDeal(queue[i], t) /\ LastIn(dealt, t)
              /\ Midway(queue[i], Replayed[dealt \ {t}], Replayed[dealt], b, c, r)
        BY <1>8, <2>1, <3>3, Zenon DEF Following
      <4>2. i # 1
        BY <1>8, <2>2, <4>1
      <4>3. PICK j \in 1..(n - 1) : j + 1 = i
        <5>1. i - 1 \in 1..(n - 1) /\ (i - 1) + 1 = i
          BY <4>2
        <5> QED BY <5>1
      <4>4. queue'[j] = queue[i] /\ j \in 1..Len(queue')
        BY <1>2, <1>8, <4>3 DEF Answered
      <4>5. Midway(queue'[j], Replayed[dealt \ {t}], Replayed[dealt], b2, c2, r2)
        BY <3>1, <4>1, <4>4, Zenon
      <4> QED BY <4>1, <4>4, <4>5, Zenon DEF Following
    <3> QED BY <3>2, <3>3
  <2>3. CASE Swapping(h)
    <3>1. PICK i \in 1..n, t \in dealt :
            /\ Swapping(queue[i]) /\ OfDeal(queue[i], t) /\ LastIn(dealt, t)
            /\ Midway(queue[i], Replayed[dealt \ {t}], Replayed[dealt], b, c, r)
      BY <1>8, <2>1, <2>3, Zenon DEF Following
    <3>2. i = 1
      BY <1>8, <1>10, <2>3, <3>1, Zenon
    <3>3. PICK l, m : l = Replayed[dealt \ {t}] /\ m = Replayed[dealt]
      OBVIOUS
    <3>4. OfDeal(h, t) /\ Midway(h, l, m, b, c, r)
      BY <1>8, <3>1, <3>2, <3>3, Zenon
    <3>5. t \in Deals /\ t.priced /\ l \in FullLot /\ m = ReplaySwap(l, t) /\ (t.buys \/ t.raw <= l.held)
      BY <1>9, <1>11, <3>1, <3>3, LastSwap, Zenon
    <3>6. /\ Ends(h) => b2 = m.held /\ c2 = m.cost /\ r2 = m.realized
          /\ \A k : ~Ends(h) /\ Sends(h, k) => Midway(k, l, m, b2, c2, r2)
      BY <1>2, <1>3, <1>4, <1>5, <3>4, <3>5, MidwayMoves
    <3>7. CASE Ends(h)
      <4>1. ASSUME NEW j \in 1..Len(queue'), Swapping(queue'[j]) PROVE FALSE
        <5>1. j + 1 \in 1..n /\ Swapping(queue[j + 1])
          BY <1>7, <1>8, <3>7, <4>1
        <5>2. j + 1 = 1
          BY <1>8, <1>10, <2>3, <5>1, Zenon
        <5> QED BY <1>8, <5>2
      <4> QED BY <3>3, <3>6, <3>7, <4>1, Zenon DEF Following
    <3>8. CASE ~Ends(h)
      <4>1. PICK k : k = queue'[n]
        OBVIOUS
      <4>2. n \in 1..Len(queue') /\ Sends(h, k)
        BY <1>2, <1>8, <3>8, <4>1 DEF Answered
      <4>3. Swapping(k) /\ OfDeal(k, t)
        BY <2>3, <3>4, <4>2, Zenon DEF Sends, Swapping, OfDeal
      <4>4. Midway(k, l, m, b2, c2, r2)
        BY <3>6, <3>8, <4>2, Zenon
      <4> QED BY <3>1, <3>3, <4>1, <4>2, <4>3, <4>4, Zenon DEF Following
    <3> QED BY <3>7, <3>8
  <2> QED BY <2>2, <2>3
<1> QED BY <1>5, <1>7, <1>9, <1>11, Zenon DEF InTurn

(* A handler that is not a swap's leaves, and the books stay as they are.  *)
LEMMA RejectInTurn ==
  ASSUME BookInv, queue # <<>>, Reject(Head(queue)), ~muddled', NEW b, NEW c, NEW r,
         InTurn(queue, dealt, b, c, r)
  PROVE  InTurn(queue', dealt, b, c, r)
<1>1. queue' = Tail(queue) /\ Head(queue).kind = "price" /\ queue \in Seq(Handler)
  BY Zenon DEF Reject, BookInv
<1>2. PICK n \in Nat : n = Len(queue) /\ n >= 1 /\ Len(queue') = n - 1 /\ queue[1].kind = "price"
                       /\ \A i \in 1..(n - 1) : queue'[i] = queue[i + 1] /\ i + 1 \in 1..n
  BY <1>1
<1>3. \A i \in 1..n : queue[i].kind \in {"buy", "sell", "price"}
  BY <1>2 DEF InTurn
<1>4. \A i, j \in 1..n : Swapping(queue[i]) /\ Swapping(queue[j]) => i = j
  BY <1>2, Zenon DEF InTurn
<1>5. \A i \in 1..Len(queue') : queue'[i].kind \in {"buy", "sell", "price"}
  BY <1>2, <1>3
<1>6. ASSUME NEW i \in 1..Len(queue'), NEW j \in 1..Len(queue'), Swapping(queue'[i]), Swapping(queue'[j])
      PROVE  i = j
  <2>1. i + 1 = j + 1
    BY <1>2, <1>4, <1>6
  <2> QED BY <1>2, <2>1
<1>7. ASSUME Known(dealt) PROVE Following(queue', dealt, b, c, r)
  <2>1. Following(queue, dealt, b, c, r)
    BY <1>7, Zenon DEF InTurn
  <2>2. CASE \A i \in 1..Len(queue) : ~Swapping(queue[i])
    <3>1. \A i \in 1..Len(queue') : ~Swapping(queue'[i])
      BY <1>2, <2>2
    <3>2. ~\E i \in 1..Len(queue) : Swapping(queue[i])
      BY <2>2
    <3> QED BY <2>1, <3>1, <3>2, Zenon DEF Following
  <2>3. CASE ~\A i \in 1..Len(queue) : ~Swapping(queue[i])
    <3>1. PICK i \in 1..n, t \in dealt :
            /\ Swapping(queue[i]) /\ OfDeal(queue[i], t) /\ LastIn(dealt, t)
            /\ Midway(queue[i], Replayed[dealt \ {t}], Replayed[dealt], b, c, r)
      BY <1>2, <2>1, <2>3, Zenon DEF Following
    <3>2. i # 1
      BY <1>2, <3>1 DEF Swapping
    <3>3. PICK j \in 1..(n - 1) : j + 1 = i
      <4>1. i - 1 \in 1..(n - 1) /\ (i - 1) + 1 = i
        BY <3>2
      <4> QED BY <4>1
    <3>4. queue'[j] = queue[i] /\ j \in 1..Len(queue')
      BY <1>2, <3>3
    <3> QED BY <3>1, <3>4, Zenon DEF Following
  <2> QED BY <2>2, <2>3
<1>8. Untied(dealt)
  BY DEF InTurn
<1> QED BY <1>5, <1>6, <1>7, <1>8, Zenon DEF InTurn

LEMMA PriceInTurn ==
  ASSUME BookInv, NEW k, Joined(k), k.kind = "price", NEW b, NEW c, NEW r, InTurn(queue, dealt, b, c, r)
  PROVE  InTurn(queue', dealt, b, c, r)
<1>1. PICK n \in Nat : /\ n = Len(queue) /\ Len(queue') = n + 1 /\ queue'[n + 1] = k
                       /\ \A i \in 1..n : queue'[i] = queue[i]
  BY DEF BookInv, Joined
<1>2. \A i \in 1..(n + 1) : i \in 1..n \/ i = n + 1
  BY <1>1
<1>3. 1..n \subseteq 1..(n + 1) /\ ~Swapping(k)
  BY <1>1 DEF Swapping
<1>4. \A i \in 1..(n + 1) : queue'[i].kind \in {"buy", "sell", "price"}
  BY <1>1, <1>2 DEF InTurn
<1>5. \A i \in 1..(n + 1) : Swapping(queue'[i]) => i \in 1..n /\ Swapping(queue[i])
  BY <1>1, <1>2, <1>3
<1>6. \A i, j \in 1..(n + 1) : Swapping(queue'[i]) /\ Swapping(queue'[j]) => i = j
  BY <1>1, <1>5, Zenon DEF InTurn
<1>7. ASSUME Known(dealt) PROVE Following(queue', dealt, b, c, r)
  <2>1. Following(queue, dealt, b, c, r)
    BY <1>7, Zenon DEF InTurn
  <2>2. CASE \A i \in 1..n : ~Swapping(queue[i])
    <3>1. \A i \in 1..(n + 1) : ~Swapping(queue'[i])
      BY <1>5, <2>2
    <3> QED BY <1>1, <2>1, <2>2, <3>1, Zenon DEF Following
  <2>3. CASE ~\A i \in 1..n : ~Swapping(queue[i])
    <3>1. PICK i \in 1..n, t \in dealt :
            /\ Swapping(queue[i]) /\ OfDeal(queue[i], t) /\ LastIn(dealt, t)
            /\ Midway(queue[i], Replayed[dealt \ {t}], Replayed[dealt], b, c, r)
      BY <1>1, <2>1, <2>3, Zenon DEF Following
    <3>2. queue'[i] = queue[i] /\ i \in 1..Len(queue')
      BY <1>1, <1>3
    <3> QED BY <3>1, <3>2, Zenon DEF Following
  <2> QED BY <2>2, <2>3
<1>8. Untied(dealt)
  BY DEF InTurn
<1> QED BY <1>1, <1>4, <1>6, <1>7, <1>8, Zenon DEF InTurn

(* The next swap finds the lot of those before it.                         *)
LEMMA SwapInTurn ==
  ASSUME BookInv, NEW k, Joined(k), NEW t \in Deals, OfDeal(k, t), \A u \in dealt : u.day < t.day,
         \A i \in 1..Len(queue) : ~Swapping(queue[i]), NEW b, NEW c, NEW r, InTurn(queue, dealt, b, c, r)
  PROVE  InTurn(queue', dealt \cup {t}, b, c, r)
<1>1. PICK n \in Nat : /\ n = Len(queue) /\ Len(queue') = n + 1 /\ queue'[n + 1] = k
                       /\ \A i \in 1..n : queue'[i] = queue[i]
  BY DEF BookInv, Joined
<1>2. \A i \in 1..(n + 1) : i \in 1..n \/ i = n + 1
  BY <1>1
<1>3. k.kind \in {"buy", "sell"} /\ k.at = "balance" /\ Swapping(k) /\ n + 1 \in 1..(n + 1)
  BY <1>1, FirstCommands DEF OfDeal, Joined, Swapping
<1>4. \A i \in 1..(n + 1) : queue'[i].kind \in {"buy", "sell", "price"}
  BY <1>1, <1>2, <1>3 DEF InTurn
<1>5. \A i \in 1..(n + 1) : Swapping(queue'[i]) => i = n + 1
  BY <1>1, <1>2
<1>6. PICK S \in SUBSET Deals, T \in SUBSET Deals : S = dealt /\ T = S \cup {t}
  BY DEF BookInv
<1>7. t.day \in Nat /\ \A u \in S : u.day \in Nat /\ u.day < t.day
  BY <1>6, DealFacts
<1>8. t \notin S /\ T \ {t} = S /\ t \in T
  <2>1. t \notin S
    BY <1>7
  <2> QED BY <1>6, <2>1
<1>9. Untied(T)
  <2>1. \A x, y \in S : x.day = y.day => x = y
    BY <1>6 DEF InTurn, Untied
  <2>2. \A x \in S : x.day # t.day
    BY <1>7
  <2> QED BY <1>6, <2>1, <2>2 DEF Untied
<1>10. LastIn(T, t)
  BY <1>7, <1>8 DEF LastIn
<1>11. ASSUME Known(T) PROVE Following(queue', T, b, c, r)
  <2>1. Known(S)
    <3>1. BoughtAll(S)
      BY <1>6, <1>7, <1>11, EarlierBought DEF Known
    <3> QED BY <1>6, <1>11, <3>1 DEF Known
  <2>2. Following(queue, S, b, c, r)
    BY <1>6, <2>1, Zenon DEF InTurn
  <2>3. ~\E i \in 1..Len(queue) : Swapping(queue[i])
    OBVIOUS
  <2>4. b = Replayed[S].held /\ c = Replayed[S].cost /\ r = Replayed[S].realized
    BY <2>2, <2>3, Zenon DEF Following
  <2>5. Midway(k, Replayed[S], Replayed[T], b, c, r)
    BY <1>3, <2>4 DEF Midway, BeforeCost, BeforeProfit
  <2> QED BY <1>1, <1>3, <1>8, <1>10, <2>5, Zenon DEF Following
<1> QED BY <1>1, <1>4, <1>5, <1>6, <1>9, <1>11, Zenon DEF InTurn

LEMMA OrderInvInit == BookInit => OrderInv
<1> SUFFICES ASSUME BookInit PROVE InTurn(queue, dealt, Get("balance"), Get("cost"), Get("realized"))
  BY DEF OrderInv
<1>1. book = <<>> /\ queue = <<>> /\ dealt = {}
  BY Zenon DEF BookInit
<1>2. 1..Len(queue) = {} /\ DOMAIN book = {}
  BY <1>1
<1>3. Get("balance") = 0 /\ Get("cost") = 0 /\ Get("realized") = 0
  BY <1>2 DEF Get
<1>4. Replayed[{}] = [held |-> 0, cost |-> 0, realized |-> 0]
  BY ReplayedIs, Zenon DEF NoLot
<1>5. Untied(dealt)
  BY <1>1 DEF Untied
<1>6. Following(queue, dealt, Get("balance"), Get("cost"), Get("realized"))
  BY <1>1, <1>2, <1>3, <1>4 DEF Following
<1> QED BY <1>2, <1>5, <1>6, Zenon DEF InTurn

LEMMA OrderNext ==
  ASSUME ~diverged' /\ ~muddled' => InTurn(queue', dealt', Get("balance")', Get("cost")', Get("realized")')
  PROVE  OrderInv'
  BY Zenon DEF OrderInv, InTurn, Following, Untied, Known, BoughtAll, Swapping, OfDeal, LastIn, Midway, HeldOf, UpTo,
               Raw, Usd, Side, StoredUsd

LEMMA OrderInvStep == BookInv /\ OrderInv /\ [BookStep]_bookVars => OrderInv'
<1> SUFFICES ASSUME BookInv, OrderInv, [BookStep]_bookVars, ~diverged', ~muddled'
             PROVE  InTurn(queue', dealt', Get("balance")', Get("cost")', Get("realized")')
  BY OrderNext
<1> DEFINE Now == InTurn(queue, dealt, Get("balance"), Get("cost"), Get("realized"))
<1>1. ASSUME UNCHANGED <<queue, dealt, book>>, Now
      PROVE  InTurn(queue', dealt', Get("balance")', Get("cost")', Get("realized")')
  <2>1. Get("balance")' = Get("balance") /\ Get("cost")' = Get("cost") /\ Get("realized")' = Get("realized")
    BY <1>1 DEF Get
  <2> QED BY <1>1, <2>1, Zenon
<1>2. CASE UNCHANGED bookVars
  <2>1. UNCHANGED <<book, queue, dealt, diverged, muddled>>
    BY <1>2, Zenon DEF bookVars
  <2>2. Now
    BY <2>1, Zenon DEF OrderInv
  <2> QED BY <1>1, <2>1, <2>2
<1>3. ASSUME NEW t \in Deals, OnSwapEvent(t)
      PROVE  InTurn(queue', dealt', Get("balance")', Get("cost")', Get("realized")')
  <2>1. PICK kind \in {"buy", "sell"} : kind = IF t.buys THEN "buy" ELSE "sell"
    OBVIOUS
  <2>2. /\ t \notin dealt /\ Begin(kind, t.raw, t.usd, <<>>) /\ dealt' = dealt \cup {t}
        /\ diverged' = (diverged \/ (\E k \in InQueue : Adds(k)) \/ (\E other \in dealt : other.day >= t.day))
    BY <1>3, <2>1, Zenon DEF OnSwapEvent
  <2>3. t.raw \in Nat /\ t.usd \in Nat /\ kind \in BookKinds /\ kind # "report"
    BY <2>1, DealFacts DEF BookKinds
  <2>4. PICK k : /\ Joined(k) /\ k.kind = kind /\ k.raw = t.raw /\ k.usd = t.usd
                 /\ muddled' = (muddled \/ \E other \in InQueue : Clashes(kind, other) \/ Clashes(other, kind))
                 /\ UNCHANGED <<book, lasting, score, uncosted>>
    BY <2>2, <2>3, BeginJoins
  <2>5. ~diverged /\ ~muddled /\ ~(\E other \in InQueue : Adds(other)) /\ ~(\E other \in dealt : other.day >= t.day)
    BY <2>2, <2>4, Zenon
  <2>6. Now
    BY <2>5, Zenon DEF OrderInv
  <2>7. \A u \in dealt : u.day < t.day
    <3> TAKE u \in dealt
    <3>1. u \in Deals /\ ~(u.day >= t.day)
      BY <2>5 DEF BookInv
    <3> QED BY <3>1, DealFacts
  <2>8. \A i \in 1..Len(queue) : ~Swapping(queue[i])
    <3>1. queue \in Seq(Handler)
      BY DEF BookInv
    <3>2. \A i \in 1..Len(queue) : queue[i].kind \in InQueue
      BY <3>1 DEF InQueue
    <3> QED BY <2>5, <3>2 DEF Adds, Swapping
  <2>9. OfDeal(k, t)
    BY <2>1, <2>4, Zenon DEF OfDeal
  <2>10. Get("balance")' = Get("balance") /\ Get("cost")' = Get("cost") /\ Get("realized")' = Get("realized")
    BY <2>4 DEF Get
  <2>11. InTurn(queue', dealt \cup {t}, Get("balance"), Get("cost"), Get("realized"))
    BY <2>4, <2>6, <2>7, <2>8, <2>9, SwapInTurn
  <2> QED BY <2>2, <2>10, <2>11, Zenon
<1>4. ASSUME NEW data \in Reports, OnHolderUpdate(data) PROVE FALSE
  BY <1>4, Zenon DEF OnHolderUpdate
<1>5. ASSUME OnRemoved PROVE FALSE
  BY <1>5, Zenon DEF OnRemoved
<1>6. CASE OnPriceUpdate
  <2>1. Begin("price", 0, 0, <<>>) /\ UNCHANGED <<dealt, diverged>>
    BY <1>6, Zenon DEF OnPriceUpdate
  <2>2. PICK k : /\ Joined(k) /\ k.kind = "price"
                 /\ muddled' = (muddled \/ \E other \in InQueue : Clashes("price", other) \/ Clashes(other, "price"))
                 /\ UNCHANGED <<book, lasting, score, uncosted>>
    BY <2>1, BeginJoins DEF BookKinds
  <2>3. Now
    BY <2>1, <2>2, Zenon DEF OrderInv
  <2>4. Get("balance")' = Get("balance") /\ Get("cost")' = Get("cost") /\ Get("realized")' = Get("realized")
    BY <2>2 DEF Get
  <2>5. InTurn(queue', dealt, Get("balance"), Get("cost"), Get("realized"))
    BY <2>2, <2>3, PriceInTurn
  <2> QED BY <2>1, <2>4, <2>5, Zenon
<1>7. ASSUME Expire PROVE FALSE
  BY <1>7, Zenon DEF Expire
<1>8. CASE queue # <<>> /\ Exec(Head(queue))
  <2>1. UNCHANGED <<dealt, diverged>> /\ ~muddled
    BY <1>8, Zenon DEF Exec
  <2>2. Now
    BY <2>1, Zenon DEF OrderInv
  <2>3. InTurn(queue', dealt, Get("balance")', Get("cost")', Get("realized")')
    BY <1>8, <2>2, ExecInTurn
  <2> QED BY <2>1, <2>3, Zenon
<1>9. CASE queue # <<>> /\ Reject(Head(queue))
  <2>1. UNCHANGED <<book, dealt, diverged>> /\ ~muddled
    BY <1>9, Zenon DEF Reject
  <2>2. Now
    BY <2>1, Zenon DEF OrderInv
  <2>3. Get("balance")' = Get("balance") /\ Get("cost")' = Get("cost") /\ Get("realized")' = Get("realized")
    BY <2>1 DEF Get
  <2>4. InTurn(queue', dealt, Get("balance"), Get("cost"), Get("realized"))
    BY <1>9, <2>2, RejectInTurn
  <2> QED BY <2>1, <2>3, <2>4, Zenon
<1> QED BY <1>2, <1>3, <1>4, <1>5, <1>6, <1>7, <1>8, <1>9, Zenon DEF BookStep

LEMMA PriceNearIs == ASSUME NEW series \in PriceSeries, NEW time PROVE PriceNear(series, time) \in Nat
<1>1. series \in Seq([day : Nat, price : Nat])
  BY HolderChartAssumption
<1> DEFINE PriceRecord == [day : Nat, price : Nat]
<1>a. \A e \in PriceRecord : e.price \in Nat
  OBVIOUS
<1>b. PICK T : T = PriceRecord
  OBVIOUS
<1>c. PICK k \in Nat : k = Len(series) /\ DOMAIN series = 1..k /\ \A i \in 1..k : series[i] \in T
  <2>1. series \in Seq(T)
    BY <1>1, <1>b
  <2> QED BY <2>1
<1>2. PICK n \in Nat : n = Len(series) /\ DOMAIN series = 1..n
                       /\ \A i \in 1..n : series[i].price \in Nat
  BY <1>a, <1>b, <1>c, Zenon
<1>3. PICK past \in SUBSET (1..n) : past = {i \in DOMAIN series : series[i].day <= time}
  BY <1>2
<1>4. past # {} => Max(past) \in 1..n
  <2> SUFFICES ASSUME past # {} PROVE Max(past) \in 1..n
    OBVIOUS
  <2>1. \E x \in past : \A y \in past : x >= y
    BY GreatestOf
  <2>2. Max(past) \in past
    BY <2>1, Zenon DEF Max
  <2> QED BY <2>2
<1>5. series # <<>> => 1 \in 1..n
  BY <1>1, <1>2
<1>6. PriceNear(series, time) = IF series = <<>> THEN 0
                                ELSE IF past = {} THEN series[1].price ELSE series[Max(past)].price
  BY <1>3, Zenon DEF PriceNear
<1> QED BY <1>2, <1>4, <1>5, <1>6

(* The swaps a point of the chart replays.                                 *)
LEMMA SwapsUntil ==
  ASSUME dealt \in SUBSET Deals, Ordered, NEW time \in Int, Covered(time)
  PROVE  \E S \in SUBSET Deals :
           /\ S = {t \in Timed : t.day <= time} /\ LotAt(time) = Replayed[S] /\ LotIsRight(S) /\ BoughtAll(S)
           /\ HeldOf(S) = Held(time) /\ NetOf(S) = Usd(Until(time, FALSE)) - Usd(Until(time, TRUE))
<1>1. PICK S \in SUBSET Deals : S = {t \in Timed : t.day <= time}
  BY DEF Timed
<1>2. LotAt(time) = Replayed[S]
  BY <1>1, Zenon DEF LotAt
<1>3. Until(time, TRUE) = Side(S, TRUE) /\ Until(time, FALSE) = Side(S, FALSE)
  BY <1>1 DEF Until, Side
<1>4. HeldOf(S) = Held(time) /\ NetOf(S) = Usd(Until(time, FALSE)) - Usd(Until(time, TRUE))
  <2>1. HeldOf(S) = Held(time)
    BY <1>3 DEF HeldOf, Held
  <2> QED BY <1>3, <2>1 DEF NetOf
<1>5. Untied(S)
  BY <1>1 DEF Untied, Ordered
<1>6. ASSUME NEW t \in S PROVE HeldOf(UpTo(S, t)) >= 0
  <2>1. t \in Timed /\ t \in Deals /\ t.day \in Nat /\ t.day <= time
    BY <1>1, DealFacts
  <2>2. Held(t.day) >= 0
    BY <2>1, Zenon DEF Covered
  <2>3. UpTo(S, t) = {u \in Timed : u.day <= t.day}
    <3>1. \A u \in Timed : u.day \in Nat
      BY DealFacts DEF Timed
    <3>2. \A u \in Timed : u.day <= t.day => u.day <= time
      BY <2>1, <3>1
    <3> QED BY <1>1, <3>2 DEF UpTo
  <2>4. Until(t.day, TRUE) = Side(UpTo(S, t), TRUE) /\ Until(t.day, FALSE) = Side(UpTo(S, t), FALSE)
    BY <2>3 DEF Until, Side
  <2>5. Held(t.day) = HeldOf(UpTo(S, t))
    BY <2>4 DEF HeldOf, Held
  <2> QED BY <2>2, <2>5
<1>7. BoughtAll(S)
  BY <1>6, Zenon DEF BoughtAll
<1> QED BY <1>1, <1>2, <1>4, <1>5, <1>7, ReplayIsRight

LEMMA PointIsRight ==
  ASSUME dealt \in SUBSET Deals, Ordered, NEW time \in Int, Covered(time), NEW series \in PriceSeries,
         PriceNear(series, time) > 0
  PROVE  Point(series, time).total = Usd(Until(time, FALSE)) + Held(time) * PriceNear(series, time)
                                       - Usd(Until(time, TRUE))
<1>1. PICK S \in SUBSET Deals :
        /\ LotAt(time) = Replayed[S] /\ LotIsRight(S)
        /\ HeldOf(S) = Held(time) /\ NetOf(S) = Usd(Until(time, FALSE)) - Usd(Until(time, TRUE))
  BY SwapsUntil
<1>2. PICK lot \in FullLot : lot = Replayed[S] /\ lot.held = HeldOf(S) /\ lot.realized - lot.cost = NetOf(S)
  BY <1>1 DEF LotIsRight
<1>3. PICK h \in Nat, c \in Nat, r \in Int : h = lot.held /\ c = lot.cost /\ r = lot.realized
  BY <1>2 DEF FullLot
<1>4. PICK p \in Nat : p = PriceNear(series, time) /\ p > 0
  BY PriceNearIs
<1>5. PICK v \in Int : v = h * p
  OBVIOUS
<1>6. Point(series, time).total = r + (v - c)
  BY <1>1, <1>2, <1>3, <1>4, <1>5 DEF Point
<1>7. Until(time, FALSE) \in SUBSET Deals /\ Until(time, TRUE) \in SUBSET Deals
  BY DEF Until, Timed
<1>8. PICK x \in Int, y \in Int : x = Usd(Until(time, FALSE)) /\ y = Usd(Until(time, TRUE))
  BY <1>7, TotalIsInt
<1>9. r - c = x - y /\ Held(time) = h
  BY <1>1, <1>2, <1>3, <1>8
<1>10. r + (v - c) = x + v - y
  BY <1>9
<1> QED BY <1>4, <1>5, <1>6, <1>8, <1>9, <1>10, Zenon

LEMMA ChartIsRight == BookInv /\ OrderInv => ChartAgreesWithBooks
<1> SUFFICES ASSUME BookInv, OrderInv, queue = <<>>, Ordered, NEW series \in PriceSeries, NEW line,
                    line = HolderPnlChart(series)
             PROVE  /\ \A i \in DOMAIN line :
                         Covered(ChartStart + i - 1) /\ PriceNear(series, ChartStart + i - 1) > 0 =>
                           line[i].total = Usd(Until(ChartStart + i - 1, FALSE))
                             + Held(ChartStart + i - 1) * PriceNear(series, ChartStart + i - 1)
                             - Usd(Until(ChartStart + i - 1, TRUE))
                    /\ line # <<>> /\ ~diverged /\ ~muddled /\ Covered(Today)
                         /\ (\A deal \in dealt : deal.priced /\ deal.day \in 1..Today) =>
                         Last(line).realized = Get("realized")
  BY Zenon DEF ChartAgreesWithBooks
<1>1. ChartStart \in Nat /\ Today \in Nat /\ ChartStart <= Today /\ dealt \in SUBSET Deals
  BY HolderChartAssumption DEF BookInv
<1>2. PICK n \in Nat : n = Today - ChartStart + 1 /\ n >= 1
  BY <1>1
<1>3. line = <<>> \/ line = [i \in 1..n |-> Point(series, ChartStart + i - 1)]
  BY <1>2, Zenon DEF HolderPnlChart
<1>4. ASSUME NEW i \in DOMAIN line, Covered(ChartStart + i - 1), PriceNear(series, ChartStart + i - 1) > 0
      PROVE  line[i].total = Usd(Until(ChartStart + i - 1, FALSE))
               + Held(ChartStart + i - 1) * PriceNear(series, ChartStart + i - 1)
               - Usd(Until(ChartStart + i - 1, TRUE))
  <2>1. i \in 1..n /\ line[i] = Point(series, ChartStart + i - 1)
    <3>1. DOMAIN <<>> = {}
      OBVIOUS
    <3> QED BY <1>3, <1>4, <3>1
  <2>2. PICK time \in Int : time = ChartStart + i - 1
    BY <1>1, <2>1
  <2>3. Point(series, time).total = Usd(Until(time, FALSE)) + Held(time) * PriceNear(series, time)
                                      - Usd(Until(time, TRUE))
    BY <1>1, <1>4, <2>2, PointIsRight, Zenon
  <2> QED BY <2>1, <2>2, <2>3, Zenon
<1>5. ASSUME line # <<>>, ~diverged, ~muddled, Covered(Today),
             \A deal \in dealt : deal.priced /\ deal.day \in 1..Today
      PROVE  Last(line).realized = Get("realized")
  <2>1. line = [i \in 1..n |-> Point(series, ChartStart + i - 1)]
    BY <1>3, <1>5
  <2>2. Len(line) = n /\ n \in 1..n /\ ChartStart + n - 1 = Today
    BY <1>1, <1>2, <2>1
  <2>3. Last(line) = Point(series, Today)
    BY <2>1, <2>2 DEF Last
  <2>4. Today \in Int
    BY <1>1
  <2>5. PICK S \in SUBSET Deals : /\ S = {t \in Timed : t.day <= Today} /\ LotAt(Today) = Replayed[S]
                                  /\ BoughtAll(S)
    BY <1>1, <1>5, <2>4, SwapsUntil
  <2>6. S = dealt
    <3>1. \A t \in dealt : t.day > 0 /\ t.day <= Today
      BY <1>1, <1>5
    <3> QED BY <2>5, <3>1 DEF Timed
  <2>7. Point(series, Today).realized = Replayed[dealt].realized
    BY <2>5, <2>6 DEF Point
  <2>8. Known(dealt)
    BY <1>5, <2>5, <2>6 DEF Known
  <2>9. Following(queue, dealt, Get("balance"), Get("cost"), Get("realized"))
    BY <1>5, <2>8, Zenon DEF OrderInv, InTurn
  <2>10. ~\E i \in 1..Len(queue) : Swapping(queue[i])
    OBVIOUS
  <2>11. Get("realized") = Replayed[dealt].realized
    BY <2>9, <2>10, Zenon DEF Following
  <2> QED BY <2>3, <2>7, <2>11
<1> QED BY <1>4, <1>5

(* HolderPnl.ChartAgreesWithBooks: the chart made of the stored swaps and  *)
(* the live books of the holder agree, for any swaps and prices.           *)
THEOREM ChartAlwaysAgrees == BookSpec => []ChartAgreesWithBooks
  BY BookAlways, OrderInvInit, OrderInvStep, ChartIsRight, BookInvInit, BookInvStep, PTL DEF BookSpec

(***************************************************************************)
(* MCMarket.  A step of the market data together is a step of one          *)
(* component, or of a chart and the trades beside it, and leaves the       *)
(* others as they are: what holds of each alone holds beside the others.   *)
(***************************************************************************)
LEMMA PriceBeside == Spec => PriceSpec
<1>1. Init => PriceInit
  BY Zenon DEF Init
<1>2. [Next]_vars => [PriceStep]_priceVars
  BY Zenon DEF Next, vars, tradeVars, tokenVars, Price, Ohlc, Writers, Chart, Stats, Holder, Books, Trader, Feed,
     Tracking, Catalogue, Discovery, Gecko
<1> QED BY <1>1, <1>2, PTL DEF Spec, PriceSpec

LEMMA OhlcBeside == Spec => OhlcSpec
<1>1. Init => OhlcInit
  BY Zenon DEF Init
<1>2. [Next]_vars => [OhlcStep]_ohlcVars
  BY Zenon DEF Next, vars, tradeVars, tokenVars, Price, Ohlc, Writers, Chart, Stats, Holder, Books, Trader, Feed,
     Tracking, Catalogue, Discovery, Gecko
<1> QED BY <1>1, <1>2, PTL DEF Spec, OhlcSpec

LEMMA StatsBeside == Spec => StatsSpec
<1>1. Init => StatsInit
  BY Zenon DEF Init
<1>2. [Next]_vars => [StatsStep]_statsVars
  BY Zenon DEF Next, vars, tradeVars, tokenVars, Price, Ohlc, Writers, Chart, Stats, Holder, Books, Trader, Feed,
     Tracking, Catalogue, Discovery, Gecko
<1> QED BY <1>1, <1>2, PTL DEF Spec, StatsSpec

LEMMA HolderBeside == Spec => HolderSpec
<1>1. Init => HolderInit
  BY Zenon DEF Init
<1>2. [Next]_vars => [HolderStep]_holderVars
  BY Zenon DEF Next, vars, tradeVars, tokenVars, Price, Ohlc, Writers, Chart, Stats, Holder, Books, Trader, Feed,
     Tracking, Catalogue, Discovery, Gecko
<1> QED BY <1>1, <1>2, PTL DEF Spec, HolderSpec

LEMMA BookBeside == Spec => BookSpec
<1>1. Init => BookInit
  BY Zenon DEF Init
<1>2. [Next]_vars => [BookStep]_bookVars
  BY Zenon DEF Next, vars, tradeVars, tokenVars, Price, Ohlc, Writers, Chart, Stats, Holder, Books, Trader, Feed,
     Tracking, Catalogue, Discovery, Gecko
<1> QED BY <1>1, <1>2, PTL DEF Spec, BookSpec

LEMMA TraderBeside == Spec => TraderSpec
<1>1. Init => TraderInit
  BY Zenon DEF Init
<1>2. [Next]_vars => [TraderStep]_traderVars
  BY Zenon DEF Next, vars, tradeVars, tokenVars, Price, Ohlc, Writers, Chart, Stats, Holder, Books, Trader, Feed,
     Tracking, Catalogue, Discovery, Gecko
<1> QED BY <1>1, <1>2, PTL DEF Spec, TraderSpec

LEMMA FeedBeside == Spec => FeedSpec
<1>1. Init => FeedInit
  BY Zenon DEF Init
<1>2. [Next]_vars => [FeedStep]_feedVars
  BY Zenon DEF Next, vars, tradeVars, tokenVars, Price, Ohlc, Writers, Chart, Stats, Holder, Books, Trader, Feed,
     Tracking, Catalogue, Discovery, Gecko
<1> QED BY <1>1, <1>2, PTL DEF Spec, FeedSpec

LEMMA TrackingBeside == Spec => TrackingMoves
<1>1. Init => TrackingInit
  BY Zenon DEF Init
<1>2. [Next]_vars => [TrackingStep]_trackingVars
  BY Zenon DEF Next, vars, tradeVars, tokenVars, Price, Ohlc, Writers, Chart, Stats, Holder, Books, Trader, Feed,
     Tracking, Catalogue, Discovery, Gecko
<1> QED BY <1>1, <1>2, PTL DEF Spec, TrackingMoves

LEMMA CatalogueBeside == Spec => CatalogueSpec
<1>1. Init => CatalogueInit
  BY Zenon DEF Init
<1>2. [Next]_vars => [CatalogueStep]_catalogueVars
  BY Zenon DEF Next, vars, tradeVars, tokenVars, Price, Ohlc, Writers, Chart, Stats, Holder, Books, Trader, Feed,
     Tracking, Catalogue, Discovery, Gecko
<1> QED BY <1>1, <1>2, PTL DEF Spec, CatalogueSpec

LEMMA DiscoveryBeside == Spec => DiscoverySpec
<1>1. Init => DiscoveryInit
  BY Zenon DEF Init
<1>2. [Next]_vars => [DiscoveryStep]_discoveryVars
  BY Zenon DEF Next, vars, tradeVars, tokenVars, Price, Ohlc, Writers, Chart, Stats, Holder, Books, Trader, Feed,
     Tracking, Catalogue, Discovery, Gecko
<1> QED BY <1>1, <1>2, PTL DEF Spec, DiscoverySpec

LEMMA CgBeside == Spec => CgSpec
<1>1. Init => CgInit
  BY Zenon DEF Init
<1>2. [Next]_vars => [CgStep]_cgVars
  BY Zenon DEF Next, vars, tradeVars, tokenVars, Price, Ohlc, Writers, Chart, Stats, Holder, Books, Trader, Feed,
     Tracking, Catalogue, Discovery, Gecko
<1> QED BY <1>1, <1>2, PTL DEF Spec, CgSpec

LEMMA ChartBeside == Spec => ChartSpec
<1> DEFINE N == (ChartStep /\ UNCHANGED ohlcVars) \/ (OhlcStep /\ UNCHANGED chartVars)
<1>1. Init => ChartInit /\ OhlcInit
  BY Zenon DEF Init
<1>2. [Next]_vars => [N]_<<ohlcVars, chartVars>>
  BY Zenon DEF Next, vars, tradeVars, tokenVars, Price, Ohlc, Writers, Chart, Stats, Holder, Books, Trader, Feed,
     Tracking, Catalogue, Discovery, Gecko
<1> QED BY <1>1, <1>2, PTL DEF Spec, ChartSpec

(* Every cache, buffer, row and request of the market data has its type,   *)
(* whatever the others do beside it and for any values of the bounds.      *)
THEOREM MarketTypes == Spec => []TypeOK
<1>1. Spec => [](PriceTypeOK /\ OhlcTypeOK /\ ChartTypeOK /\ StatsTypeOK)
  BY PriceBeside, OhlcBeside, ChartBeside, StatsBeside, PriceTypes, OhlcTypes, ChartTypes, StatsTypes, PTL
<1>2. Spec => [](HolderTypeOK /\ BookTypeOK /\ TraderTypeOK /\ FeedTypeOK)
  BY HolderBeside, BookBeside, TraderBeside, FeedBeside, HolderTypes, BookTypes, TraderTypes, FeedTypes, PTL
<1>3. Spec => [](TrackingTypeOK /\ CatalogueTypeOK /\ DiscoveryTypeOK /\ CgTypeOK)
  BY TrackingBeside, CatalogueBeside, DiscoveryBeside, CgBeside, TrackingTypes, CatalogueTypes, DiscoveryTypes,
     CgTypes, PTL
<1>4. /\ PriceTypeOK /\ OhlcTypeOK /\ ChartTypeOK /\ StatsTypeOK
      /\ HolderTypeOK /\ BookTypeOK /\ TraderTypeOK /\ FeedTypeOK
      /\ TrackingTypeOK /\ CatalogueTypeOK /\ DiscoveryTypeOK /\ CgTypeOK
      => TypeOK
  BY Zenon DEF TypeOK
<1> QED BY <1>1, <1>2, <1>3, <1>4, PTL

(* The market data as a whole keeps each component's promise: a mint that  *)
(* was traded stays active, its rows are prefixes of the bars, a quiet     *)
(* holder's row, hash, books and chart agree, no swap is lost to a         *)
(* position, what is tracked is known, pages and keys agree, charts are    *)
(* whole and only calls that slept exceed the rate.                        *)
THEOREM MarketKeepsPromises ==
  Spec => /\ [](TradedMintIsActive /\ HoldersAgree /\ SwapsAreCounted /\ TrackedIsKnown)
          /\ [](DiscoveryAgrees /\ ChartIsWhole /\ SleepersOnlyExceed)
          /\ FreshPriceIsSlotOrdered /\ RowsAreFinalPrefixes /\ LinksAreKept
<1>1. Spec => [](TradedMintIsActive /\ QuietHolderAgrees /\ SwapsAreCounted /\ TrackedIsKnown)
  BY StatsBeside, HolderBeside, TraderBeside, TrackingBeside, TradedMintStaysActive, QuietHolderAlwaysAgrees,
     SwapsAreAlwaysCounted, TrackingAlways, PTL
<1>2. Spec => [](BooksBalance /\ ChartAgreesWithBooks)
  BY BookBeside, BooksAlwaysBalance, ChartAlwaysAgrees, PTL
<1>3. Spec => [](DiscoveryAgrees /\ ChartIsWhole /\ SleepersOnlyExceed)
  BY DiscoveryBeside, ChartBeside, CgBeside, DiscoveryAlwaysAgrees, ChartIsAlwaysWhole, SleepersOnlyEverExceed, PTL
<1>4. Spec => FreshPriceIsSlotOrdered /\ RowsAreFinalPrefixes /\ LinksAreKept
  BY PriceBeside, OhlcBeside, CatalogueBeside, FreshPriceIsAlwaysSlotOrdered, RowsAreAlwaysFinalPrefixes,
     LinksAreAlwaysKept, PTL
<1>5. QuietHolderAgrees /\ BooksBalance /\ ChartAgreesWithBooks => HoldersAgree
  BY Zenon DEF HoldersAgree
<1> QED BY <1>1, <1>2, <1>3, <1>4, <1>5, PTL
===============================================================================
