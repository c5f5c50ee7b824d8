--------------------------- MODULE TraderPositions ----------------------------
(***************************************************************************)
(* The position of one trader in one token.  Every swap reads the position *)
(* from Redis, or from the database when Redis has forgotten it, computes  *)
(* the new one and writes it to both.  A position is abstracted to its     *)
(* number of trades and its holding in units of the trade size.            *)
(***************************************************************************)
EXTENDS Integers, FiniteSets

CONSTANTS
  Swaps,      \* identities of the trader's swaps
  Buys        \* those that are buys

ASSUME SwapsAssumption == IsFiniteSet(Swaps)

VARIABLES
  position,   \* TRADER_POSITION in Redis
  stored,     \* the row of trader_positions
  trades,     \* the handler of each swap
  overlapped  \* history: two handlers overlapped, or a write failed

traderVars == <<position, stored, trades, overlapped>>

Position == [trades : 0..Cardinality(Swaps), held : 0..Cardinality(Swaps)]
Unknown  == [trades |-> 0, held |-> 0]

Pcs == {"waiting", "load", "loadDb", "write", "store", "done"}

TraderTypeOK ==
  /\ position \in Position /\ stored \in Position
  /\ trades \in [Swaps -> [pc : Pcs, pos : Position]]
  /\ overlapped \in BOOLEAN

TraderInit ==
  /\ position = Unknown
  /\ stored = Unknown
  /\ trades = [s \in Swaps |-> [pc |-> "waiting", pos |-> Unknown]]
  /\ overlapped = FALSE

Running == {s \in Swaps : trades[s].pc \notin {"waiting", "done"}}

Move(s, pc, pos) == trades' = [trades EXCEPT ![s] = [pc |-> pc, pos |-> pos]]

(* onSwapEvent, up to the answer of resolvePrice.                          *)
TraderSwap(s) ==
  /\ trades[s].pc = "waiting"
  /\ Move(s, "load", Unknown)
  /\ overlapped' = (overlapped \/ Running # {})
  /\ UNCHANGED <<position, stored>>

(* A sale of tokens not seen bought is counted and changes no holding.     *)
Traded(s, pos) ==
  [trades |-> pos.trades + 1,
   held   |-> IF s \in Buys THEN pos.held + 1 ELSE IF pos.held > 0 THEN pos.held - 1 ELSE 0]

(* Mutant: a position Redis has forgotten starts again from nothing.       *)
LoadMutant(s) ==
  /\ trades[s].pc = "load"
  /\ Move(s, "write", Traded(s, position))
  /\ UNCHANGED <<position, stored, overlapped>>

Load(s) ==
  /\ trades[s].pc = "load"
  /\ IF position = Unknown THEN Move(s, "loadDb", Unknown) ELSE Move(s, "write", Traded(s, position))
  /\ UNCHANGED <<position, stored, overlapped>>

(* loadStateFromDb; an error counts as no position.                        *)
LoadDb(s) ==
  /\ trades[s].pc = "loadDb"
  /\ \/ Move(s, "write", Traded(s, stored)) /\ UNCHANGED overlapped
     \/ Move(s, "write", Traded(s, Unknown)) /\ overlapped' = TRUE
  /\ UNCHANGED <<position, stored>>

(* The pipeline that writes the position and its rank.                     *)
Write(s) ==
  /\ trades[s].pc = "write"
  /\ position' = trades[s].pos
  /\ Move(s, "store", trades[s].pos)
  /\ UNCHANGED <<stored, overlapped>>

Store(s) ==
  /\ trades[s].pc = "store"
  /\ stored' = trades[s].pos
  /\ Move(s, "done", Unknown)
  /\ UNCHANGED <<position, overlapped>>

(* An error at any await ends the handler; it is logged.                   *)
Fail(s) ==
  /\ s \in Running
  /\ Move(s, "done", Unknown)
  /\ overlapped' = TRUE
  /\ UNCHANGED <<position, stored>>

(* A day without a trade: Redis forgets.                                   *)
Forget ==
  /\ Running = {}
  /\ position' = Unknown
  /\ UNCHANGED <<stored, trades, overlapped>>

TraderStep ==
  \/ \E s \in Swaps : TraderSwap(s) \/ Load(s) \/ LoadDb(s) \/ Write(s) \/ Store(s) \/ Fail(s)
  \/ Forget

-------------------------------------------------------------------------------
(***************************************************************************)
(* Properties                                                              *)
(***************************************************************************)

Handled == {s \in Swaps : trades[s].pc = "done"}

(* Every swap counts once, across any number of times Redis forgets the    *)
(* position, unless two swaps of the trader are handled at once or a write *)
(* fails (the read-modify-write is not atomic, so then one may be lost).   *)
SwapsAreCounted ==
  Running = {} /\ ~overlapped => stored.trades = Cardinality(Handled)
                                 /\ position \in {stored, Unknown}
==============================================================================
