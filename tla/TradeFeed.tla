------------------------------ MODULE TradeFeed -------------------------------
(***************************************************************************)
(* The trades of one token on their way to the sockets.  A swap is         *)
(* buffered when its aggregation is done; the schedulers of the domains    *)
(* "trades" and "tx" both drain this one buffer, every five seconds.  The  *)
(* holders domain sends the difference to the list it sent last.           *)
(***************************************************************************)
EXTENDS Integers, FiniteSets

CONSTANTS
  Trades,      \* signatures of swaps
  Holders      \* holders of the token

VARIABLES
  tradeRooms,  \* which of the rooms "trades", "tx", "holders" have clients
  deliveries,  \* swap deliveries whose aggregation is awaited; at most one each
  tradesBuffer,
  sent,        \* what has been emitted: signature -> number of times
  top,         \* getTopHolders: the holders that rank now
  previous     \* previousHolders

feedVars == <<tradeRooms, deliveries, tradesBuffer, sent, top, previous>>

Rooms == {"trades", "tx", "holders"}

FeedTypeOK ==
  /\ tradeRooms \subseteq Rooms
  /\ deliveries \subseteq Trades /\ tradesBuffer \subseteq Trades
  /\ sent \in [Trades -> 0..2]
  /\ top \subseteq Holders /\ previous \subseteq Holders

FeedInit ==
  /\ tradeRooms = {}
  /\ deliveries = {}
  /\ tradesBuffer = {}
  /\ sent = [t \in Trades |-> 0]
  /\ top = {} /\ previous = {}

(* The indexer may publish a swap again.                                   *)
SwapArrives(t) ==
  /\ sent[t] + Cardinality({t} \cap tradesBuffer) < 2
  /\ deliveries' = deliveries \cup {t}
  /\ UNCHANGED <<tradeRooms, tradesBuffer, sent, top, previous>>

(* bufferTrade drops a trade that is in the buffer.                        *)
BufferTrade(t) ==
  /\ t \in deliveries
  /\ deliveries' = deliveries \ {t}
  /\ tradesBuffer' = tradesBuffer \cup {t}
  /\ UNCHANGED <<tradeRooms, sent, top, previous>>

EnterOrLeave(room) ==
  /\ tradeRooms' = IF room \in tradeRooms THEN tradeRooms \ {room} ELSE tradeRooms \cup {room}
  /\ UNCHANGED <<deliveries, tradesBuffer, sent, top, previous>>

Drained(room) == IF room \in tradeRooms THEN tradesBuffer ELSE {}

(* emitScheduledRooms for "trades" or "tx": the first one takes them all.  *)
EmitTrades(room) ==
  /\ Drained(room) # {}
  /\ tradesBuffer' = tradesBuffer \ Drained(room)
  /\ sent' = [t \in Trades |-> IF t \in Drained(room) THEN sent[t] + 1 ELSE sent[t]]
  /\ UNCHANGED <<tradeRooms, deliveries, top, previous>>

RankingChanges(h) ==
  /\ top' = IF h \in top THEN top \ {h} ELSE top \cup {h}
  /\ UNCHANGED <<tradeRooms, deliveries, tradesBuffer, sent, previous>>

(* buildData for "holders": changed are the ones that are new, removed the *)
(* ones that are gone; nothing is sent when there is no difference.        *)
EmitHolders ==
  /\ "holders" \in tradeRooms
  /\ previous' = top
  /\ UNCHANGED <<tradeRooms, deliveries, tradesBuffer, sent, top>>

FeedStep ==
  \/ \E t \in Trades : SwapArrives(t) \/ BufferTrade(t)
  \/ \E room \in Rooms : EnterOrLeave(room)
  \/ \E room \in {"trades", "tx"} : EmitTrades(room)
  \/ \E h \in Holders : RankingChanges(h)
  \/ EmitHolders

==============================================================================
