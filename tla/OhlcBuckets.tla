----------------------------- MODULE OhlcBuckets ------------------------------
(***************************************************************************)
(* The candles of one mint for one interval.  Trades are folded into a     *)
(* Redis hash per bucket of time; a bucket is copied to the database when  *)
(* the first trade of another bucket is seen, or by a minute cron once it  *)
(* is two intervals old.  Each trade is a call whose steps are separated   *)
(* by awaits, and calls overlap.  Redis is taken to answer, and to keep a  *)
(* bucket until it is persisted.                                           *)
(***************************************************************************)
EXTENDS Integers, Sequences, FiniteSets, FiniteSetsExt, Functions

CONSTANTS
  Calls,      \* identities of calls of updateOhlc that overlap
  Prices,     \* the prices of the trades, in the order they arrive; 0 when
              \*   the pair has no native price
  LastBucket  \* bound: buckets 0..LastBucket

ASSUME OhlcAssumption == Prices \in Seq(Nat) /\ LastBucket \in Nat /\ IsFiniteSet(Calls)

VARIABLES
  now,        \* the bucket of the current time
  bars,       \* OHLC_BUCKET of each bucket
  close,      \* OHLC_LAST_CLOSE
  seen,       \* seenBuckets of the service
  calls,      \* updateOhlc calls awaiting something
  rows        \* ohlc_candles

ohlcVars == <<now, bars, close, seen, calls, rows>>

Buckets == 0..LastBucket
None    == -1
Bar     == [open : Int, high : Int, low : Int, close : Int, volume : Nat]
NoBar   == [open |-> None, high |-> None, low |-> None, close |-> None, volume |-> 0]
NoCall  == [pc |-> "idle", bucket |-> None, prev |-> None, price |-> None, bar |-> NoBar]

OhlcTypeOK ==
  /\ now \in Buckets
  /\ \A b \in Buckets : \A bar \in {bars[b], rows[b]} :
       bar # NoBar => bar.low <= bar.close /\ bar.close <= bar.high /\ bar.open <= bar.high
                      /\ bar.volume \in 1..Len(Prices)
  /\ \A b \in Buckets : bars[b] # NoBar => b <= now
  /\ seen \in Buckets \cup {None}
  /\ \A c \in Calls : calls[c].pc \in {"idle", "read", "persist", "eval"}

OhlcInit ==
  /\ now = 0
  /\ bars = [b \in Buckets |-> NoBar]
  /\ close = None
  /\ seen = None
  /\ calls = [c \in Calls |-> NoCall]
  /\ rows = [b \in Buckets |-> NoBar]

Arrived ==
  SumFunction([b \in Buckets |-> bars[b].volume])
    + Cardinality({c \in Calls : calls[c].pc # "idle"})

(* A trade: the bucket of the call is fixed before its first await, and    *)
(* the bucket seen last is read then.                                      *)
Trade(c) ==
  LET stale == seen # None /\ seen # now IN
  /\ calls[c].pc = "idle"
  /\ Arrived + 1 \in DOMAIN Prices
  /\ calls' = [calls EXCEPT ![c] = [pc |-> IF stale THEN "read" ELSE "eval", bucket |-> now,
                                    prev |-> IF stale THEN seen ELSE None, price |-> Prices[Arrived + 1], bar |-> NoBar]]
  /\ seen' = IF stale THEN seen ELSE now
  /\ UNCHANGED <<now, bars, close, rows>>

ReadyToFold(call) == [call EXCEPT !.pc = "eval", !.prev = None, !.bar = NoBar]

ReadPrevious(c) ==
  LET call == calls[c]
      bar  == bars[call.prev] IN
  /\ call.pc = "read"
  /\ calls' = [calls EXCEPT ![c] = IF bar = NoBar THEN ReadyToFold(call)
                                   ELSE [call EXCEPT !.pc = "persist", !.bar = bar]]
  /\ seen' = IF bar = NoBar THEN call.bucket ELSE seen
  /\ UNCHANGED <<now, bars, close, rows>>

(* Mutant: the candle written last replaces the row.                       *)
PersistedMutant(b, bar) == [rows EXCEPT ![b] = bar]

(* flushFinishedBucket: INSERT ... ON CONFLICT DO NOTHING.                 *)
Persisted(b, bar) == IF rows[b] = NoBar THEN [rows EXCEPT ![b] = bar] ELSE rows

(* The insert succeeds, or its error is logged; seenBuckets moves on.      *)
PersistPrevious(c) ==
  LET call == calls[c] IN
  /\ call.pc = "persist"
  /\ rows' \in {rows, Persisted(call.prev, call.bar)}
  /\ seen' = call.bucket
  /\ calls' = [calls EXCEPT ![c] = ReadyToFold(call)]
  /\ UNCHANGED <<now, bars, close>>

Higher(x, y) == IF x >= y THEN x ELSE y
Lower(x, y)  == IF x <= y THEN x ELSE y

(* The candle a bucket opens with.                                         *)
Opened(p) ==
  LET open == IF close = None THEN p ELSE close IN
  [open |-> open, high |-> Higher(open, p), low |-> Lower(open, p), close |-> p, volume |-> 0]

(* Mutant: the high of an existing bucket is not raised.                   *)
FoldMutant(c) ==
  LET call == calls[c]
      old  == IF bars[call.bucket] = NoBar THEN Opened(call.price) ELSE bars[call.bucket] IN
  /\ call.pc = "eval"
  /\ bars' = [bars EXCEPT ![call.bucket] =
       [old EXCEPT !.close = call.price,
                   !.low = IF @ = 0 THEN call.price ELSE Lower(@, call.price),
                   !.volume = @ + 1]]
  /\ close' = call.price
  /\ calls' = [calls EXCEPT ![c] = NoCall]
  /\ UNCHANGED <<now, seen, rows>>

(* The script that folds a trade into its bucket; a low of 0 counts as     *)
(* unset.                                                                  *)
Fold(c) ==
  LET call == calls[c]
      old  == IF bars[call.bucket] = NoBar THEN Opened(call.price) ELSE bars[call.bucket] IN
  /\ call.pc = "eval"
  /\ bars' = [bars EXCEPT ![call.bucket] =
       [old EXCEPT !.close = call.price, !.high = Higher(@, call.price),
                   !.low = IF @ = 0 THEN call.price ELSE Lower(@, call.price),
                   !.volume = @ + 1]]
  /\ close' = call.price
  /\ calls' = [calls EXCEPT ![c] = NoCall]
  /\ UNCHANGED <<now, seen, rows>>

(* Time goes on; a call lasts less than two intervals.                     *)
NextBucket ==
  /\ now < LastBucket
  /\ \A c \in Calls : calls[c].pc # "idle" => calls[c].bucket = now
  /\ now' = now + 1
  /\ UNCHANGED <<bars, close, seen, calls, rows>>

(* Mutant: only the bucket right at the limit is flushed.                  *)
StaleMutant == {b \in Buckets : b = now - 2 /\ bars[b] # NoBar}

Stale == {b \in Buckets : b < now - 2 /\ bars[b] # NoBar}

(* The cron, for one key of its scan.                                      *)
FlushStale ==
  /\ \E b \in Stale : rows[b] = NoBar /\ rows' = Persisted(b, bars[b])
  /\ UNCHANGED <<now, bars, close, seen, calls>>

OhlcStep ==
  \/ \E c \in Calls : Trade(c) \/ ReadPrevious(c) \/ PersistPrevious(c) \/ Fold(c)
  \/ NextBucket
  \/ FlushStale

-------------------------------------------------------------------------------
(***************************************************************************)
(* Properties                                                              *)
(***************************************************************************)

(* However calls of two buckets overlap and seenBuckets moves back and     *)
(* forth, a persisted candle is a prefix of its bucket and never changes.  *)
RowsAreFinalPrefixes ==
  [][\A b \in Buckets :
       /\ rows[b] # NoBar => rows'[b] = rows[b]
       /\ rows'[b] # NoBar => /\ rows'[b].open = bars'[b].open
                              /\ rows'[b].high <= bars'[b].high
                              /\ rows'[b].volume <= bars'[b].volume]_ohlcVars

(* A bucket with trades reaches the database although its neighbour may    *)
(* never see another trade and inserts fail: the cron finds it.            *)
BucketsArePersisted ==
  \A b \in 0..(LastBucket - 3) : bars[b] # NoBar ~> rows[b] # NoBar
==============================================================================
