----------------------------- MODULE TokenCharts ------------------------------
(***************************************************************************)
(* The chart of a token, read beside the writers of OhlcBuckets.  A short  *)
(* interval merges the buckets in Redis with the rows; a long one reads    *)
(* rows that CoinGecko backfills at most once an hour.  Buckets without a  *)
(* candle are filled when they are read.                                   *)
(***************************************************************************)
EXTENDS OhlcBuckets

CONSTANTS
  ChartWindows,   \* bound: the windows asked for, around now, in half buckets
  OhlcAnswers,    \* bound: what CoinGecko answers, none when it fails
  SeedPrices      \* bound: the reference price, 0 without one

IsCandles(f) == DOMAIN f \subseteq Nat /\ f \in [DOMAIN f -> Bar]

ASSUME ChartAssumption ==
  /\ \A w \in ChartWindows : w.back \in Int /\ w.ahead \in Int /\ w.limit \in Nat \ {0}
  /\ \A a \in OhlcAnswers : IsCandles(a)

VARIABLES
  interval,       \* the kind of interval the requests ask for
  chart,          \* the request
  longRows,       \* ohlc_candles of the long interval, by half bucket
  backfilled,     \* ohlc_backfill
  linked          \* mainnet, and the token has a coingeckoId

chartVars == <<interval, chart, longRows, backfilled, linked>>

NoCandles == [t \in {} |-> NoBar]
NoChart == [stage |-> "idle", from |-> 0, to |-> 0, limit |-> 1, end |-> 0,
            redis |-> NoCandles, rows |-> NoCandles, shown |-> NoCandles, seed |-> FALSE,
            then |-> {}, gone |-> {}]

ChartTypeOK ==
  /\ chart.stage \in {"idle", "redis", "rows", "marker", "ask", "insert", "reread", "done"}
  /\ interval \in {"realtime", "long"} /\ chart.from <= chart.to
  /\ DOMAIN longRows \subseteq 0..(2 * LastBucket + 1) /\ backfilled \in BOOLEAN

ChartInit ==
  /\ interval \in {"realtime", "long"}
  /\ chart = NoChart /\ longRows = NoCandles /\ backfilled = FALSE /\ linked \in BOOLEAN

BucketOf(t) == t \div 2
Within(candles, from, to) == [t \in {u \in DOMAIN candles : from <= u /\ u <= to} |-> candles[t]]
StoredRows == [t \in {2 * b : b \in {c \in Buckets : rows[c] # NoBar}} |-> rows[BucketOf(t)]]

(* resolveChartWindow: from and to in either order.                        *)
AskChart ==
  /\ chart.stage = "idle"
  /\ \E w \in ChartWindows :
       LET a == Higher(0, 2 * now - w.back)
           b == Higher(0, 2 * now + w.ahead)
       IN  chart' = [NoChart EXCEPT !.stage = IF interval = "realtime" THEN "redis" ELSE "rows",
                                    !.from = Lower(a, b), !.to = Higher(a, b), !.limit = w.limit,
                                    !.then = {t \in Buckets : bars[t] # NoBar}]
  /\ UNCHANGED <<interval, longRows, backfilled, linked>>

(* getHistoricalOhlc: the last limit buckets of the window; those that     *)
(* have expired are missing, and all of them when Redis fails.             *)
ReadBars ==
  LET first == Higher(BucketOf(chart.from), BucketOf(chart.to) - chart.limit + 1)
      there == {b \in Buckets : first <= b /\ b <= BucketOf(chart.to) /\ bars[b] # NoBar} IN
  /\ chart.stage = "redis"
  /\ \E gone \in {{}, {b \in there : b < now - 2}, Buckets} :
       chart' = [chart EXCEPT !.stage = "rows", !.gone = gone,
                              !.redis = [t \in {2 * b : b \in there \ gone} |-> bars[BucketOf(t)]]]
  /\ UNCHANGED <<interval, longRows, backfilled, linked>>

(* fillGaps and finalizeChartPoints: a bucket shows its last candle, or    *)
(* the close of the latest one before it, and opens where the one before   *)
(* it closed.                                                              *)
Filled(candles, limit, end) ==
  LET start == Higher(BucketOf(Min(DOMAIN candles)), end - (limit - 1))
      shows(b) == {t \in DOMAIN candles : BucketOf(t) = b}
      latest(b) == candles[Max({t \in DOMAIN candles : BucketOf(t) <= b})]
      flat(p) == [NoBar EXCEPT !.open = p, !.high = p, !.low = p, !.close = p]
      bar(b) == IF shows(b) = {} THEN flat(latest(b).close) ELSE latest(b)
  IN  [b \in start..end |-> IF b = start THEN bar(b) ELSE [bar(b) EXCEPT !.open = bar(b - 1).close]]

(* buildChartPoints: what there is, or one flat line at the reference      *)
(* price, which it then awaits.                                            *)
Built(request, candles) ==
  LET end == Lower(BucketOf(request.to), now)
  IN  IF candles = NoCandles THEN [request EXCEPT !.stage = "done", !.seed = TRUE, !.end = end]
      ELSE [request EXCEPT !.stage = "done", !.end = end, !.shown = Filled(candles, request.limit, end)]

(* Mutant: the candles written last win.                                   *)
MergedMutant(f, g) == [t \in DOMAIN f \cup DOMAIN g |-> IF t \in DOMAIN g THEN g[t] ELSE f[t]]

(* The candles of both, those of f where both have one: the ones in Redis  *)
(* before the persisted ones, and a stored row before a new one.           *)
Merged(f, g) == [t \in DOMAIN f \cup DOMAIN g |-> IF t \in DOMAIN f THEN f[t] ELSE g[t]]

(* getChartData reads the rows of the window.                              *)
ReadRows ==
  LET read == Within(IF interval = "realtime" THEN StoredRows ELSE longRows, chart.from, chart.to) IN
  /\ chart.stage = "rows"
  /\ chart' = IF interval = "realtime" THEN Built(chart, Merged(chart.redis, read))
              ELSE IF Cardinality(DOMAIN read) >= chart.limit \/ ~linked THEN Built(chart, read)
              ELSE [chart EXCEPT !.stage = "marker", !.rows = read]
  /\ UNCHANGED <<interval, longRows, backfilled, linked>>

(* A query that fails fails the request.                                   *)
ReadFails == chart.stage = "rows" /\ chart' = NoChart /\ UNCHANGED <<interval, longRows, backfilled, linked>>

(* The marker of the last hour; a failing read counts as none.             *)
ReadMarker ==
  /\ chart.stage = "marker"
  /\ \/ backfilled /\ chart' = Built(chart, chart.rows)
     \/ chart' = [chart EXCEPT !.stage = "ask"]
  /\ UNCHANGED <<interval, longRows, backfilled, linked>>

(* getOhlc, and the marker when it answered; a failure shows what was read.*)
(* Candles are of the past.                                                *)
AskCoinGecko ==
  /\ chart.stage = "ask"
  /\ \E answer \in {a \in OhlcAnswers : \A t \in DOMAIN a : BucketOf(t) <= now} :
       IF answer = NoCandles THEN chart' = Built(chart, chart.rows) /\ UNCHANGED backfilled
       ELSE \/ backfilled' = TRUE /\ chart' = [chart EXCEPT !.stage = "insert", !.redis = answer]
            \/ chart' = Built(chart, chart.rows) /\ UNCHANGED backfilled
  /\ UNCHANGED <<interval, longRows, linked>>

(* INSERT ... ON CONFLICT DO NOTHING, or it fails with the marker set.     *)
InsertCandles ==
  /\ chart.stage = "insert"
  /\ \/ longRows' = Merged(longRows, chart.redis) /\ chart' = [chart EXCEPT !.stage = "reread"]
     \/ chart' = Built(chart, chart.rows) /\ UNCHANGED longRows
  /\ UNCHANGED <<interval, backfilled, linked>>

RereadRows ==
  /\ chart.stage = "reread"
  /\ \E read \in {Within(longRows, chart.from, chart.to), chart.rows} : chart' = Built(chart, read)
  /\ UNCHANGED <<interval, longRows, backfilled, linked>>

(* The flat chart of a token nobody traded; none without a price.          *)
SeedFlat ==
  /\ chart.stage = "done" /\ chart.seed
  /\ \E p \in SeedPrices :
       LET end == Lower(BucketOf(chart.to), now)
           start == Higher(BucketOf(chart.from), end - (chart.limit - 1))
           flat == [NoBar EXCEPT !.open = p, !.high = p, !.low = p, !.close = p]
       IN  chart' = [chart EXCEPT !.seed = FALSE, !.end = end,
                                  !.shown = IF p = 0 THEN NoCandles ELSE [b \in start..end |-> flat]]
  /\ UNCHANGED <<interval, longRows, backfilled, linked>>

NextChart == chart.stage = "done" /\ ~chart.seed /\ chart' = NoChart /\ UNCHANGED <<interval, longRows, backfilled, linked>>

MarkerExpires == backfilled /\ backfilled' = FALSE /\ UNCHANGED <<interval, chart, longRows, linked>>

ChartStep ==
  \/ AskChart \/ ReadBars \/ ReadRows \/ ReadFails \/ ReadMarker \/ AskCoinGecko
  \/ InsertCandles \/ RereadRows \/ SeedFlat \/ NextChart \/ MarkerExpires

-------------------------------------------------------------------------------
(***************************************************************************)
(* Properties                                                              *)
(***************************************************************************)

(* A chart never takes back what an earlier reader could see: every bucket *)
(* of its window that was traded when it was asked for, and has not        *)
(* expired, is there and shows what Redis had of it, although its row may  *)
(* be a prefix written meanwhile; it ends at its window or now, has at     *)
(* most limit buckets and opens each where the last one closed.  With to   *)
(* in the future the limit counts from to for Redis and from now for the   *)
(* chart: only the buckets in both are promised.                           *)
ChartIsWhole ==
  chart.stage = "done" /\ DOMAIN chart.shown # {} =>
    LET shown == chart.shown
        S == DOMAIN shown
        traded == {b \in chart.then \ chart.gone :
                     BucketOf(chart.from) <= b /\ BucketOf(chart.to) - chart.limit < b /\ b <= chart.end}
    IN  /\ Cardinality(S) <= chart.limit /\ chart.end \in S /\ Max(S) = chart.end
        /\ \A b \in S \ {Min(S)} : b - 1 \in S /\ shown[b].open = shown[b - 1].close
        /\ interval = "realtime" =>
             /\ traded \subseteq S
             /\ \A b \in S : 2 * b \in DOMAIN chart.redis => shown[b].volume = chart.redis[2 * b].volume
             /\ \A b \in traded : shown[b].volume > 0
===============================================================================
