------------------------------ MODULE HolderPnl ------------------------------
(***************************************************************************)
(* The chart of what a holder earned on a mint: getHolderPnlChart replays  *)
(* the stored swaps in the order of their block time, by average cost, and *)
(* marks what is left to the recorded price at each bucket.  Its books are *)
(* those HolderBooks keeps live, made again from another source.  The      *)
(* answer, kept for two minutes, is left out: it is a function of tables   *)
(* that are read.                                                          *)
(***************************************************************************)
EXTENDS HolderBooks, FiniteSets, FiniteSetsExt, SequencesExt

CONSTANTS
  PriceSeries,  \* bound: recorded prices, sequences of [day, price] in order
  ChartStart,   \* the first bucket
  Today         \* the last bucket

ASSUME HolderChartAssumption ==
  /\ IsFiniteSet(Deals) /\ \A d \in Deals : d.priced \in BOOLEAN /\ (d.raw = 0 => d.usd = 0)
  /\ PriceSeries \subseteq Seq([day : Nat, price : Nat])
  /\ ChartStart \in Nat /\ Today \in Nat /\ ChartStart <= Today

(* Without a stored price a trade is worth nothing.                        *)
StoredUsd(t) == IF t.priced THEN t.usd ELSE 0

(* The swaps of the wallet and the mint that have a block time.            *)
Timed == {t \in dealt : t.day > 0}

NoLot == [held |-> 0, cost |-> 0, realized |-> 0]
Bought(lot, t) == [held |-> lot.held + t.raw, cost |-> lot.cost + StoredUsd(t), realized |-> lot.realized]
AtLeast0(n) == IF n > 0 THEN n ELSE 0

(* Mutant: a sale costs what all that is held cost.                        *)
ReplaySwapMutant(lot, t) ==
  IF t.buys THEN Bought(lot, t)
  ELSE IF lot.held <= 0 THEN lot
  ELSE [held |-> AtLeast0(lot.held - t.raw), cost |-> 0, realized |-> lot.realized + StoredUsd(t) - lot.cost]

(* A sale of what is not held is skipped; one of more than is held costs   *)
(* all of it, and is worth all it was sold for.                            *)
ReplaySwap(lot, t) ==
  LET sold == IF t.raw < lot.held THEN t.raw ELSE lot.held
      cost == (sold * lot.cost) \div lot.held IN
  IF t.buys THEN Bought(lot, t)
  ELSE IF lot.held <= 0 THEN lot
  ELSE [held     |-> AtLeast0(lot.held - sold),
        cost     |-> AtLeast0(lot.cost - cost),
        realized |-> lot.realized + StoredUsd(t) - cost]

(* The lot that swaps leave, replayed ORDER BY blockTime: the last of them *)
(* finds what the others left.                                             *)
Latest(S) == CHOOSE t \in S : \A u \in S : u.day <= t.day

Replayed[S \in SUBSET Deals] ==
  IF S = {} THEN NoLot ELSE ReplaySwap(Replayed[S \ {Latest(S)}], Latest(S))

(* getPriceNear: the last price so far, or else the first.                 *)
PriceNear(series, time) ==
  LET past == {i \in DOMAIN series : series[i].day <= time} IN
  IF series = <<>> THEN 0
  ELSE IF past = {} THEN series[1].price
  ELSE series[Max(past)].price

LotAt(time) == Replayed[{t \in Timed : t.day <= time}]

Point(series, time) ==
  LET lot        == LotAt(time)
      price      == PriceNear(series, time)
      value      == lot.held * price
      unrealized == IF price > 0 THEN value - lot.cost ELSE 0 IN
  [realized |-> lot.realized, unrealized |-> unrealized, total |-> lot.realized + unrealized,
   balance |-> value]

HolderPnlChart(series) ==
  IF Timed = {} THEN <<>>
  ELSE [i \in 1..(Today - ChartStart + 1) |-> Point(series, ChartStart + i - 1)]

-------------------------------------------------------------------------------
Until(time, buys) == {t \in Timed : t.day <= time /\ t.buys = buys}
Usd(S) == SumFunction([t \in S |-> StoredUsd(t)])
Raw(S) == SumFunction([t \in S |-> t.raw])
Held(time) == Raw(Until(time, TRUE)) - Raw(Until(time, FALSE))

(* Until then nothing was sold that had not been bought.                   *)
Covered(time) == \A t \in Timed : t.day <= time => Held(t.day) >= 0

(* The block times tell the swaps apart: those of the same time come from  *)
(* the table in any order, and a sale before its purchase is skipped.      *)
Ordered == \A t, u \in Timed : t.day = u.day => t = u

(* Whatever order the swaps arrived in, a point of the chart is what the   *)
(* holder got for the sales and would get for the rest, less what it paid; *)
(* and at the end of the chart the holder has realized what its live books *)
(* say, when these were kept from the same swaps, in order.                *)
ChartAgreesWithBooks ==
  queue = <<>> /\ Ordered => \A series \in PriceSeries :
    LET line == HolderPnlChart(series) IN
    /\ \A i \in DOMAIN line :
         LET time == ChartStart + i - 1 IN
         Covered(time) /\ PriceNear(series, time) > 0 =>
           line[i].total = Usd(Until(time, FALSE)) + Held(time) * PriceNear(series, time)
                              - Usd(Until(time, TRUE))
    /\ line # <<>> /\ ~diverged /\ ~muddled /\ Covered(Today)
         /\ (\A deal \in dealt : deal.priced /\ deal.day \in 1..Today) =>
         Last(line).realized = Get("realized")
==============================================================================
