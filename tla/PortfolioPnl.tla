---------------------------- MODULE PortfolioPnl -----------------------------
(***************************************************************************)
(* Profit and loss by average cost, computed three times over the same     *)
(* swaps: per token for the overview and for the performance               *)
(* (calculatePnl), and as a running sum for the chart of a time frame.     *)
(* The swaps arrive in the order of their time, which calculatePnl sorts   *)
(* by and the chart's query orders by.  SOL amounts are in a unit small    *)
(* enough to divide; a quotient is rounded down to it.  A bucket of the    *)
(* chart is one day.                                                       *)
(***************************************************************************)
EXTENDS Integers, FiniteSets, Sequences, Functions, FiniteSetsExt, SequencesExt

CONSTANTS
  Swaps,       \* bound: the swaps replayed, as stored: transfers and description
  SolPrices,   \* bound: the prices of SOL recorded, in order: day and price
  MaxSwaps,    \* bound: swaps replayed
  LastDay      \* bound: the days the chart covers

ASSUME PnlAssumption ==
  /\ \A swap \in Swaps :
       swap.transfers \in Seq([mint : STRING, amount : Nat, from : BOOLEAN, to : BOOLEAN])
  /\ SolPrices \subseteq Seq([day : Nat, price : Nat])
  /\ MaxSwaps \in Nat /\ LastDay \in Nat \ {0}

VARIABLES
  pnlMap,      \* calculatePnl: the record of each token met
  runningHoldings,
  cumulativePnlSol,
  day,         \* the chart's bucket; 0: before the start of the time frame
  priceChart,  \* the history of the SOL price
  points,      \* chart_data
  traded,      \* the days of the swaps
  replayed,
  received,    \* history: SOL received by the sales of each token
  earnedBy,    \* history: what calculatePnl had earned by the end of each bucket
  covered,     \* history: no sale exceeded what was bought before it
  comparable   \* history: the chart saw every swap calculatePnl did

pnlVars == <<pnlMap, runningHoldings, cumulativePnlSol, day, priceChart, points, traded, replayed,
             received, earnedBy, covered, comparable>>

Sol == "SOL"
Empty == [m \in {} |-> 0]
NoRecord == [pnl |-> 0, investment |-> 0, bought |-> 0, spent |-> 0]
NoHolding == [bought |-> 0, spent |-> 0]
Of(f, m, default) == IF m \in DOMAIN f THEN f[m] ELSE default
With(f, m, v) == [k \in DOMAIN f \cup {m} |-> IF k = m THEN v ELSE f[k]]

PnlTypeOK ==
  /\ DOMAIN runningHoldings \subseteq STRING
  /\ \A m \in DOMAIN pnlMap : pnlMap[m].bought >= 0 /\ pnlMap[m].spent >= 0 /\ pnlMap[m].investment >= 0
  /\ \A m \in DOMAIN runningHoldings : runningHoldings[m].bought >= 0 /\ runningHoldings[m].spent >= 0
  /\ day \in 0..LastDay /\ Len(points) = (IF day = 0 THEN 0 ELSE day - 1) /\ replayed \in 0..MaxSwaps
  /\ traded \subseteq 0..day

(* getPriceHistory: the last positive price of each day.                   *)
DailyClose(events) ==
  LET positive == {i \in DOMAIN events : events[i].price > 0}
  IN  [d \in {events[i].day : i \in positive} |-> events[Max({i \in positive : events[i].day = d})].price]

PnlInit ==
  /\ pnlMap = Empty /\ runningHoldings = Empty /\ cumulativePnlSol = 0
  /\ day = 0 /\ priceChart \in {DailyClose(e) : e \in SolPrices} /\ points = <<>> /\ replayed = 0
  /\ traded = {} /\ earnedBy = <<>> /\ received = Empty /\ covered = TRUE /\ comparable = TRUE

(* find((t) => t.fromUserAccount), find((t) => t.toUserAccount).           *)
FirstTransfer(transfers, side) ==
  LET some == {i \in DOMAIN transfers : transfers[i][side]}
  IN  IF some = {} THEN {} ELSE {transfers[Min(some)]}

(* A swap as the loops read it, a set of at most one: whether it buys, the *)
(* token and the amounts.  What comes in as SOL is a sale.                 *)
Reading(transfers) ==
  {r \in {[isBuy |-> in.mint # Sol,
           mint |-> IF in.mint # Sol THEN in.mint ELSE out.mint,
           sol |-> IF in.mint # Sol THEN out.amount ELSE in.amount,
           tokens |-> IF in.mint # Sol THEN in.amount ELSE out.amount] :
             out \in FirstTransfer(transfers, "from"), in \in FirstTransfer(transfers, "to")} :
     r.sol # 0 /\ r.tokens # 0}

Cost(r, lot) == IF lot.bought > 0 THEN (r.tokens * lot.spent) \div lot.bought ELSE 0
AtLeast0(n) == IF n > 0 THEN n ELSE 0
Left(r, lot) == [lot EXCEPT !.bought = AtLeast0(@ - r.tokens), !.spent = AtLeast0(@ - Cost(r, lot))]
More(r, lot) == [lot EXCEPT !.bought = @ + r.tokens, !.spent = @ + r.sol]

(* calculatePnl, one swap: a sale without a lot changes nothing.           *)
Record(r, old) ==
  IF r.isBuy
  THEN [More(r, old) EXCEPT !.investment = @ + r.sol]
  ELSE IF old.bought > 0
       THEN [Left(r, old) EXCEPT !.pnl = @ + r.sol - Cost(r, old)]
       ELSE old

CalculatePnl(swap) ==
  IF swap.described /\ Reading(swap.transfers) # {}
  THEN LET r == CHOOSE x \in Reading(swap.transfers) : TRUE
       IN  pnlMap' = With(pnlMap, r.mint, Record(r, Of(pnlMap, r.mint, NoRecord)))
  ELSE UNCHANGED pnlMap

(* Mutant: the chart takes the cost of the lot after the sale.             *)
ChartGainMutant(r, lot) == r.sol - Cost(r, Left(r, lot))

ChartGain(r, lot) == r.sol - Cost(r, lot)

(* The loop of getPnlChart, one swap: without a lot the cost is zero.      *)
ChartSwap(swap) ==
  IF day > 0 /\ Reading(swap.transfers) # {}
  THEN LET r == CHOOSE x \in Reading(swap.transfers) : TRUE
           lot == Of(runningHoldings, r.mint, NoHolding)
       IN  /\ cumulativePnlSol' = (IF r.isBuy THEN cumulativePnlSol ELSE cumulativePnlSol + ChartGain(r, lot))
           /\ runningHoldings' = With(runningHoldings, r.mint, IF r.isBuy THEN More(r, lot) ELSE Left(r, lot))
  ELSE UNCHANGED <<cumulativePnlSol, runningHoldings>>

Observe(swap) ==
  /\ received' = IF swap.described /\ Reading(swap.transfers) # {}
                 THEN LET r == CHOOSE x \in Reading(swap.transfers) : TRUE
                      IN  IF r.isBuy THEN received ELSE With(received, r.mint, Of(received, r.mint, 0) + r.sol)
                 ELSE received
  /\ covered' = (covered /\ \A r \in Reading(swap.transfers) :
                   r.isBuy \/ ~swap.described \/ r.tokens <= Of(pnlMap, r.mint, NoRecord).bought)
  /\ comparable' = (comparable /\ (Reading(swap.transfers) = {} \/ (day > 0 /\ swap.described)))

Replay ==
  /\ replayed < MaxSwaps /\ replayed' = replayed + 1 /\ traded' = traded \cup {day}
  /\ \E swap \in Swaps : CalculatePnl(swap) /\ ChartSwap(swap) /\ Observe(swap)
  /\ UNCHANGED <<day, priceChart, points, earnedBy>>

(* historyFrom: the first swap of the chart, or its start without one.     *)
HistoryFrom == IF traded \ {0} = {} THEN 1 ELSE Min(traded \ {0})

(* getSolPriceNear: the price of the day or of the last one before it, of  *)
(* those since the first swap of the chart.                                *)
SolPriceNear(d) ==
  LET earlier == {e \in DOMAIN priceChart : HistoryFrom <= e /\ e <= d}
  IN  IF earlier = {} THEN 0 ELSE priceChart[Max(earlier)]

Earnings(map) == SumFunction([m \in DOMAIN map |-> map[m].pnl])

StartOfChart ==
  /\ day = 0 /\ day' = 1
  /\ UNCHANGED <<pnlMap, runningHoldings, cumulativePnlSol, priceChart, points, traded, replayed, received,
                 earnedBy, covered, comparable>>

EndOfBucket ==
  /\ day \in 1..(LastDay - 1) /\ day' = day + 1
  /\ points' = Append(points, cumulativePnlSol * SolPriceNear(day))
  /\ earnedBy' = Append(earnedBy, Earnings(pnlMap))
  /\ UNCHANGED <<pnlMap, runningHoldings, cumulativePnlSol, priceChart, traded, replayed, received,
                 covered, comparable>>

PnlStep == Replay \/ StartOfChart \/ EndOfBucket

-------------------------------------------------------------------------------
Traded == DOMAIN pnlMap

(* getAvgHistoricalSolPrice, in units of a price: the mean of the days     *)
(* from the first swap to the last, or the current price without one.      *)
AverageSolPrice(current) ==
  LET range == {d \in DOMAIN priceChart : \E a, b \in traded : a <= d /\ d <= b}
  IN  IF range = {} THEN current
      ELSE SumFunction([d \in range |-> priceChart[d]]) \div Cardinality(range)

(* The profit and loss of getOverview.                                     *)
Overview(solPrice, price) ==
  LET realized == SumFunction([m \in Traded |-> pnlMap[m].pnl * AverageSolPrice(solPrice)])
      unrealized == SumFunction([m \in {n \in Traded : pnlMap[n].bought > 0} |->
                                   pnlMap[m].bought * price - pnlMap[m].spent * solPrice])
  IN  [realized |-> realized, unrealized |-> unrealized, total |-> realized + unrealized,
       investment |-> SumFunction([m \in Traded |-> pnlMap[m].investment * solPrice])]

(* getPerformance: the tokens by what they earned, the best three and the  *)
(* worst three of them.                                                    *)
Performance(solPrice) ==
  LET earned == [m \in Traded |-> pnlMap[m].pnl * AverageSolPrice(solPrice)]
      ranked == SetToSortSeq(Traded, LAMBDA a, b : earned[a] > earned[b])
      n == Len(ranked)
  IN  [total |-> SumFunction(earned),
       winners |-> Cardinality({m \in Traded : earned[m] > 0}),
       top |-> SubSeq(ranked, 1, Min({3, n})),
       worst |-> Reverse(SubSeq(ranked, Max({1, n - 2}), n))]

(***************************************************************************)
(* Properties                                                              *)
(***************************************************************************)

(* What came in by sales and what is still held, less what was put in.     *)
NetWorth(solPrice, price) ==
  SumFunction([m \in Traded |-> (Of(received, m, 0) - pnlMap[m].investment) * solPrice + pnlMap[m].bought * price])

(* Nothing is lost in the average costs: while no sale exceeded its lot,   *)
(* what a token earned and what its lot still cost make up the difference  *)
(* between the SOL received and the SOL spent on it; and where the mean    *)
(* price of SOL is the current one, the total of the overview is what came *)
(* in and what is held less what was put in.  Who earned has a winner:     *)
(* the performance names one whenever the overview shows a profit made.    *)
(* And each point of the chart is what calculatePnl had earned by then, at *)
(* the price near that day, when the chart covers every swap and no sale   *)
(* lacks its lot.                                                          *)
PnlIsConsistent ==
  /\ covered =>
       /\ \A m \in Traded : pnlMap[m].pnl = Of(received, m, 0) - pnlMap[m].investment + pnlMap[m].spent
       /\ \A p, q \in 1..2 : AverageSolPrice(p) = p => Overview(p, q).total = NetWorth(p, q)
  /\ \A p, q \in 1..2 : Overview(p, q).realized > 0 => Performance(p).winners > 0
  /\ covered /\ comparable => \A i \in DOMAIN points : points[i] = earnedBy[i] * SolPriceNear(i)
===============================================================================
