----------------------------- MODULE MCPortfolio -----------------------------
(***************************************************************************)
(* Portfolio and staking, one component at a time like MCMarket;           *)
(* MCServices runs them together with the accounts.                        *)
(***************************************************************************)
EXTENDS TradeHistory, PortfolioPnl, PortfolioView, ActivityFeed, StakingHistory, StakingActions, TLC

VARIABLE focus

Parts == {"history", "pnl", "view", "feed", "staking", "actions"}

Leg(mint, n, from, to) == [mint |-> mint, amount |-> n, from |-> from, to |-> to]
Trade(out, in) == [described |-> TRUE,
                   transfers |-> <<Leg(out.mint, out.amount, TRUE, FALSE), Leg(in.mint, in.amount, FALSE, TRUE)>>]

(* Buys and sales of one token at two prices, one of another token, one    *)
(* token for another, a trade Helius did not describe and one without its  *)
(* transfers, as the stream of swaps stores it.                            *)
MCSwaps ==
  {Trade(Token("SOL", 4), Token("a", 2)), Trade(Token("SOL", 2), Token("a", 2)),
   Trade(Token("a", 1), Token("SOL", 4)), Trade(Token("a", 2), Token("SOL", 1)),
   Trade(Token("SOL", 1), Token("b", 3)), Trade(Token("b", 2), Token("SOL", 3)),
   Trade(Token("a", 1), Token("b", 2)),
   [Trade(Token("a", 1), Token("SOL", 2)) EXCEPT !.described = FALSE],
   [described |-> TRUE, transfers |-> <<>>]}

OnDay(d, p) == [day |-> d, price |-> p]
MCSolPrices == {<<OnDay(1, 2), OnDay(1, 3), OnDay(2, 0)>>,
                <<OnDay(0, 2), OnDay(1, 1), OnDay(1, 2), OnDay(2, 1)>>}

MCPortfolios ==
  {<<>>, <<[mint |-> "a", amount |-> 2], [mint |-> "b", amount |-> 0], [mint |-> "a", amount |-> 1]>>,
   <<[mint |-> "b", amount |-> 3], [mint |-> "a", amount |-> 1]>>}
NoPrices == [m \in {} |-> 0]
MCTokenPrices == {NoPrices, [m \in {"a", "b"} |-> IF m = "a" THEN 2 ELSE 1]}
MCNameRank == [m \in {"a", "SOL"} |-> IF m = "a" THEN 1 ELSE 2]

HeliusTx(type, tokens, natives) ==
  [type |-> type, dex |-> FALSE, event |-> "none", nativeInput |-> 0, nativeOutput |-> 0,
   tokenInput |-> {}, tokenOutput |-> {}, tokens |-> tokens, natives |-> natives, changes |-> <<>>]

Pay == Leg("SOL", 2000, "w", "x")
Coins == Leg("a", 5, "x", "w")
Sold == Leg("a", 5, "w", "x")
Dusty == Leg("SOL", 10, "w", "x")

(* The kinds of transactions, and pages of them that differ in what is     *)
(* left out and in which transfers of SOL are asked about again.           *)
Kind == [pay     |-> HeliusTx("TRANSFER", <<>>, <<Pay>>),
         buy     |-> HeliusTx("TRANSFER", <<Coins>>, <<Pay>>),
         sell    |-> HeliusTx("TRANSFER", <<Sold>>, <<Leg("SOL", 2000, "x", "w")>>),
         gift    |-> HeliusTx("TRANSFER", <<Coins>>, <<Dusty>>),
         sent    |-> HeliusTx("TRANSFER", <<Sold>>, <<>>),
         dust    |-> HeliusTx("TRANSFER", <<>>, <<Dusty>>),
         others  |-> HeliusTx("TRANSFER", <<Leg("a", 5, "x", "x")>>, <<Dusty>>),
         wrapped |-> HeliusTx("TRANSFER", <<Leg("SOL", 5, "x", "x")>>, <<Leg("SOL", 10, "x", "w")>>),
         foreign |-> HeliusTx("TRANSFER", <<Leg("a", 5, "x", "x")>>, <<>>),
         changed |-> [HeliusTx("TRANSFER", <<>>, <<Pay>>) EXCEPT !.changes = <<Token("b", 7), Token("a", -1)>>],
         spent   |-> [HeliusTx("TRANSFER", <<Coins>>, <<Dusty>>) EXCEPT !.changes = <<Token("b", -7)>>],
         stake   |-> HeliusTx("STAKE_SOL", <<>>, <<Pay>>),
         unstake |-> HeliusTx("UNSTAKE", <<>>, <<>>),
         mint    |-> HeliusTx("NFT_MINT", <<>>, <<>>),
         named   |-> [HeliusTx("SWAP", <<Sold, Coins>>, <<>>) EXCEPT !.event = "swap", !.nativeInput = 3, !.tokenOutput = {Token("a", 5)}],
         unnamed |-> [HeliusTx("UNKNOWN", <<Sold, Coins>>, <<>>) EXCEPT !.dex = TRUE]]

MCFeeds ==
  {<<Kind[a], Kind[b]>> : a, b \in DOMAIN Kind}
    \cup {<<Kind.pay, Kind.dust, Kind.pay, Kind.buy, Kind.pay, Kind.pay>>}
MCDetails == {NoAmount, Token("b", 4)}

Pool(total, supply, available) == [total |-> total, supply |-> supply, available |-> available]
MCStakePools == {Pool(7, 5, 3), Pool(7, 5, -1), Pool(0, 0, 0)}
MCValidatorLists == {<<[status |-> 1, stake |-> 9], [status |-> 0, stake |-> 4]>>}

portfolioVars == <<historyVars, pnlVars, viewVars, feedVars, stakingVars, actionVars>>

(* The choices of a component that is not in focus are fixed.              *)
PortfolioInit ==
  /\ HistoryInit
  /\ PnlInit     /\ (focus # "pnl" => priceChart = DailyClose(CHOOSE series \in SolPrices : TRUE))
  /\ ViewInit    /\ (focus # "view" => accounts = <<>> /\ chainSol = 0 /\ balance = 0 /\ market = NoPrices)
  /\ FeedInit    /\ (focus # "feed" => page = <<Kind.mint, Kind.mint>>)
  /\ StakingInit /\ (focus # "staking" => sigs = <<>>)
  /\ ActionsInit /\ (focus # "actions" => pool.total = 0)

History   == focus = "history"    /\ HistoryStep   /\ UNCHANGED <<pnlVars, viewVars, feedVars, stakingVars, actionVars>>
Pnl       == focus = "pnl"        /\ PnlStep       /\ UNCHANGED <<historyVars, viewVars, feedVars, stakingVars, actionVars>>
View      == focus = "view"       /\ ViewStep      /\ UNCHANGED <<historyVars, pnlVars, feedVars, stakingVars, actionVars>>
Feed      == focus = "feed"       /\ FeedStep      /\ UNCHANGED <<historyVars, pnlVars, viewVars, stakingVars, actionVars>>
Staking   == focus = "staking"    /\ StakingStep   /\ UNCHANGED <<historyVars, pnlVars, viewVars, feedVars, actionVars>>
Actions   == focus = "actions"    /\ ActionsStep   /\ UNCHANGED <<historyVars, pnlVars, viewVars, feedVars, stakingVars>>

PortfolioStep == History \/ Pnl \/ View \/ Feed \/ Staking \/ Actions

PortfolioTypeOK ==
  /\ HistoryTypeOK /\ PnlTypeOK /\ ViewTypeOK /\ FeedTypeOK /\ StakingTypeOK /\ ActionsTypeOK

(* What PortfolioView and ActivityFeed show of one wallet is right: the    *)
(* copies of the code that value it agree, and a transfer is shown with    *)
(* the wallet at the end it had, unless all of them are between others.    *)
WalletShownRight == ViewsAgree /\ TransfersReadRight
===============================================================================
