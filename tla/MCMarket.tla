------------------------------- MODULE MCMarket -------------------------------
(***************************************************************************)
(* Market data.  The components share no variable, so one run checks them  *)
(* one at a time: focus, chosen initially, says which one moves.           *)
(***************************************************************************)
EXTENDS TokenPrice, TokenCharts, StatsPersistor, HolderRows, HolderPnl, TraderPositions, TradeFeed,
        HolderTracking, TokenCatalogue, DiscoveryWindows, CoinGecko, TLC

VARIABLE focus

Components == {"price", "ohlc", "stats", "holder", "books", "trader", "feed", "chart", "tracking", "catalogue",
               "discovery", "coingecko"}

Msg(kind, slot, price, quoted, native) ==
  [kind |-> kind, slot |-> slot, price |-> price, quoted |-> quoted, native |-> native]

(* A swap without a price, one too dear for tokens.price and without a     *)
(* native price, an update dearer than the newest swap, and that swap.     *)
MCMessages == {Msg("swap", 1, 0, 0, TRUE), Msg("swap", 2, 4, 1, FALSE),
               Msg("update", 3, 3, 0, TRUE), Msg("swap", 4, 2, 3, TRUE)}

MCPrices == <<2, 0, 3, 1, 2>>

MCCharts == {[back |-> 3, ahead |-> 2, limit |-> 3]}
MCCandle(open, closing) == [NoBar EXCEPT !.open = open, !.close = closing]
MCOhlcAnswers == {NoCandles, (1 :> MCCandle(1, 2)) @@ (3 :> MCCandle(2, 4)), 2 :> MCCandle(3, 3)}

(* Bought, sold in part, and sold for more than is left at an unknown      *)
(* price.                                                                  *)
Deal(day, buys, raw, usd) ==
  [day |-> day, buys |-> buys, raw |-> raw, usd |-> usd, priced |-> day # 4]

MCDeals   == {Deal(1, TRUE, 3, 7), Deal(2, FALSE, 1, 5), Deal(4, FALSE, 3, 1)}
MCReports == {[balance |-> 1, boughtRaw |-> 2, bought |-> 4, sold |-> 3]}

MCPriceSeries == {<<>>, <<[day |-> 2, price |-> 0], [day |-> 3, price |-> 4]>>,
                  <<[day |-> 3, price |-> 2]>>}

MCListed == <<"a", "b">>

MCRankings == {<<"a", "b", "c">>, <<"b", "c", "a">>}
MCMarketCaps == {("x" :> 2) @@ ("y" :> 1) @@ ("z" :> 0), ("x" :> 1) @@ ("y" :> 2) @@ ("z" :> 3)}

tradeVars == <<priceVars, ohlcVars, chartVars, statsVars, holderVars, bookVars, traderVars, feedVars>>
tokenVars == <<trackingVars, catalogueVars, discoveryVars, cgVars>>
vars == <<focus, tradeVars, tokenVars>>

Init ==
  /\ focus \in Components
  /\ PriceInit /\ OhlcInit /\ ChartInit /\ StatsInit /\ HolderInit /\ BookInit /\ TraderInit /\ FeedInit
  /\ TrackingInit /\ CatalogueInit /\ DiscoveryInit /\ CgInit
  /\ focus # "price" => row = 0
  /\ focus # "chart" => interval = "realtime"
  /\ interval = "realtime" => linked
  /\ focus # "discovery" => paged = "trending"
  /\ paged = "trending" => caps = CHOOSE c \in MarketCaps : TRUE
  /\ focus # "discovery" \/ paged = "window" => ranking = CHOOSE r \in Rankings : TRUE

Price     == focus = "price"        /\ PriceStep     /\ UNCHANGED <<focus, ohlcVars, chartVars, statsVars, holderVars, bookVars, traderVars, feedVars, tokenVars>>
Ohlc      == focus = "ohlc"         /\ OhlcStep      /\ UNCHANGED <<focus, priceVars, chartVars, statsVars, holderVars, bookVars, traderVars, feedVars, tokenVars>>
(* A chart is read beside three trades, or beside the clock only: trades   *)
(* do not touch the rows of a long interval.  Nothing moves between the    *)
(* answer and the next request.                                            *)
Writers   == chart.stage # "done" /\ OhlcStep /\ Arrived' <= (IF interval = "long" THEN 0 ELSE 3)
Chart     == /\ focus = "chart"
             /\ (ChartStep /\ UNCHANGED ohlcVars) \/ (Writers /\ UNCHANGED chartVars)
             /\ UNCHANGED <<focus, priceVars, statsVars, holderVars, bookVars, traderVars, feedVars, tokenVars>>
Stats     == focus = "stats"        /\ StatsStep     /\ UNCHANGED <<focus, priceVars, ohlcVars, chartVars, holderVars, bookVars, traderVars, feedVars, tokenVars>>
Holder    == focus = "holder"       /\ HolderStep    /\ UNCHANGED <<focus, priceVars, ohlcVars, chartVars, statsVars, bookVars, traderVars, feedVars, tokenVars>>
Books     == focus = "books"        /\ BookStep      /\ UNCHANGED <<focus, priceVars, ohlcVars, chartVars, statsVars, holderVars, traderVars, feedVars, tokenVars>>
Trader    == focus = "trader"       /\ TraderStep    /\ UNCHANGED <<focus, priceVars, ohlcVars, chartVars, statsVars, holderVars, bookVars, feedVars, tokenVars>>
Feed      == focus = "feed"         /\ FeedStep      /\ UNCHANGED <<focus, priceVars, ohlcVars, chartVars, statsVars, holderVars, bookVars, traderVars, tokenVars>>
Tracking  == focus = "tracking"     /\ TrackingStep  /\ UNCHANGED <<focus, catalogueVars, discoveryVars, cgVars, tradeVars>>
Catalogue == focus = "catalogue"    /\ CatalogueStep /\ UNCHANGED <<focus, trackingVars, discoveryVars, cgVars, tradeVars>>
Discovery == focus = "discovery"    /\ DiscoveryStep /\ UNCHANGED <<focus, trackingVars, catalogueVars, cgVars, tradeVars>>
Gecko     == focus = "coingecko"    /\ CgStep        /\ UNCHANGED <<focus, trackingVars, catalogueVars, discoveryVars, tradeVars>>

Next == Price \/ Ohlc \/ Chart \/ Stats \/ Holder \/ Books \/ Trader \/ Feed \/ Tracking \/ Catalogue \/ Discovery \/ Gecko

(* The crons run, time goes on and calls that wait are answered; a token   *)
(* CoinGecko can find is found and stored now and then.                    *)
Fairness ==
  /\ WF_ohlcVars(focus \in {"ohlc", "chart"} /\ (NextBucket \/ FlushStale))
  /\ WF_ohlcVars(focus \in {"ohlc", "chart"} /\ \E c \in Calls : ReadPrevious(c) \/ PersistPrevious(c) \/ Fold(c))
  /\ WF_catalogueVars(focus = "catalogue" /\ ResolveIds)
  /\ \A a \in Linkable : SF_catalogueVars(focus = "catalogue" /\ ResolveId(a) /\ catalogue'[a].linked)

Spec == Init /\ [][Next]_vars /\ Fairness

TypeOK ==
  /\ PriceTypeOK /\ OhlcTypeOK /\ ChartTypeOK /\ StatsTypeOK /\ HolderTypeOK /\ BookTypeOK /\ TraderTypeOK /\ FeedTypeOK
  /\ TrackingTypeOK /\ CatalogueTypeOK /\ DiscoveryTypeOK /\ CgTypeOK

(* What is stored of a holder agrees: its row with its hash, the fields of *)
(* the hash with each other and with the ranking, and the chart made of    *)
(* its swaps with both.                                                    *)
HoldersAgree == QuietHolderAgrees /\ BooksBalance /\ ChartAgreesWithBooks
==============================================================================
