---------------------------- MODULE TradeHistory -----------------------------
(***************************************************************************)
(* The transactions table behind the profit and loss of the portfolio.     *)
(* fetchAllTrades pages through the chain newest first until it meets a    *)
(* transaction it knows, and caches what the table then holds.  The pages  *)
(* of getActivities, the statistics of the overview and the stream of      *)
(* swaps store into the same table meanwhile; the first row of a signature *)
(* wins.  A signature is the position of the transaction on the chain,     *)
(* which is its time as well.                                              *)
(***************************************************************************)
EXTENDS Integers, FiniteSets, Sequences, FiniteSetsExt, SequencesExt

CONSTANTS
  Holders,    \* the wallets of the user
  Kinds,      \* the types Helius gives the transactions
  PageSize,   \* limit of a page
  MaxPages,   \* MAX_PAGES_PER_WALLET
  LoadLimit,  \* the newest rows read of a wallet
  Cutoff,     \* the first transaction of the last two years
  MaxTx,      \* bound: transactions on the chain
  MaxAsides   \* bound: pages stored and swaps streamed outside fetchAllTrades

ASSUME TradesAssumption ==
  /\ IsFiniteSet(Holders)
  /\ PageSize \in Nat \ {0} /\ MaxPages \in Nat \ {0} /\ LoadLimit \in Nat \ {0}
  /\ Cutoff \in Nat /\ MaxTx \in Nat /\ MaxAsides \in Nat

VARIABLES
  txs,       \* the chain: of each transaction the wallets, its type and the wallets
             \* it traded for, by its event or by what they sent and received
  stored,    \* the rows of transactions: signature, signer, type, with transfers or not
  swaps,     \* helius-swaps-: the cached trades of a wallet, or none
  fetch,     \* fetchAllTrades: the wallets left, the sync of the first one; as
             \* history, the newest transaction at its first page and whether it
             \* met neither an error nor the limit of pages
  trades,    \* allSwaps: the trades of each wallet already done
  asides

historyVars == <<txs, stored, swaps, fetch, trades, asides>>

NotCached == {0}
NoFetch == [left |-> <<>>, known |-> {}, before |-> 0, pages |-> 0, stage |-> "wallet",
            top |-> 0, whole |-> TRUE]
Order == SetToSeq(Holders)

HistoryTypeOK ==
  /\ Len(txs) <= MaxTx
  /\ \A r \in stored : r.sig \in DOMAIN txs /\ r.signer \in Holders
  /\ swaps \in [Holders -> SUBSET (0..MaxTx)]
  /\ fetch.pages \in 0..MaxPages /\ fetch.stage \in {"wallet", "page", "load"}
  /\ Len(trades) + Len(fetch.left) \in {0, Cardinality(Holders)}

HistoryInit ==
  /\ txs = <<>> /\ stored = {} /\ swaps = [w \in Holders |-> NotCached]
  /\ fetch = NoFetch /\ trades = <<>> /\ asides = 0

(* isSwap: a transfer is kept as well; what is neither a swap nor a        *)
(* transfer is kept for a wallet that both sends and receives.             *)
IsSwap(w, tx) == tx.kind \in {"SWAP", "TRANSFER"} \/ w \in tx.traders

(* mapTxType.                                                              *)
MapTxType(kind) ==
  CASE kind \in {"STAKE_SOL", "STAKE"} -> "STAKE"
    [] kind \in {"UNSTAKE_SOL", "UNSTAKE"} -> "UNSTAKE"
    [] kind = "TRANSFER" -> "TRANSFER"
    [] OTHER -> "SWAP"

(* getEnhancedTransactionsByAddress: the newest transactions of the wallet *)
(* before a signature, at most a page.                                     *)
Page(w, before) ==
  LET mine == {s \in DOMAIN txs : w \in txs[s].wallets /\ s < before}
  IN  {s \in mine : Cardinality({t \in mine : t > s}) < PageSize}

TradeRow(w, s) == [sig |-> s, signer |-> w, type |-> MapTxType(txs[s].kind), transfers |-> TRUE]

(* insertTransactionsIgnore: ON CONFLICT (signature, network) DO NOTHING.  *)
InsertIgnore(rows) == stored \cup {r \in rows : \A o \in stored : o.sig # r.sig}

Saved(w, batch) == InsertIgnore({TradeRow(w, s) : s \in {t \in batch : IsSwap(w, txs[t])}})

(* Bound: one transaction is no swap by its type; it is of every wallet    *)
(* and a trade for one.                                                    *)
Land ==
  /\ Len(txs) < MaxTx
  /\ \E ws \in SUBSET Holders \ {{}}, k \in Kinds : \E traders \in SUBSET ws :
       /\ k = "SWAP" => traders = ws
       /\ k # "SWAP" => /\ ws = Holders /\ Cardinality(traders) = 1
                        /\ \A s \in DOMAIN txs : txs[s].kind = "SWAP"
       /\ txs' = Append(txs, [wallets |-> ws, kind |-> k, traders |-> traders])
  /\ UNCHANGED <<stored, swaps, fetch, trades, asides>>

(* The stream of swaps stores the swap of its maker, without transfers.    *)
Streamed ==
  /\ asides < MaxAsides /\ asides' = asides + 1
  /\ \E s \in DOMAIN txs, w \in Holders :
       /\ txs[s].kind = "SWAP" /\ w \in txs[s].wallets
       /\ stored' = InsertIgnore({[sig |-> s, signer |-> w, type |-> "SWAP", transfers |-> FALSE]})
  /\ UNCHANGED <<txs, swaps, fetch, trades>>

(* getActivities, getTransactionStats and the charts store a page of a     *)
(* wallet: the newest, or one that begins where the client scrolled to.    *)
StorePage ==
  /\ asides < MaxAsides /\ asides' = asides + 1
  /\ \E w \in Holders, before \in 2..MaxTx + 1 : stored' = Saved(w, Page(w, before))
  /\ UNCHANGED <<txs, swaps, fetch, trades>>

FetchAllTrades ==
  /\ fetch.left = <<>>
  /\ fetch' = [NoFetch EXCEPT !.left = Order]
  /\ trades' = <<>>
  /\ UNCHANGED <<txs, stored, swaps, asides>>

Wallet == Head(fetch.left)
Working(stage) == fetch.left # <<>> /\ fetch.stage = stage

Take(found) ==
  /\ trades' = Append(trades, found)
  /\ fetch' = [NoFetch EXCEPT !.left = Tail(fetch.left)]

CacheHit ==
  /\ Working("wallet") /\ swaps[Wallet] # NotCached
  /\ Take(swaps[Wallet])
  /\ UNCHANGED <<txs, stored, swaps, asides>>

(* The signatures known are those of rows this wallet signed.              *)
ReadKnown ==
  /\ Working("wallet") /\ swaps[Wallet] = NotCached
  /\ fetch' = [fetch EXCEPT !.known = {r.sig : r \in {q \in stored : q.signer = Wallet}},
                            !.before = MaxTx + 1, !.stage = "page"]
  /\ UNCHANGED <<txs, stored, swaps, trades, asides>>

(* Mutant: the known signatures are those of the rows as they now stand.   *)
KnownMutant == {r.sig : r \in {q \in stored' : q.signer = Wallet}}

(* The set is the one read before the first page.                          *)
Known == fetch.known

(* A page of the loop: stored, which may fail unnoticed, then searched for *)
(* the end.                                                                *)
FetchPage ==
  /\ Working("page")
  /\ LET batch == Page(Wallet, fetch.before)
         end == batch = {} \/ \E s \in batch : s \in Known \/ s < Cutoff
     IN  \E kept \in BOOLEAN :
           /\ stored' = IF kept THEN Saved(Wallet, batch) ELSE stored
           /\ fetch' = [fetch EXCEPT
                 !.pages = @ + 1,
                 !.top = IF fetch.pages = 0 THEN Len(txs) ELSE @,
                 !.before = IF end THEN @ ELSE Min(batch),
                 !.stage = IF end \/ fetch.pages + 1 = MaxPages THEN "load" ELSE "page",
                 !.whole = @ /\ kept /\ (end \/ fetch.pages + 1 < MaxPages)]
  /\ UNCHANGED <<txs, swaps, trades, asides>>

(* An error of Helius reads as an empty page, the last one.                *)
PageFails ==
  /\ Working("page")
  /\ fetch' = [fetch EXCEPT !.pages = @ + 1, !.stage = "load", !.whole = FALSE]
  /\ UNCHANGED <<txs, stored, swaps, trades, asides>>

(* The newest swaps of the table are cached for two minutes.               *)
Load ==
  /\ Working("load")
  /\ LET all == {r.sig : r \in {q \in stored : q.signer = Wallet /\ q.type = "SWAP" /\ q.sig >= Cutoff}}
         found == {s \in all : Cardinality({t \in all : t > s}) < LoadLimit}
     IN  /\ swaps' = [swaps EXCEPT ![Wallet] = found]
         /\ Take(found)
  /\ UNCHANGED <<txs, stored, asides>>

(* Bound: between two runs; in a run the swaps of a wallet are read once.  *)
SwapsExpire ==
  /\ fetch.left = <<>>
  /\ \E w \in Holders : swaps[w] # NotCached /\ swaps' = [swaps EXCEPT ![w] = NotCached]
  /\ UNCHANGED <<txs, stored, fetch, trades, asides>>

HistoryStep ==
  \/ Land \/ Streamed \/ StorePage \/ FetchAllTrades \/ CacheHit \/ ReadKnown
  \/ FetchPage \/ PageFails \/ Load \/ SwapsExpire

-------------------------------------------------------------------------------
(***************************************************************************)
(* Properties                                                              *)
(***************************************************************************)

(* A transaction between two wallets of the user is counted once, although *)
(* their trades are read at different times, or from caches of different   *)
(* ages.  And a sync that met no error and was not cut off by the limit of *)
(* pages has stored every transaction of the wallet it wants that is newer *)
(* than what was known when it began; an older hole is never looked at     *)
(* again.                                                                  *)
HistoryIsWhole ==
  /\ \A i, j \in DOMAIN trades : i # j => trades[i] \cap trades[j] = {}
  /\ Working("load") /\ fetch.whole =>
       \A s \in DOMAIN txs :
         /\ Wallet \in txs[s].wallets /\ IsSwap(Wallet, txs[s]) /\ s >= Cutoff
         /\ s <= fetch.top /\ (\A k \in fetch.known : k < s)
         => \E r \in stored : r.sig = s
===============================================================================
