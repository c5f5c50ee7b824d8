---------------------------- MODULE PortfolioView ----------------------------
(***************************************************************************)
(* What a user owns, put together from the token accounts of the wallets,  *)
(* their SOL and the prices: the overview and the list of positions, each  *)
(* in two copies.  Those of the user take the SOL from the column          *)
(* wallets.balance, which updateBalance refreshes, and fail when the       *)
(* accounts cannot be read; those of any address ask the chain for both    *)
(* and take nothing for an answer that failed.  Between the readings the   *)
(* chain, the column and the market move on.                               *)
(***************************************************************************)
EXTENDS Integers, FiniteSets, Sequences, Functions, FiniteSetsExt, SequencesExt

CONSTANTS
  Portfolios,  \* bound: the token accounts a request may find, in order
  Balances,    \* bound: SOL balances of the wallets together
  TokenPrices, \* bound: the prices, per mint, of those that have one
  NameRank,    \* the place of each name in the alphabet
  TopTokens,   \* the overview lists 5, by address 10
  SolPrice

ASSUME ViewAssumption ==
  /\ \A accs \in Portfolios : accs \in Seq(Range(accs)) /\ \A a \in Range(accs) : a.amount \in Nat
  /\ \A prices \in TokenPrices : \A m \in DOMAIN prices : prices[m] \in Nat
  /\ \A m \in DOMAIN NameRank : NameRank[m] \in Nat
  /\ Balances \subseteq Nat /\ 0 \in Balances /\ SolPrice \in Nat

VARIABLES
  accounts,    \* the token accounts on the chain
  chainSol,    \* the SOL on the chain
  balance,     \* wallets.balance
  refreshes,   \* updateBalance: balances read and not yet saved
  market,      \* the price of each mint that has one
  asked,       \* the request: whose it is and what it has read
  witnessed,   \* history: what the chain had when the request read it
  snapshots    \* wallet_snapshots: the holdings of the last listing

viewVars == <<accounts, chainSol, balance, refreshes, market, asked, witnessed, snapshots>>

ViewStages == {"idle", "sol", "accounts", "done"}
NoRequest == [stage |-> "idle", own |-> FALSE, sol |-> 0, accounts |-> <<>>, prices |-> [m \in {} |-> 0]]
NothingHeld == [sol |-> 0, accounts |-> <<>>]

ViewTypeOK ==
  /\ accounts \in Portfolios /\ chainSol \in Balances /\ balance \in Balances /\ market \in TokenPrices
  /\ refreshes \subseteq Balances /\ asked.stage \in ViewStages /\ asked.own \in BOOLEAN

ViewInit ==
  /\ accounts \in Portfolios /\ chainSol \in Balances /\ balance \in Balances /\ market \in TokenPrices
  /\ refreshes = {} /\ asked = NoRequest /\ witnessed = NothingHeld /\ snapshots = {}

(* Accounts without a balance are left out unless asked for.               *)
Counted(accs, zero) == {i \in DOMAIN accs : accs[i].amount > 0 \/ zero}

(* Mutant: the last account of a mint replaces the others.                 *)
AggregatedMutant(accs, zero) ==
  LET kept == Counted(accs, zero)
  IN  [m \in {accs[i].mint : i \in kept} |-> accs[Max({i \in kept : accs[i].mint = m})].amount]

SumOver(accs, which) == SumFunctionOnSet([i \in DOMAIN accs |-> accs[i].amount], which)

(* aggregatedTokens: one holding per mint, the sum of its accounts.        *)
Aggregated(accs, zero) ==
  LET kept == Counted(accs, zero)
  IN  [m \in {accs[i].mint : i \in kept} |-> SumOver(accs, {i \in kept : accs[i].mint = m})]

Price(prices, m) == IF m \in DOMAIN prices THEN prices[m] ELSE 0

(* sort: by value unless the user asks for the amount or the name, and in  *)
(* the order of the list where that is the same.                           *)
Sorts == {"value_usd", "amount", "name"}
Key(item, by) ==
  CASE by = "amount" -> item.amount
    [] by = "name" -> IF item.name \in DOMAIN NameRank THEN -NameRank[item.name] ELSE 0
    [] OTHER -> item.value
Ahead(a, b, by) == Key(a, by) > Key(b, by) \/ (Key(a, by) = Key(b, by) /\ a.at < b.at)
SortedBy(items, by) ==
  [i \in 1..Cardinality(items) |-> CHOOSE b \in items : Cardinality({a \in items : Ahead(a, b, by)}) = i - 1]
ByValue(items) == SortedBy(items, "value_usd")
SumOf(items) == SumFunction([i \in items |-> i.value])

Item(name, amount, value, at) == [name |-> name, amount |-> amount, value |-> value, at |-> at]

TokenItems(tokens, prices) ==
  LET order == SetToSeq(DOMAIN tokens)
  IN  {Item(order[i], tokens[order[i]], tokens[order[i]] * Price(prices, order[i]), i) : i \in DOMAIN order}

(* SOL pushed behind the tokens, or put before them.                       *)
SolLast(tokens, n) == Item("SOL", n, n * SolPrice, Cardinality(DOMAIN tokens) + 1)
SolFirst(n) == Item("SOL", n, n * SolPrice, 0)

(* getOverview: the tokens, and SOL when it is worth something.            *)
Overall(accs, n, prices) ==
  LET tokens == Aggregated(accs, FALSE)
      items == TokenItems(tokens, prices)
  IN  [total |-> n * SolPrice + SumOf(items),
       top |-> SubSeq(ByValue(items), 1, Min({TopTokens, Cardinality(items)})),
       allocation |-> ByValue(items \cup (IF n * SolPrice > 0 THEN {SolLast(tokens, n)} ELSE {}))]

(* getPositions: SOL is a position like the others, when there is any or   *)
(* empty ones are asked for.                                               *)
Positions(accs, n, prices, zero, by) ==
  LET tokens == Aggregated(accs, zero)
      items == TokenItems(tokens, prices) \cup (IF n > 0 \/ zero THEN {SolLast(tokens, n)} ELSE {})
  IN  [positions |-> SortedBy(items, by), total |-> SumOf(items)]

(* getOverviewByAddress: SOL always heads the allocation before it is      *)
(* sorted; twice as many tokens are listed.                                *)
OverallByAddress(accs, n, prices) ==
  LET items == TokenItems(Aggregated(accs, FALSE), prices)
  IN  [total |-> n * SolPrice + SumOf(items),
       top |-> SubSeq(ByValue(items), 1, Min({2 * TopTokens, Cardinality(items)})),
       allocation |-> ByValue(items \cup {SolFirst(n)})]

(* getPositionsByAddress: the order asked for is ignored.                  *)
PositionsByAddress(accs, n, prices, zero) == Positions(accs, n, prices, zero, "value_usd")

(* The SOL of a request: of the column, or of a call that may fail.        *)
ReadSol ==
  /\ asked.stage = "idle" /\ witnessed' = [NothingHeld EXCEPT !.sol = chainSol]
  /\ \/ asked' = [NoRequest EXCEPT !.stage = "sol", !.own = TRUE, !.sol = balance]
     \/ \E n \in {chainSol, 0} : asked' = [NoRequest EXCEPT !.stage = "sol", !.sol = n]
  /\ UNCHANGED <<accounts, chainSol, balance, refreshes, market, snapshots>>

(* The user's listing of positions stores a snapshot of the accounts,      *)
(* whose failure is only logged.                                           *)
ReadAccounts ==
  /\ asked.stage = "sol" /\ witnessed' = [witnessed EXCEPT !.accounts = accounts]
  /\ \E accs \in {accounts} \cup (IF asked.own THEN {} ELSE {<<>>}) :
       asked' = [asked EXCEPT !.stage = "accounts", !.accounts = accs]
  /\ snapshots' \in {snapshots} \cup (IF asked.own THEN {{a \in Range(accounts) : a.amount > 0}} ELSE {})
  /\ UNCHANGED <<accounts, chainSol, balance, refreshes, market>>

AccountsFail ==
  /\ asked.stage = "sol" /\ asked.own /\ asked' = NoRequest /\ witnessed' = NothingHeld
  /\ UNCHANGED <<accounts, chainSol, balance, refreshes, market, snapshots>>

ReadPrices ==
  /\ asked.stage = "accounts"
  /\ asked' = [asked EXCEPT !.stage = "done", !.prices = market]
  /\ UNCHANGED <<accounts, chainSol, balance, refreshes, market, witnessed, snapshots>>

Answered ==
  /\ asked.stage = "done" /\ asked' = NoRequest /\ witnessed' = NothingHeld
  /\ UNCHANGED <<accounts, chainSol, balance, refreshes, market, snapshots>>

(* updateBalance: the chain is asked, then the column is written.          *)
FetchBalance ==
  /\ refreshes' = refreshes \cup {chainSol}
  /\ UNCHANGED <<accounts, chainSol, balance, market, asked, witnessed, snapshots>>

SaveBalance ==
  /\ \E n \in refreshes : balance' = n /\ refreshes' = refreshes \ {n}
  /\ UNCHANGED <<accounts, chainSol, market, asked, witnessed, snapshots>>

Moved ==
  /\ \/ accounts' \in Portfolios /\ UNCHANGED <<chainSol, market>>
     \/ chainSol' \in Balances /\ UNCHANGED <<accounts, market>>
     \/ market' \in TokenPrices /\ UNCHANGED <<accounts, chainSol>>
  /\ UNCHANGED <<balance, refreshes, asked, witnessed, snapshots>>

ViewStep ==
  ReadSol \/ ReadAccounts \/ AccountsFail \/ ReadPrices \/ Answered \/ FetchBalance \/ SaveBalance \/ Moved

-------------------------------------------------------------------------------
(***************************************************************************)
(* Properties                                                              *)
(***************************************************************************)

(* What the chain held is worth, account by account.                       *)
WorthOnChain(h, prices) ==
  h.sol * SolPrice
    + SumFunction([i \in DOMAIN h.accounts |-> h.accounts[i].amount * Price(prices, h.accounts[i].mint)])

(* Whatever the accounts, the prices, the order and the copy of the code:  *)
(* the overview and the positions come to one total, the shares of the     *)
(* allocation add up to it, and a mint held in several accounts is listed  *)
(* with all of them.  And unless a call failed or the column was stale     *)
(* that total is what the chain held at the time, each account at its      *)
(* price.                                                                  *)
ViewsAgree ==
  asked.stage = "done" =>
    LET a == asked.accounts
        o == IF asked.own THEN Overall(a, asked.sol, asked.prices) ELSE OverallByAddress(a, asked.sol, asked.prices)
    IN  /\ SumOf(Range(o.allocation)) = o.total
        /\ \A zero \in BOOLEAN, by \in Sorts :
             LET listed == IF asked.own THEN Positions(a, asked.sol, asked.prices, zero, by)
                           ELSE PositionsByAddress(a, asked.sol, asked.prices, zero)
             IN  /\ listed.total = o.total /\ SumOf(Range(listed.positions)) = o.total
                 /\ \A p \in {q \in Range(listed.positions) : q.name # "SOL"} :
                      p.amount = SumOver(a, {i \in DOMAIN a : a[i].mint = p.name})
        /\ asked.sol = witnessed.sol /\ a = witnessed.accounts => o.total = WorthOnChain(witnessed, asked.prices)
===============================================================================
