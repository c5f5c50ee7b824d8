# Verification of solsight-api

TLA+ specifications of the Solsight backend, the TLC runs that check them on
small instances and the TLAPS proofs that hold for every instance. Paths are
those of the repository (`src/modules/...` is the application, below the
checkout's own `src/`).

1. [The system](#1-the-system)
2. [What is modelled](#2-what-is-modelled)
3. [The runs](#3-the-runs)
4. [What is proved](#4-what-is-proved)
5. [What the code does that its comments deny](#5-what-the-code-does-that-its-comments-deny)
6. [What the models show that no run states](#6-what-the-models-show-that-no-run-states)
7. [What is not modelled](#7-what-is-not-modelled)

## 1. The system

solsight-api is one NestJS process: HTTP controllers, a socket.io gateway,
crons and Redis subscriptions, over PostgreSQL, Redis, a Solana RPC node, an
external indexer that talks to it by Redis pub/sub, and third-party APIs
(Jupiter, Jito, Kora, Helius, CoinGecko, OpenAI, Telegram, Zalo). JavaScript runs
one callback at a time, so code between two `await`s is atomic; everything else
interleaves: the requests, the crons, the events and the timers of this process,
other instances of it on the same database, the indexer, and the chain.

A message of the indexer goes to every handler that is registered for its
channel, and none waits for another: one swap is at the same time a price, a
candle, an entry of the statistics, a trader's position, a holder's cost, a row
of the transactions, a trade for the sockets, an alert, and perhaps a mint
nobody knows. Requests read what these handlers and the crons leave in Redis and
in the tables; the chat reads it through its tools.

| component | state it keeps | operations | hard behaviour | correct when |
| --- | --- | --- | --- | --- |
| Billing: credit purchases | `payment_orders`, `user_credits`, a Redis rate key | createOrder, refreshTransaction, submitPayment, transfer event, expiry cron | two payment paths and a cron race; calls fail between two writes | credits are what the completed orders granted; one payment completes one order; settled orders are final |
| Billing: quota | `feature_usage`, `user_credits` | getQuotaStatus, consumeQuota | read before the LLM, charged after it; midnight | no double charge, free before paid, no false refusal |
| Chat | busy sessions, `chat_messages` | sendMessage, LLM loop, tools | lock taken after an await; a window over rows; runs that stop half way | one message per session; requests are readable; an answer shows what its question fetched |
| Tokens: price | Redis hash per mint with slot and TTL, `market_price_events`, `tokens.price` | setPrice, getPrice, rehydrate, cron | late and repeated swaps, expiry, refill from an old row | the newest slot wins |
| Tokens: candles and charts | buckets in Redis, `token_ohlc` | updateOhlc, flush, cron, getChart, backfill | calls of two buckets overlap; a reader between the writers | a row is a prefix, written once; a chart is whole |
| Tokens: statistics | sorted sets of 24 hours, the active set, a row | storing, reading, cron | overlapping writers, the cron's removal, expiry | the day's swaps are counted; a traded mint stays active |
| Tokens: holders | hash, ranking, buffer, row, subscriptions | swap, price update, report, removal, flush, track | command by command; commands that fail unnoticed, a hash that expires; a buffer flushed while it is filled | row, hash, ranking and chart agree; the indexer tracks what is watched |
| Tokens: traders, trade feed | positions; a shared buffer | swap; ticks | read, compute, write | every swap counts once |
| Tokens: metadata, catalogue | a Redis queue, the known mints, `tokens` | batch job, seeder, CoinGecko crons | pop before store, commands that fail unnoticed, retries, stale copies | what is known is stored; links stay |
| Discovery, CoinGecko client | cached windows; a rate window | pages, sync; every endpoint | a page cut from two windows; sleepers under the limit | a page is a slice; the limit is broken by sleepers only |
| Auth, users, wallets | users, pending registrations, OTPs, nonces, `wallets` | login, registration, reset, ban, link, default, edit, removal | test and use in two steps; whole rows saved from a copy; Redis errors that read as "nothing there" | single use; decisions hold; one default |
| Alerts and bots | last signatures, subscriptions | events, edits; issue, verify, disconnect | overlapping handlers; several events of one transaction; found by token, saved by id | a transaction is told once; verified is proved |
| Swap | cached fees | build, execute by Kora, Jito, RPC | lost answers, polls that end too early, retries | a signature is on the chain; a refusal sent nothing |
| Portfolio | `transactions`, caches | import, PnL, overview, positions, activities | pages, caches, other writers; several copies of one formula, over a column and over the chain | the history is whole; the copies agree |
| Staking | sync state, history, `staking_native_accounts` | history, build, positions | overlapping requests save a state in two statements; late signatures | the window is stored; no stake is lost |

`PROJECT.json` lists every component with the reason for its status, and under
`hazards` what is hard to test in this code, line by line, with the properties
that cover it.

## 2. What is modelled

One module per component, with its `Init`, its step (`TokenPrice!PriceStep`),
its type invariant and its properties at its end. `MC...` modules compose them,
give the data sets and the symmetry; a run that needs none of that checks the
component's module itself. Mutants, used to show that each property can
fail, stand before the definition they change and are never part of a step.

An action ends where the code awaits. A handler in progress is a record with the
point it awaits at and what it has read so far (`calls`, `jobs`, `trades`,
`updates`, ...), so that what is read before an await and used after it is stale
in the model as well. A crash or a rejected await ends the handler where it
stands.

| module | code | its state and what is abstracted |
| --- | --- | --- |
| `PaymentOrders`, `CreditLedger` | billing/services/payment*.ts | below |
| `ChatQuota` | chat.service.ts sendMessage, quota.service.ts | below |
| `ChatHistory`, `ChatTools` | chat.service.ts runLlmLoop, executeTool, parseResponse | below |
| `HolderTracking` | tokens/services/socket/holder-tracking.service.ts | below |
| `TokenPrice` | token-price.service.ts, price handlers and cron | `cache` with slot, source and life (fresh, old, gone), `events`, `row`; jobs of the two subscribers of a message and plain readers. The two Lua scripts are one step each; HGETALL and TTL are two steps |
| `OhlcBuckets`, `TokenCharts` | ohlc-aggregation, ohlc-persistor, tokens.service.ts charts | `bars` in Redis, `rows`, `seenBuckets`, calls; the chart reads Redis, then rows, then merges and fills. Two intervals: one folded from trades, one backfilled from CoinGecko. Redis is taken to answer and to keep a bucket until it is persisted; an awaited insert may fail |
| `StatsPersistor`, `RollingStats` | stats-persistor, stats-aggregation | the active set and the cron over counted entries, with commands that fail (SREM too); the three sorted sets with members as the text they are. ZADD, cut and EXPIRE of one set are one step: a key does not expire between them |
| `HolderRows`, `HolderBooks`, `HolderPnl` | holder-aggregation, tokens.service.ts getHolderPnlChart | a value is the number of the event it is from, through hash, ranking, buffer and row; any command may be refused with its effect unknown, there may be no Redis, hash and ranking expire; the fields of the hash, each handler one Redis command at a time over one FIFO connection; the replay of the stored swaps |
| `TraderPositions` | trader-aggregation | position in Redis and row, their number of trades and holding |
| `TradeFeed` | socket schedulers | buffer, two drains, the differences of the holders domain |
| `TokenSync` | sync/token-sync.service.ts, metadata cache | queue, known mints, versions of rows, cached metadata, a job and readers; SETEX and DEL are two steps and each command may fail unnoticed, as redis.service.ts has it |
| `TokenCatalogue` | token-seeder, coingecko-enrichment | rows by what the jobs tell apart; three seeder jobs with batches, retries and row by row fallback, two crons |
| `DiscoveryWindows` | discovery.service.ts | keys of windows with a TTL, pages in progress, the sync that rewrites the categories |
| `CoinGecko` | infra/coingecko | the timestamps of the last minute, cached answers, sleepers, a clock |
| `UserAccount`, `Registration`, `WalletLogin` | auth, users | a user's row with what each request found; the keys of a pending registration, whose GET and DEL may fail unnoticed; the row of a wallet by its id and a nonce from issue to use, beside rows that are added by hand, edited and removed |
| `DefaultWallet` | wallets.service.ts, users.service.ts updateUser | owner and default of each row; setting by two UPDATEs; create on an existing wallet, update and updateByAddress as a SELECT and an UPDATE of the columns that differ; inserts, moves and removals |
| `Subscriptions`, `WalletAlerts` | bot, watchlist | one row per channel with its token and place; handlers with the alerts they read, events apart from the signatures of their transactions, and edits saved from an older copy of the row (the conditions of an alert do not change) |
| `SwapFlow` | swap.service.ts, jito, kora, solana | transactions on the chain, built by the API or by the wallet (`WalletBuilds`), requests on one of three ways, the fee cache |
| `TradeHistory` | portfolio.service.ts fetchAllTrades, helius | the chain, the table read up to its limit, the caches, a fetch in progress, other writers. Whose trade a transaction is (its swap event, or what was sent and received) is a set of wallets |
| `PortfolioPnl`, `PortfolioView`, `ActivityFeed` | portfolio.service.ts | replay of swaps through the three copies of average cost and the two bases of the price of SOL (the mean over the range of the trades, the one near each bucket of the chart); accounts and prices through the four copies of the valuation, with the column wallets.balance apart from the chain, calls that fail and the orders of sorting; Helius transactions mapped and enriched |
| `StakingHistory`, `StakingActions` | staking.service.ts | the sync state with overlapping requests, each save a SELECT and an UPDATE of the columns that differ; pool (its reserve less what is kept back may be negative), validators, rows, and what the wallet signs of what was built, partial withdrawals too |

### PaymentOrders and CreditLedger

`PaymentOrders` models `payment.service.ts`, `payment-transfer.handler.ts`,
`payment-reconcile.service.ts` and the spending half of `quota.service.ts`.

* `orders`, `balance`: the tables. `rate`: the Redis key that limits
  createOrder, a counter and whether it has a TTL. `txs`: signed
  transactions, and what the chain did with them: those the API built for an order,
  and those a wallet builds by itself with any memo or none (`BuildElsewhere`). `calls`: the HTTP calls in progress,
  each with the point it awaits at and what it read before. `issued`: orders a
  client knows the id of. `acknowledged`, `spent`: history.
* createOrder is `CreateOrder` (INCR) or `CreateOrderRedisDown`, `SetRateTtl`,
  `InsertOrder`, `SaveMemo`, `BuildCreated`; submitPayment is `SubmitPayment`
  (the read, with whatever transaction the client sends: the code checks neither its
  builder nor its recipient, amount or memo), `PaymentConfirmed`, `CompleteSubmitted`. `AbortCall` is the
  rejection of whatever the call awaits, or a crash. refreshTransaction writes
  nothing and is one step. completeOrder is one database transaction and hence
  one step, used by both paths; `UNIQUE("txSignature")` is `SignatureFree`.
* `HandleTransferEvent` may run any number of times or never, at any time after
  a transfer succeeded: late, duplicated and lost events.
* Abstracted: lamports, addresses, blockhashes and signatures (a transaction is
  an identity with the order its memo names); `expiresAt` is the flag `due`.

`CreditLedger` is what billing promises: entries that are opened, then credited
once by a payment that credits nothing else, or voided; balances that move by
crediting and spending only. `ImplementsLedger` maps `PaymentOrders` to it.

### ChatQuota

`ChatQuota` models `ChatService.sendMessage` with `QuotaService`. `active` is
`activeProcessingSessions`; `usage` and `balance` are the tables; `today` the
UTC+7 day; a call carries the day it computed, which of the two reads of
getQuotaStatus have come back, and its outcome. `answered`, `charges` and
`overtaken` are history. The LLM loop is one step that answers or throws; its
rounds are the subject of `ChatHistory`.
`PrepareFails` is every failure before the `try`: it leaves the session in the
set, as the code does. `TopUp` stands for completeOrder, the only other writer
of a balance. Both entry points pass a user id, so the branch of sendMessage
without one is not modelled; both also limit the rate per user or socket in
memory, which only removes behaviours and is left out here.

### ChatHistory

One session of `runLlmLoop` and `sanitizeHistoryMessages`. `rows` is the table
`chat_messages`, only ever appended to; a row has a role, the ids of the tools an
assistant message calls, and the id a tool message answers. A run is at the head
of the loop (`ReadHistory`: window, trimming, request), waits for the LLM
(`CallTools`, `Answer`), or executes tools one at a time (`ExecuteTool`, which
saves each result before the next tool starts). `Fail` is every rejection and the
stop of the process: nothing saved is taken back. A request is an interval of
rows, `from..to`, because the code takes the newest rows and drops from the
oldest end. Whether the API takes a request is external: `Answered` is its rule
that every call has its results behind it. Runs overlap here without a lock, which
`chat_exclusive` shows to be possible; `overlapped` remembers that they did. Prompts and RAG
carry no state. `ChatTools` adds the outputs of the tools as contents of the rows, and
`shown`, what parseResponse takes from them for each answer.

### HolderTracking

One mint of `HolderTrackingService` with the gateway's subscribe and
unsubscribe. A call that awaits a publish keeps a reference to the state object
it found, while the map may drop it: `heap` holds the objects, `current` is the
map's. `orphans` counts running timers whose handle was overwritten or dropped,
`pipe` is the FIFO of commands on the one Redis connection. The command reaches
the indexer and its reply reaches the service in one step, `Reply`, or the
publish fails. `Faults` selects the unusual: clients that disconnect, repeat
themselves, a failing Redis, a restart. trackMint and untrackMint have no caller
and are left out.

### HolderBooks

A swap changes a holder's hash by a dozen commands, so `HolderBooks` has one
command per step. All handlers share one connection and a handler waits for each
reply, so they are served in turn: `queue` holds the handlers in the order of
their next commands. `HolderPnl` replays the same swaps from the table, and
`ChartAgreesWithBooks` compares the two accounts of the same holder.

### StakingActions, SwapFlow

The staking program, the chain, Jito and Kora are external; they are modelled by
what the code distinguishes of their answers. In `StakingActions` a transaction
that was built may be signed at any later time or never, the pool and the epoch
move on, and the addresses of fallback withdrawals are derived from the block as
in the code. In `SwapFlow` each send may lose its answer, and a poll of a bundle
may say nothing of one that landed.

## 3. The runs

| run | checks | instance |
| --- | --- | --- |
| payment_safety | five safety properties of `PaymentOrders` | 1 user, 2 orders, 2 transactions, 2 concurrent calls, 2 packages, limit 2 |
| payment_settles | every pending order is settled; `PaymentOrders` implements `CreditLedger` | 2 users, 2 orders, 1 transaction, 1 call, fair |
| payment_acknowledged, payment_failed_tx | a statement of a comment that the code breaks | 1 of each |
| chat | quota, history and tools: six properties | 2 sessions, 2 calls, 2 free answers, 3 days, 2 credits; 2 runs, window 4, up to 2 tools a round, 8 rows (7 with outputs) |
| chat_exclusive, chat_stuck | statements of the code's own messages that it breaks | 1 session, 1 or 2 calls |
| chat_incomplete | what a comment says of the trimmed history | 1 run, 5 rows |
| holders_forgotten, holders_leaked | the class comment of holder tracking, broken in two ways | 1 client, no faults |
| market | prices, candles and charts, statistics, holders, traders, tracking, catalogue, discovery, CoinGecko: thirteen properties | see below |
| services | accounts, wallets, alerts, bots, sync, swaps, 24 hours, portfolio, staking: fourteen properties | see below |

`market`, `services` and `chat` put components side by side that share no
variable. Their product would only multiply states, so `focus`, chosen
initially, says which one moves; the state space is the sum of theirs. Components
that do share something move together: `TokenCharts` reads beside the writers of
`OhlcBuckets`, `HolderPnl` is computed over `HolderBooks`, and all requests of
one module run against each other.

What each property of the two wide runs says:

| property | of | says |
| --- | --- | --- |
| FreshPriceIsSlotOrdered | TokenPrice | a fresh price never gives way to an older slot or to a row |
| RowsAreFinalPrefixes, BucketsArePersisted | OhlcBuckets | a candle's row is a prefix of its bucket and never changes; every bucket gets a row |
| ChartIsWhole | TokenCharts | no traded bucket is missing, none shows less than Redis had, limits and gaps are right |
| TradedMintIsActive | StatsPersistor | a mint with trades stays in the active set |
| HoldersAgree | HolderRows, HolderBooks, HolderPnl | row and hash agree when nothing is under way and since the last write no command failed and nothing expired; fields and ranking, chart and books agree when no handler runs |
| SwapsAreCounted | TraderPositions | each swap counts once although Redis forgets |
| TrackedIsKnown | HolderTracking | what the service believes to be tracked is tracked, unless the very last command was lost |
| LinksAreKept, LinkableIsLinked | TokenCatalogue | a link is lost to one kind of race only; a token CoinGecko knows is linked in the end. The two tokens of the instance fit one batch, so that ten unknown tokens can fill every batch of ten does not show here |
| DiscoveryAgrees | DiscoveryWindows | pages are slices; no key outlives a sync that ended well |
| SleepersOnlyExceed | CoinGecko | who did not sleep is never over the limit |
| DecisionsHold | UserAccount | bans survive overlapping saves, and no reset is let in with a code that has already reset the password, until a save puts a column back. Two resets that were both let in before the first saved may each set a password with one code |
| AccountHasLastPassword | Registration | while requests do not overlap and Redis answers, links of older registrations are dead and the account has the password given last |
| NonceLogsInOnce | WalletLogin | while requests do not overlap, a nonce is accepted once, and a row of a wallet makes one account (a wallet that was removed and added again is a new row) |
| OneDefault | DefaultWallet | setting, inserting, moving and removing wallets leave one default per user, unless two settings overlap, a setting stops half way or a save writes is_default itself |
| KnownHasRow | TokenSync | no mint is taken for known without a row; the cached metadata is that of the row, unless a reader held an older one or a DEL failed |
| VerifiedIsProved | Subscriptions | alerts go only to what proved the last token |
| AlertsAreToldOnce | WalletAlerts | every transaction with an event that fires is told to the alert, by one of its events, and never twice in a row |
| SwapAnswerIsTrue | SwapFlow | when the answer is given, its signature is on the chain, and a refusal sent nothing |
| HistoryIsWhole | TradeHistory | trades are counted once; an import that fetched all its pages leaves no hole among what is newer than what was known |
| PnlIsConsistent | PortfolioPnl | nothing is lost in the average costs; each point of the chart is what calculatePnl had earned by then at the price near that day; with one price of SOL the overview's total is what came in and is held less what was put in; a profit made has a winner |
| ShownRight | PortfolioView, ActivityFeed, RollingStats | overview and positions come to one total in either copy, whatever the order, and to what the chain held unless a call failed or the column was stale; transfers are shown as they went, unless all token transfers are between others (`portfolio.service.ts:842-843`); the 24 hours count the day's swaps |
| WindowIsStored | StakingHistory | inside the window the state claims, everything is stored or was skipped, unless a save came between the SELECT and the UPDATE of another |
| StakesAreListed | StakingActions | every stake account of the wallet is on exactly one page |

Several of these carry an exception (`~raced`, `~overlapped`, `~tangled`,
`~missed`, ...): a history flag set by exactly the overlap or failure that
breaks the statement in this code. The property then says that nothing else
breaks it, and the flag's assignments say which two steps do. Where the flag is
the hazard itself, the property does not protect from it; it shows that the rest of
the code is not to blame:

* `SwapsAreCounted` excuses swaps of one trader that overlap, the lost update.
* `TradedMintIsActive` excuses the removal of a mint after a late swap, and so
  shows the order of marking, storing and removing within one handler and the cron.
* `VerifiedIsProved` excuses a token that is issued again, or a channel that is
  disconnected, between the lookup and the verification.
* `HistoryIsWhole` speaks of imports that fetched all their pages, and of what is
  newer than what they knew; holes left by an import that was cut are never looked
  at again.
* `SwapAnswerIsTrue` is about the moment of the answer. A bundle that lands after
  the answer that it did not is in the model, and contradicts nothing it says.
* `OneDefault` excuses the saves that write `is_default` themselves:
  `wallets.service.ts:60-71`, `:299-318` and `:320-329` clear no other default.

**Bounds.** Two orders with two transactions let one payment be offered to both,
and let the submit path and the event path of different payments cross; two calls
run every pair of handlers against each other while events, cron, chain and
spending need no call. A chat call that has ended is used again, so one call can
use up free answers and credits of several days between the check and the charge
of the other. A window of four rows is cut before, inside and behind a group of a
call and two results, and eight rows let it slide over two groups. In the other
components two handlers overlap wherever the code lets them, batches and pages
hold one or two items so that every list is cut, and time runs far enough for each
TTL to end inside a request: three price jobs (two subscribers and a reader),
candles of four buckets with calls of two neighbours, three deals with two
handlers at a time (bought, sold, sold again at an unknown price), three statistics swaps of
which two are alike, three transactions in pages of one with two pages at most,
three swaps of which a sale may exceed its lot, three alerts with four events, of
which two share a transaction, two handlers and one edit, three registrations and
four requests for a wallet's row, two staking requests with batches of one over
three signatures (too few for the gap that two joined saves leave: the proof of
`WindowIsStored` covers it), three staking transactions over three epochs and a pool
whose reserve is overdrawn. The history is read up to a limit of one trade, and one
transaction is a trade of every wallet, one of one wallet, one of none. Only the
identities of the requests on wallets (`Setters`) are a symmetry. Every bound that the code
does not have is a constant marked `bound:` and a guard of one action.

All runs set `CHECK_DEADLOCK FALSE`: identities, days, events and counts run out
in a finite instance, and the system may rest.

**Fairness** is used by three runs: payment_settles, market and
holders_leaked.
`PaymentOrders!Fairness`: the minute cron runs, clocks pass `expiresAt`, Redis
honours the TTLs it was given, an awaited operation settles.
`MCMarket!Fairness`: time moves to the next bucket and the stale-bucket cron
runs, an awaited step of updateOhlc settles, the cron that resolves CoinGecko ids
runs, and (strong fairness) a token CoinGecko can find is found and stored now and
then when it is in the batch; inserts may fail for ever otherwise.
`HolderTracking!TrackingFairness`: timers fire and publishes settle, in which Node and
ioredis give no choice. Nothing is assumed of clients, of the delivery of events,
of the chain, or of the success of anything else.

## 4. What is proved

The theorems hold for any sets of users, orders, sessions, transactions, packages,
calls, wallets and requests, and any limits, from the assumptions on constants
that the modules state and TLC evaluates (the "no value" constants are not values;
limits are natural numbers).

* **PaymentOrders_proofs.** `TypeOK`, `OnePaymentOneOrder`, `CompletedTxLanded`,
  `MemoNamesOrder`, `SettledIsFinal`, `CreditsOnlyByCompletion` (the last two
  are in no run), `CreditsConserved`, and `Refinement`: `Spec => Ledger!Spec`. None of them is
  inductive alone. `IInv` adds `CallsOK`, what a call may still rely on when it
  resumes (its order exists, its transaction was signed by someone and, past the
  confirmation, has landed), `RowsOK`, what a row looks like in each status (only completed rows
  have a signature, which is why `SignatureFree` makes signatures unique), and
  `IssuedOK`, that the id of an order is out only when its memo is saved.
  `CreditsConserved` sums over a set, for which the library takes the elements in
  the order `CHOOSE` gives. `Granted` names that sum; `SumsExist`, `AnyFirst` and
  `SumsAgree` show, each on a counterexample of the smallest size, that the
  recursion is defined on finite sets, that any element may be taken first and
  that only the credits of the elements count. `Conserved` adds that the completed
  orders of a user are finitely many, since a step completes one at most; nothing
  is assumed of the size of `Orders`.
* **Chat_proofs.** *ChatQuota*: `TypeOK`, `OneChargePerAnswer`, `RefusedWasOvertaken`,
  `DeniedWasExhausted`, `FreeBeforePaid`. `IInv` adds `FutureUnused` (no usage on
  days to come, which makes a midnight between check and charge harmless),
  `Sound` (per call: the program counter against charges, answer and what was
  read), `Exhausted` (usage never falls, so a read that found no free answer
  stays true) and `Reserved` (as long as nobody overtakes a call, the quota it
  saw is still there). *ChatHistory*: `TrimsToFirstOpener` and `ChatHistoryTypeOK`,
  assuming a positive window and that the other bounds are natural numbers. The
  invariant says what the rows of a conversation look like wherever the window
  cuts them: calls are numbered once and in order, and between a tool message and
  the message that called it stand tool messages only. *ChatTools*:
  `HistoryIsReadRight`, assuming a positive number of outputs looked at and a default
  slippage within its limit. `ToolsInv` adds that nobody has asked since the run
  under way did and that its request is up to date (`InItsTurn`): the outputs the
  code walks through from the newest back are then those of the turn.
* **Accounts_proofs.** *UserAccount*: `DecisionsHold` and `UserTypeOK`, assuming that
  the number of requests is a natural number. `UserInv` adds that every code, in the
  row, in what a request found or used before, is the number of a request that is
  over (`CodesOK`), so a new code is none of the spent ones; that until `stale` a
  spent code is no longer in the row (`CodesGone`): no request that finds the row
  after that is let in with it (`NoneReused`). *Registration*:
  `AccountHasLastPassword` and `SignupTypeOK`, under the same assumption.
  `SignupInv` adds, while requests did not overlap and no error slipped, what the
  request under way may rely on between its Redis commands (`SignupOK`), and that
  one link at most is alive, the newest, whose password is the one wanted unless a
  request is about to change either (`LinkOK`). *TokenSync*: `KnownHasRow` and
  `SyncTypeOK`, assuming that the bounds on versions and reads are natural numbers,
  the first not zero. `RowsOfMarked`: a check or a job about to mark a mint as known
  has seen or written its row. `CachedOfRow`: until `overtaken`, what is cached or
  about to be is of the row, but for the mints the job has still to mark or to drop
  and those a failed DEL left.
* **Wallets_proofs.** *WalletLogin*: `NonceLogsInOnce` and its types, assuming that
  the number of requests is a natural number. `LoginInv` adds, while nothing was
  `disturbed`, that one request at most is under way (`Alone`) and still finds the row
  as it is (`RequestOK`), that the nonce in the row was not accepted unless it is about
  to be cleared (`NoncesOK`), and that whoever made a user for this row, and not for
  one removed before, sets the owner before it ends (`OwnersOK`). *DefaultWallet*:
  `OneDefault` and its types, assuming that the words for no owner, for no row yet
  and for a removed row are no users, and "none" no address. `DefaultInv` adds, while
  nothing was tangled, that one request at most is between its two UPDATEs
  (`SettersAlone`), what that request may rely on (`SetterOK`: the wallet is its
  user's, and past the first UPDATE the user has no default), and that two defaults
  of one user are one wallet (`OneEach`).
  *Subscriptions*: `VerifiedIsProved` and `SubTypeOK`, assuming that the number of
  tokens is a natural number. `SubInv` adds that the token in the row is the one
  issued last and, unless `crossed`, that what a verification under way found is
  still so (`CheckOK`): its update then verifies that very token. *WalletAlerts*:
  `AlertsAreToldOnce` and `AlertTypeOK`, assuming that an event lists its wallets in
  a sequence, that "no event" is none and "no signature" not one. `AlertInv` says
  that what an alert remembers, or the copy of an edit, is a signature it was told
  (`LastIsTold`), and what a handler has read of it (`HandlerRight`). `Whole` adds, unless
  a handler failed, that no transaction delivered is missed: an alert a handler has
  not reached yet is still in its `todo` or behind a wallet to come (`NothingMissed`).
  `InOrder` adds, until `crowded`, that deliveries run one by one (`DeliveriesApart`)
  and that what an alert remembers is what it was told last, but between the two
  steps of one handler (`Settled`).
* **Sums_proofs** has what several components need of numbers: least and greatest
  elements, and that a sum over a finite set exists, may take any element first and
  depends on its terms only. The models sum with `SumFunction` and define order by
  ranks and sets where the code sorts, because of the folds of the library the
  provers can expand that one only.
* **Tokens_proofs.** *StatsPersistor*:
  `TradedMintIsActive` and `StatsTypeOK`, assuming that the bound is a natural number.
  `SweepOK` says what the cron found is still so at its next step unless `missed`:
  the mint it is about to remove has no entries, and none is being stored.
  *TokenPrice*: `FreshPriceIsSlotOrdered` and `PriceTypeOK`, assuming the shape of
  the indexer's messages. `PriceInv` types the cache and the jobs between their
  awaits; that a reader's refill finds nothing cached and that the consumer compares
  slots is then enough for every step. *OhlcBuckets*: `RowsAreFinalPrefixes` and
  its types, assuming a sequence of prices and finitely many calls. `OhlcInv` adds
  that the bar a call holds, and each
  persisted one, is what its bucket once was (`PrefixOf`): an update only raises
  the high and the volume and keeps the open. The types need more than that: the
  volume of all buckets and the calls under way are no more than the prices that
  came, which is a sum over buckets (`NoMoreThanPrices`). *TokenCharts*: `ChartIsWhole` and
  `ChartTypeOK`, assuming windows of integers with positive limits and answers that
  are candles. `FilledIs` says what filling the gaps yields: one bar for each bucket
  from the first candle, or the limit, to the end, joined, and the latest candle
  of a bucket that has one. `ChartInv` carries what the request is owed (`Owed`:
  traded when it was asked for and unexpired) from its question to Redis, which had
  all of it (`RedisRight`), to the answer; trades meanwhile only add to it, as
  `BarsPast` says. *TokenCatalogue*: `LinksAreKept`, from no assumption, and its
  types, assuming a list of distinct addresses and positive batches. `CatalogueInv`
  types the rows and the values a batch writes; the rest is what an upsert does to a
  row (`PutEffect`, `ValuesEffect`): it leaves a column alone that the values do not
  name. The list by `updatedAt` stays without repetition and its batches are parts
  of it (`ListsOK`). *DiscoveryWindows*: `DiscoveryAgrees`, assuming that market caps
  are functions from the categories to natural numbers, that rankings are sequences
  and that the window and the page have a positive size. For the categories, the
  copy of a request no sync overtook agrees with the table, and a key that
  does not agree with it belongs to a sync that has still to remove it or whose
  removal failed (`DiscoveryInv`). For the trending tokens, a key and what a request
  has of it are the window of that number of one list (`WindowsRight`, `PageRight`);
  that windows of one list in a row, joined and cut, are the slice of the list is
  shown entry by entry, since lengths of windows are only known at the end of the
  list (`Consecutive`, `Covers`, `IsSlice`). *CoinGecko*: `SleepersOnlyExceed` and its
  types, assuming a positive limit and a positive minute. `CgInv` says that stamps and requests are in
  order and, counted from the end, the same times, but for what is older than a
  minute on either list (`SameEnd`): who finds fewer stamps than the limit finds
  fewer requests.
* **Holders_proofs.** *HolderTracking*: `TrackedIsKnown` and `TrackingTypeOK`, assuming
  that the bounds are natural numbers and "no state" is none. It is inductive with
  the types (`TrackingInv`, which also bounds the timers that run). *HolderRows*: `HolderTypeOK` and `QuietHolderAgrees`, the first conjunct
  of `HoldersAgree`, assuming that the number of events is a natural number.
  `HolderOrder` says, until `raced`, that either only updates run or one removal runs
  alone (`RowsInOrder`): updates never overtake each other, refused commands or not,
  and the row will settle on the youngest; and that the hash, until a command fails
  or it expires, is that of the youngest that has written it, with a rank only
  beside it (`RankRight`). *HolderBooks*: `BooksBalance`, the
  second conjunct, and its types (`BookInv`: every handler is on the route of its
  kind), assuming that amounts are natural numbers and that the division by which a
  report splits its cost leaves no rest, since the rounding of floats is abstracted.
  The equation of a quiet holder, profit = sold - cost of what was sold, holds at no
  moment between: `BalanceInv` says that what the fields are off by (`OffBy`) is the
  sum over the queued handlers of what each has still to book (`Unbooked`), so that
  every command moves one term from the sum to the fields. With it go what the
  ranking will be (`ScoreRight`), who will set the expiry (`LastsAwhile`), that no
  handler is queued beside one that sets what it adds to (`NoClash`), and that the
  cost taken by the one sale under way is no more than there is (`CostFits`).
  *HolderPnl*:
  `ChartAgreesWithBooks`, the third conjunct, assuming finitely many deals, that what
  has no amount has no value, and natural prices, for deals of different times. The
  replay of the stored swaps is a recursive function over the sets of deals, the last
  deal taken off: `Lot` of a covered history is what was bought less what was sold,
  and what a sale realizes is what the running books take for it (`LotIsRight`);
  `OrderInv` ties the books to the replay while the deals arrive in order.
  *TraderPositions*: `SwapsAreCounted`
  and `TraderTypeOK`, assuming a finite set of swaps. `TalliesOK`: no position
  counts more swaps than have read one. `OneAtATime`: until `overlapped`, one swap at
  most is under way, it writes one more than the swaps handled, and the cached
  position is the stored one, or forgotten, or the one about to be stored.
  *TradeFeed*: its types (`FeedInv`: a trade waits in the buffer at most once).
  *MCMarket*: `MarketTypes` is the type invariant of the whole composition, and
  `MarketKeepsPromises` states the properties above of it: a lemma per component
  says that the composition moves it as it would move alone or not at all
  (`...Beside`), the chart together with the candles it reads.
* **Portfolio_proofs.** *SwapFlow*: `SwapAnswerIsTrue`, from no assumption. `SwapInv`
  says what the stage of a request tells of its way, of what it sent and of its
  answer, and every step of the chain leaves what has landed or failed as it is. Its
  types assume that the number of polls is a natural number.
  *StakingHistory*: `WindowIsStored` and `StakingTypeOK`, assuming a positive batch
  size and at least two signatures. `HistoryInv` says the same of the copy of the
  state each request holds as of the stored one (`WindowRight`), and that its batch
  covers what lies between that copy's cursor and the one it will write (`CallRight`,
  `Covers`), newest first or oldest first; what is done stays done (`Grows`), so a copy
  overtaken by another request is still right, and until `joined` the columns an
  UPDATE writes make the row it was to be out of the row its SELECT read. *StakingActions*: `StakesAreListed` and its types, assuming positive pages
  and epochs. `ActionsInv` says that a transaction that opens an account was
  built with its row (`TxOK`), that rows are never gone and never alike (`RowsOK`)
  and that every stake on the chain has one; pages of distinct rows then list each
  stake once.
  *TradeHistory*: `HistoryIsWhole` and `HistoryTypeOK`, assuming finitely many
  wallets and positive pages. `TradeInv` adds that a cache holds only stored trades
  (`CachesRight`), that the trades taken are of wallets done (`TradesRight`), and
  that a sync has every transaction it wants above its cursor (`SyncRight`).
  *PortfolioPnl*: `PnlIsConsistent` and its types, assuming that amounts and prices
  are natural numbers. `PnlInv` relates the three copies of average cost swap by
  swap: the sum over the tokens of what was earned and of what the lots still cost
  (`CostsOK`), the chart's lots and running sum (`ChartOK`), and that each point of
  the chart is what was earned by the end of its bucket, at its price (`PointRight`). *RollingStats*:
  `StatsAreOfTheDay`, assuming a day of at least an instant. `RollInv` says where
  each member of the three sorted sets is from (`Origin`) and which are due
  (`StoredLasts`, `HistoryLasts`). *ActivityFeed*: `TransfersReadRight`, assuming the
  shape of the answers of Helius: what an activity shows against the transaction it
  is from (`ReadRight`), through second answers in any order. *PortfolioView*:
  `ViewsAgree`, assuming that amounts, prices and balances are natural numbers: each
  of the four copies of the valuation is one sum over the mints held (`Worth`),
  whatever order the entries are met in and sorted into, and that sum is the worth of
  the accounts one by one (`ViewInv` types what the request has read). *MCServices*: `WhatIsShownIsRight` (`ShownRight`) and
  `ServicesTypes` (`TypeOK`) state the conjuncts of all components of the composition.

Left to TLC: the liveness properties, which are beyond the prover, and the runs that
find a disagreement. Every other invariant and action property of a passing run is
stated by a theorem, some conjunct by conjunct.

## 5. What the code does that its comments deny

Seven runs end in a counterexample; `PROJECT.json` quotes the lines.

* A payment acknowledged with `creditsAdded` whose order the cron has expired
  meanwhile gets no credits (`payment_acknowledged`).
* A transaction that landed with an execution error completes its order
  (`payment_failed_tx`).
* Two messages of one session run at once (`chat_exclusive`); a failure before
  the `try` locks a session until the restart (`chat_stuck`).
* A run that stops between a call and its last result leaves a dangling call in
  the middle of the history, which the trimming never reaches, and the session's
  requests are refused until 50 newer rows exist (`chat_incomplete`).
* Holder tracking forgets a client that joins during the awaited untrack
  (`holders_forgotten`) and keeps a mint whose only client left before the track
  was answered (`holders_leaked`). A client that disconnects without
  token:unsubscribe stays counted as well.

## 6. What the models show that no run states

Behaviour of the code that is in the models, and that no line of the repository
denies plainly enough for a run of its own:

* Billing: a rate key whose EXPIRE failed blocks its user for good, against the
  "fail open" of `payment.service.ts:164`.
* Billing: submitPayment sends any signed transaction and completes the order with its
  signature; builder, recipient, amount and memo are not looked at
  (`payment.service.ts:69-82`).
* Accounts: two resets of the password that overlap both succeed with one code
  (`auth.service.ts:238-245`). RedisService logs an error and answers as if there were
  nothing (`redis.service.ts:80-94`, `:110-118`), so a registration whose GET or DEL
  failed leaves the older link alive.
* Wallets: a wallet that is removed (`wallets.service.ts:331-352`) makes a second account
  at its next login. A create on an existing wallet or an update that names
  `isDefault` leaves two defaults.
* Alerts: of several events of one transaction that fire, an alert is told the first
  only (`wallet-alert-checker.service.ts:34`, `:97`, `:144`); an edit that was read
  before a notification saves the older signature again.
* Token sync: a DEL that failed leaves the old metadata cached until its TTL.
* Holder tracking: a timer whose handle was overwritten cuts a later grace period
  short.
* Holders: two overlapping sales of one holder each take their share of the same
  cost, and a sale of more than is held takes more than all of it
  (`holder-aggregation.service.ts:213-222`), so the cost basis may become negative. A report of the indexer without
  sales leaves an older `realized_pnl`. A price update that read the hash before
  its removal or expiry brings back a hash of one field and no expiry.
* Statistics: swaps alike in price and in side or volume within a millisecond are
  one member of a sorted set. Reads do not cut, so a quiet mint shows more than 24
  hours. The row keeps the totals of its last busy day when the mint leaves the
  active set (`stats-persistor.service.ts:57`), and getStats falls back to it.
* Charts: with `to` in the future the limit is counted from `to` for Redis and
  from now for the chart, which fills buckets that were traded with the flat seed
  in spite of `tokens.service.ts:515`. The `ohlc_backfill` marker is set before the
  candles are inserted: a failed insert waits an hour. getTokenPriceSeries ignores
  its `fromSec`.
* Seeder: a chunk of addresses that Jupiter refuses overwrites good rows with
  names made from the address.
* Portfolio: the overview values profits at the mean price of SOL over the range of
  the trades, the chart each point at the price near its day, so the two end at
  different dollars. The own views take the SOL from `wallets.balance`, those of an
  address from the chain and 0 when the call fails.
* Staking: two saves of the sync state that overlap may join the ends of two windows,
  with a signature between them that is neither stored nor skipped.
* Portfolio: wrapped SOL sent is looked at again as SOL sent is
  (`portfolio.service.ts:1578-1583`), and any balance that rose, one of wrapped SOL
  too, makes it a swap (`:1594`).
* Swap: a bundle that is reported as "never included on-chain"
  (`swap.service.ts:103`) may still land, or its transaction may by another way.
* Chat: the LLM is offered `fetch_portfolio_performance` (`chat.service.ts:214`),
  for which executeTool has no case. An error of set_slippage is shown as a
  slippage of 50 basis points, and errors of other tools as empty typed views.
  Nothing bounds the rounds of one message.

## 7. What is not modelled

* **Events dispatcher**: subscribes once at boot and calls the handlers of a
  message without waiting for them; its effect, overlapping handlers that fail by
  themselves, is in each component's model.
* **Limit orders, account, transactions, notifications, admin analytics, token
  summaries**: one request, one answer, or SQL reports and prompts; rows in, text
  out.
* **Executor**: a router without state (devnet to the own builder, every other
  cluster to Jupiter).
* **Lists that only read**: holders, trades, trader rankings, validators, gainers
  and losers, quotes.
* **Failing Redis commands of the candles** and expiry of a bucket before it is persisted:
  `OhlcBuckets` says what the design does while Redis answers.
* **Parts of modelled components** left out, each with its reason in
  `PROJECT.json`: JWTs, hashes and signatures; the content of a swap transaction;
  byte layouts of stake accounts; profit and cost of a trader's position; the
  wording of bots and answers; the rate limiters of the chat gateway and
  controller, which only remove behaviours; the streaming twins of the chat and
  trackMint / untrackMint, which have no caller.
* **TradeFeed** is in `market` with its type invariant only: its buffer has no
  bound and its shared list of holders is replaced whole, and nothing in the
  repository says what a client must have received.

What could still be added: one composition of `PaymentOrders` and `ChatQuota` over
one balance in place of `SpendCredit` and `TopUp`.
