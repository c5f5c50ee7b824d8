---------------------------- MODULE PaymentOrders ----------------------------
(***************************************************************************)
(* Credit purchases: a user opens a payment order, pays it with a Solana   *)
(* transfer that carries the order's id as a memo, and receives credits.   *)
(*                                                                         *)
(* Two independent paths record a payment: the HTTP call submitPayment,    *)
(* which sends the signed transaction and waits for its confirmation, and  *)
(* PaymentTransferHandler, which reacts to the indexer's transfer event.   *)
(* A cron expires overdue orders underneath both.  Every `await` of the    *)
(* two HTTP handlers is a step boundary: other requests, the cron, the     *)
(* event handler and the chain run between two steps of a call.            *)
(***************************************************************************)
EXTENDS Integers, FiniteSets, FiniteSetsExt

CONSTANTS
  Users,        \* accounts that buy credits
  Orders,       \* ids the database may give to payment_orders rows
  Txs,          \* transaction signatures
  Calls,        \* concurrent HTTP calls to the billing API
  Packages,     \* the packages on sale, each named by the credits it grants
  RateLimit,    \* ORDER_RATE_LIMIT_PER_HOUR
  MaxAttempts,  \* bound: createOrder attempts counted in one rate window
  NoUser, NoOrder, NoTx

ASSUME BillingAssumption ==
  /\ Packages \subseteq Nat \ {0}
  /\ RateLimit \in Nat \ {0}
  /\ MaxAttempts \in Nat
  /\ NoUser \notin Users
  /\ NoOrder \notin Orders
  /\ NoTx \notin Txs

VARIABLES
  orders,        \* table payment_orders; status "absent" = no such row
  balance,       \* table user_credits; no row = 0
  rate,          \* Redis key billing:order_rate:<user>: value, has a TTL?
  txs,           \* transactions: built by the API or by a wallet, then landed
  calls,         \* the HTTP calls in progress and what each has read
  issued,        \* orders whose id a client has received
  acknowledged,  \* history: orders for which a reply said success: true
  spent          \* history: paid credits each user has consumed

vars == <<orders, balance, rate, txs, calls, issued, acknowledged, spent>>

Statuses  == {"absent", "pending", "completed", "expired"}
TxStates  == {"unbuilt", "built", "succeeded", "failed"}
Landed    == {"succeeded", "failed"}
CreatePcs == {"expire", "insert", "memo", "build"}
SubmitPcs == {"confirm", "complete"}

OrderRow ==
  [status : Statuses, user : Users \cup {NoUser}, credits : Packages \cup {0},
   txSignature : Txs \cup {NoTx}, memo : Orders \cup {NoOrder}, due : BOOLEAN]

RateKey == [count : Nat, ttl : BOOLEAN]

(* order: the order the API built it for, NoOrder when a wallet built it;  *)
(* memo: the order its memo names, NoOrder when it names none, like the    *)
(* placeholder "PAY:pending".                                              *)
Transaction ==
  [state : TxStates, order : Orders \cup {NoOrder}, memo : Orders \cup {NoOrder}]

Call ==
  [pc : {"idle"} \cup CreatePcs \cup SubmitPcs, user : Users \cup {NoUser},
   credits : Packages \cup {0}, order : Orders \cup {NoOrder}, tx : Txs \cup {NoTx}]

NoRow == [status |-> "absent", user |-> NoUser, credits |-> 0,
          txSignature |-> NoTx, memo |-> NoOrder, due |-> FALSE]
NotBuilt == [state |-> "unbuilt", order |-> NoOrder, memo |-> NoOrder]
IdleCall == [pc |-> "idle", user |-> NoUser, credits |-> 0,
             order |-> NoOrder, tx |-> NoTx]

TypeOK ==
  /\ orders \in [Orders -> OrderRow]
  /\ balance \in [Users -> Nat]
  /\ rate \in [Users -> RateKey]
  /\ txs \in [Txs -> Transaction]
  /\ calls \in [Calls -> Call]
  /\ issued \subseteq Orders
  /\ acknowledged \subseteq Orders
  /\ spent \in [Users -> Nat]

Init ==
  /\ orders = [o \in Orders |-> NoRow]
  /\ balance = [u \in Users |-> 0]
  /\ rate = [u \in Users |-> [count |-> 0, ttl |-> FALSE]]
  /\ txs = [t \in Txs |-> NotBuilt]
  /\ calls = [c \in Calls |-> IdleCall]
  /\ issued = {}
  /\ acknowledged = {}
  /\ spent = [u \in Users |-> 0]

Return(c)       == calls' = [calls EXCEPT ![c] = IdleCall]
Continue(c, pc) == calls' = [calls EXCEPT ![c].pc = pc]

(***************************************************************************)
(* createOrder                                                             *)
(***************************************************************************)

BeginCreate(c, u, p, pc) ==
  calls' = [calls EXCEPT ![c] = [IdleCall EXCEPT !.pc = pc, !.user = u, !.credits = p]]

(* INCR answers: the first attempt of a window must still set the TTL, an  *)
(* attempt over the limit is refused, the others go on to the INSERT.      *)
CreateOrder(c, u, p) ==
  LET count == rate[u].count + 1 IN
  /\ calls[c].pc = "idle"
  /\ count <= MaxAttempts
  /\ rate' = [rate EXCEPT ![u].count = count]
  /\ \/ count = 1 /\ BeginCreate(c, u, p, "expire")
     \/ count > 1 /\ count <= RateLimit /\ BeginCreate(c, u, p, "insert")
     \/ count > 1 /\ count > RateLimit /\ UNCHANGED calls
  /\ UNCHANGED <<orders, balance, txs, issued, acknowledged, spent>>

(* INCR fails: redisService.incr swallows the error and returns null, and  *)
(* the limiter fails open.                                                 *)
CreateOrderRedisDown(c, u, p) ==
  /\ calls[c].pc = "idle"
  /\ BeginCreate(c, u, p, "insert")
  /\ UNCHANGED <<orders, balance, rate, txs, issued, acknowledged, spent>>

(* EXPIRE sets the TTL, or fails and redisService.expire swallows that.    *)
SetRateTtl(c) ==
  /\ calls[c].pc = "expire"
  /\ \/ rate' = [rate EXCEPT ![calls[c].user].ttl = TRUE]
     \/ UNCHANGED rate
  /\ Continue(c, "insert")
  /\ UNCHANGED <<orders, balance, txs, issued, acknowledged, spent>>

(* Mutant: the id is handed out with the INSERT, before the memo is saved. *)
InsertOrderMutant(c, o) ==
  /\ calls[c].pc = "insert"
  /\ orders[o].status = "absent"
  /\ orders' = [orders EXCEPT ![o] =
       [NoRow EXCEPT !.status = "pending", !.user = calls[c].user,
                     !.credits = calls[c].credits]]
  /\ calls' = [calls EXCEPT ![c].pc = "memo", ![c].order = o]
  /\ issued' = issued \cup {o}
  /\ UNCHANGED <<balance, rate, txs, acknowledged, spent>>

InsertOrder(c, o) ==
  /\ calls[c].pc = "insert"
  /\ orders[o].status = "absent"
  /\ orders' = [orders EXCEPT ![o] =
       [NoRow EXCEPT !.status = "pending", !.user = calls[c].user,
                     !.credits = calls[c].credits]]
  /\ calls' = [calls EXCEPT ![c].pc = "memo", ![c].order = o]
  /\ UNCHANGED <<balance, rate, txs, issued, acknowledged, spent>>

SaveMemo(c) ==
  /\ calls[c].pc = "memo"
  /\ orders' = [orders EXCEPT ![calls[c].order].memo = calls[c].order]
  /\ Continue(c, "build")
  /\ UNCHANGED <<balance, rate, txs, issued, acknowledged, spent>>

Build(t, o, memo) ==
  /\ txs[t].state = "unbuilt"
  /\ txs' = [txs EXCEPT ![t] = [state |-> "built", order |-> o, memo |-> memo]]

(* The reply gives the client the order id and the unsigned transaction.   *)
BuildCreated(c, t) ==
  /\ calls[c].pc = "build"
  /\ Build(t, calls[c].order, calls[c].order)
  /\ issued' = issued \cup {calls[c].order}
  /\ Return(c)
  /\ UNCHANGED <<orders, balance, rate, acknowledged, spent>>

(***************************************************************************)
(* refreshTransaction                                                      *)
(***************************************************************************)

RefreshTransaction(o, t) ==
  /\ o \in issued
  /\ orders[o].status = "pending"
  /\ ~orders[o].due
  /\ Build(t, o, orders[o].memo)
  /\ UNCHANGED <<orders, balance, rate, calls, issued, acknowledged, spent>>

(***************************************************************************)
(* completeOrder: one database transaction, run by both payment paths.     *)
(***************************************************************************)

(* Mutant: no unique index. *)
SignatureFreeMutant(t) == TRUE

(* UNIQUE("txSignature") *)
SignatureFree(t) == \A o \in Orders : orders[o].txSignature # t

(* Mutant: the UPDATE has no status = 'pending' in its WHERE.              *)
CreditOrderMutant(o, t) ==
  /\ orders[o].status # "absent"
  /\ SignatureFree(t)
  /\ orders' = [orders EXCEPT ![o].status = "completed", ![o].txSignature = t]
  /\ balance' = [balance EXCEPT ![orders[o].user] = @ + orders[o].credits]

(* UPDATE ... WHERE status = 'pending' found the row: credit its owner.    *)
CreditOrder(o, t) ==
  /\ orders[o].status = "pending"
  /\ SignatureFree(t)
  /\ orders' = [orders EXCEPT ![o].status = "completed", ![o].txSignature = t]
  /\ balance' = [balance EXCEPT ![orders[o].user] = @ + orders[o].credits]

(* The UPDATE matched no row: { alreadyProcessed: true }, nothing written. *)
AlreadyProcessed(o) ==
  /\ orders[o].status # "pending"
  /\ UNCHANGED <<orders, balance>>

(***************************************************************************)
(* submitPayment                                                           *)
(***************************************************************************)

(* The order is read once, before the transaction is sent.  Any signed     *)
(* transaction will do: what it does and who built it is not looked at.    *)
SubmitPayment(c, o, t) ==
  /\ calls[c].pc = "idle"
  /\ o \in issued
  /\ txs[t].state # "unbuilt"
  /\ \/ /\ orders[o].status = "completed"
        /\ acknowledged' = acknowledged \cup {o}
        /\ UNCHANGED calls
     \/ /\ orders[o].status = "pending"
        /\ calls' = [calls EXCEPT ![c] =
             [IdleCall EXCEPT !.pc = "confirm", !.order = o, !.tx = t]]
        /\ UNCHANGED acknowledged
  /\ UNCHANGED <<orders, balance, rate, txs, issued, spent>>

(* Mutant: the transaction is sent, its confirmation is not awaited.       *)
PaymentConfirmedMutant(c) ==
  /\ calls[c].pc = "confirm"
  /\ Continue(c, "complete")
  /\ UNCHANGED <<orders, balance, rate, txs, issued, acknowledged, spent>>

(* confirmTransaction resolves as soon as the transaction is in a block;   *)
(* submitAndConfirm does not look at the execution error it reports.       *)
PaymentConfirmed(c) ==
  /\ calls[c].pc = "confirm"
  /\ txs[calls[c].tx].state \in Landed
  /\ Continue(c, "complete")
  /\ UNCHANGED <<orders, balance, rate, txs, issued, acknowledged, spent>>

CompleteSubmitted(c) ==
  /\ calls[c].pc = "complete"
  /\ CreditOrder(calls[c].order, calls[c].tx) \/ AlreadyProcessed(calls[c].order)
  /\ acknowledged' = acknowledged \cup {calls[c].order}
  /\ Return(c)
  /\ UNCHANGED <<rate, txs, issued, spent>>

(* Any awaited operation may reject (RPC error, expired blockhash, lost    *)
(* database, a UNIQUE violation), and a crash of the process rejects them  *)
(* all: the call ends and leaves what its earlier steps wrote.             *)
AbortCall(c) ==
  /\ calls[c].pc # "idle"
  /\ Return(c)
  /\ UNCHANGED <<orders, balance, rate, txs, issued, acknowledged, spent>>

(***************************************************************************)
(* The event path, the cron, the spending of credits and the environment   *)
(***************************************************************************)

(* PAYMENT_TRANSFERS events tell of transfers to the merchant; they arrive *)
(* at any time after one, more than once or never.  The memo alone names   *)
(* the order; whatever completeOrder throws is logged and lost.            *)
HandleTransferEvent(t) ==
  /\ txs[t].state = "succeeded"
  /\ txs[t].memo \in Orders
  /\ CreditOrder(txs[t].memo, t) \/ AlreadyProcessed(txs[t].memo)
  /\ UNCHANGED <<rate, txs, calls, issued, acknowledged, spent>>

(* Mutants: the cron forgets the status; it takes only rows with a memo.   *)
OverdueMutant(o)     == orders[o].status # "absent" /\ orders[o].due
OverdueMemoMutant(o) == orders[o].status = "pending" /\ orders[o].due /\ orders[o].memo = o

(* reconcile: one UPDATE over every pending row past its expiresAt.        *)
Overdue(o) == orders[o].status = "pending" /\ orders[o].due

ExpirePendingOrders ==
  /\ \E o \in Orders : Overdue(o)
  /\ orders' = [o \in Orders |->
       IF Overdue(o) THEN [orders[o] EXCEPT !.status = "expired"] ELSE orders[o]]
  /\ UNCHANGED <<balance, rate, txs, calls, issued, acknowledged, spent>>

(* Mutant: the UPDATE has no balance >= 1 in its WHERE.                    *)
SpendCreditMutant(u) ==
  /\ balance' = [balance EXCEPT ![u] = @ - 1]
  /\ spent' = [spent EXCEPT ![u] = @ + 1]
  /\ UNCHANGED <<orders, rate, txs, calls, issued, acknowledged>>

(* consumeQuota's second statement: balance - 1 WHERE balance >= 1.        *)
SpendCredit(u) ==
  /\ balance[u] >= 1
  /\ balance' = [balance EXCEPT ![u] = @ - 1]
  /\ spent' = [spent EXCEPT ![u] = @ + 1]
  /\ UNCHANGED <<orders, rate, txs, calls, issued, acknowledged>>

(* The clock passes expiresAt. *)
OrderBecomesDue(o) ==
  /\ orders[o].status = "pending"
  /\ ~orders[o].due
  /\ orders' = [orders EXCEPT ![o].due = TRUE]
  /\ UNCHANGED <<balance, rate, txs, calls, issued, acknowledged, spent>>

(* Redis drops a rate key whose TTL has run out. *)
RateWindowEnds(u) ==
  /\ rate[u].ttl
  /\ rate' = [rate EXCEPT ![u] = [count |-> 0, ttl |-> FALSE]]
  /\ UNCHANGED <<orders, balance, txs, calls, issued, acknowledged, spent>>

(* A wallet may make a transaction itself, with a memo of its own.         *)
BuildElsewhere(t, memo) ==
  /\ memo \in issued \cup {NoOrder}
  /\ Build(t, NoOrder, memo)
  /\ UNCHANGED <<orders, balance, rate, calls, issued, acknowledged, spent>>

(* The transaction, sent by submitPayment or by the wallet itself, is      *)
(* included in a block and succeeds or fails there.                       *)
Land(t) ==
  /\ txs[t].state = "built"
  /\ \E outcome \in Landed :
       txs' = [txs EXCEPT ![t].state = outcome]
  /\ UNCHANGED <<orders, balance, rate, calls, issued, acknowledged, spent>>

CreateStep(c) ==
  \/ \E u \in Users, p \in Packages : CreateOrder(c, u, p) \/ CreateOrderRedisDown(c, u, p)
  \/ SetRateTtl(c)
  \/ \E o \in Orders : InsertOrder(c, o)
  \/ SaveMemo(c)
  \/ \E t \in Txs : BuildCreated(c, t)

SubmitStep(c) ==
  \/ \E o \in Orders, t \in Txs : SubmitPayment(c, o, t)
  \/ PaymentConfirmed(c)
  \/ CompleteSubmitted(c)

Next ==
  \/ \E c \in Calls : CreateStep(c) \/ SubmitStep(c) \/ AbortCall(c)
  \/ \E o \in Orders, t \in Txs : RefreshTransaction(o, t)
  \/ \E t \in Txs : HandleTransferEvent(t) \/ Land(t)
  \/ \E t \in Txs, memo \in Orders \cup {NoOrder} : BuildElsewhere(t, memo)
  \/ \E o \in Orders : OrderBecomesDue(o)
  \/ \E u \in Users : SpendCredit(u) \/ RateWindowEnds(u)
  \/ ExpirePendingOrders

Spec == Init /\ [][Next]_vars

(* The minute cron runs for ever, expiresAt is passed, Redis honours a TTL *)
(* it was given, and an awaited step of a call settles one way or another. *)
Fairness ==
  /\ WF_vars(ExpirePendingOrders)
  /\ \A o \in Orders : WF_vars(OrderBecomesDue(o))
  /\ \A u \in Users : WF_vars(RateWindowEnds(u))
  /\ \A c \in Calls : WF_vars(AbortCall(c) \/ PaymentConfirmed(c) \/ CompleteSubmitted(c))

FairSpec == Spec /\ Fairness

-------------------------------------------------------------------------------
(***************************************************************************)
(* Properties                                                              *)
(***************************************************************************)

Completed(u) == {o \in Orders : orders[o].user = u /\ orders[o].status = "completed"}

(* Money in, money out: what a user holds plus what the user has consumed  *)
(* is what their completed orders granted, through every race of           *)
(* submitPayment, the event handler, the cron and the spending of credits. *)
CreditsConserved ==
  \A u \in Users :
    balance[u] + spent[u] = MapThenSumSet(LAMBDA o : orders[o].credits, Completed(u))

(* One transaction completes at most one order, even when it is submitted  *)
(* for two of them, whoever owns them and whoever built it, while its      *)
(* event completes the order its memo names.                               *)
OnePaymentOneOrder ==
  \A o1, o2 \in Orders :
    orders[o1].txSignature = orders[o2].txSignature /\ o1 # o2
      => orders[o1].txSignature = NoTx

(* An order is completed only by a transaction that is in a block, on both *)
(* payment paths, and every completed order names its transaction.         *)
CompletedTxLanded ==
  \A o \in Orders :
    orders[o].status = "completed" =>
      /\ orders[o].txSignature \in Txs
      /\ txs[orders[o].txSignature].state \in Landed

(* A transaction the API hands out carries the memo of the order it was    *)
(* built for, never the placeholder createOrder inserts first: otherwise   *)
(* its transfer event could not be matched to the order.                   *)
MemoNamesOrder ==
  \A t \in Txs : txs[t].order # NoOrder =>
    txs[t].memo = txs[t].order /\ txs[t].order \in issued

SameTerms(o) ==
  /\ orders'[o].status = orders[o].status /\ orders'[o].user = orders[o].user
  /\ orders'[o].credits = orders[o].credits /\ orders'[o].txSignature = orders[o].txSignature

(* A completed or expired order never changes again, whoever comes late:   *)
(* not its status, its signature, its owner or the credits it was worth    *)
(* (only createOrder's own memo may still be written by a slow call).      *)
SettledIsFinal ==
  [][\A o \in Orders : orders[o].status \in {"completed", "expired"} => SameTerms(o)]_vars

(* A balance rises only in the step that moves a pending order of that     *)
(* user to completed, and by that order's credits.                         *)
CreditsOnlyByCompletion ==
  [][\A u \in Users : balance'[u] > balance[u] =>
       \E o \in Orders :
         /\ orders[o].status = "pending" /\ orders'[o].status = "completed"
         /\ orders[o].user = u
         /\ balance'[u] = balance[u] + orders[o].credits]_vars

(* Every order is settled in the end, the ones a failed or crashed         *)
(* createOrder left behind included: the cron picks up what nobody pays.   *)
PendingOrderSettles ==
  \A o \in Orders :
    orders[o].status = "pending" ~> orders[o].status \in {"completed", "expired"}

Ledger == INSTANCE CreditLedger WITH
  entries <- [o \in Orders |->
    [state |-> CASE orders[o].status = "absent"    -> "none"
                 [] orders[o].status = "pending"   -> "open"
                 [] orders[o].status = "completed" -> "credited"
                 [] orders[o].status = "expired"   -> "void",
     user |-> orders[o].user, credits |-> orders[o].credits,
     tx |-> orders[o].txSignature]]

(* The payment paths, the cron and the chain together implement the ledger *)
(* that only opens, credits, voids and spends.                             *)
ImplementsLedger == Ledger!Spec

(* "whoever wins the race, the credits are added exactly once"             *)
(* (payment.service.ts:87-88): an order submitPayment reported as paid has *)
(* its credits.  The code breaks this: the cron may win the race.          *)
AcknowledgedIsCredited ==
  \A o \in acknowledged : orders[o].status = "completed"

(* "has itself submitted and confirmed the tx, so it trusts the signature" *)
(* (payment.service.ts:85-86): a completed order was really paid.  The     *)
(* code breaks this: a transaction can be confirmed with an error.         *)
CompletedWasPaid ==
  \A o \in Orders :
    orders[o].status = "completed" => txs[orders[o].txSignature].state = "succeeded"
==============================================================================
