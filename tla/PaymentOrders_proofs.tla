------------------------ MODULE PaymentOrders_proofs ------------------------
(***************************************************************************)
(* Theorems about PaymentOrders for any number of users, orders, calls and *)
(* transactions.  The inductive invariant says what each step of a call    *)
(* may rely on when it resumes, and what a row of the table may look like. *)
(***************************************************************************)
EXTENDS PaymentOrders, TLAPS, FiniteSetTheorems, WellFoundedInduction

(* What a call still holds true of the order and the transaction it read   *)
(* before its last await.                                                  *)
CallOK(c) ==
  /\ calls[c].pc \in CreatePcs => calls[c].user \in Users /\ calls[c].credits \in Packages
  /\ calls[c].pc \in {"memo", "build"} \cup SubmitPcs =>
       /\ calls[c].order \in Orders
       /\ orders[calls[c].order].status # "absent"
  /\ calls[c].pc = "build" => orders[calls[c].order].memo = calls[c].order
  /\ calls[c].pc \in SubmitPcs =>
       /\ calls[c].tx \in Txs
       /\ txs[calls[c].tx].state # "unbuilt"
  /\ calls[c].pc = "complete" => txs[calls[c].tx].state \in Landed

CallsOK == \A c \in Calls : CallOK(c)

RowOK(o) ==
  /\ orders[o].status # "absent" => orders[o].user \in Users /\ orders[o].credits \in Packages
  /\ orders[o].status = "completed" =>
       orders[o].txSignature \in Txs /\ txs[orders[o].txSignature].state \in Landed
  /\ orders[o].status # "completed" => orders[o].txSignature = NoTx

RowsOK == \A o \in Orders : RowOK(o)

IssuedOK == \A o \in issued : orders[o].status # "absent" /\ orders[o].memo = o

IInv ==
  /\ TypeOK
  /\ CallsOK
  /\ RowsOK
  /\ IssuedOK
  /\ MemoNamesOrder
  /\ OnePaymentOneOrder

-----------------------------------------------------------------------------
(***************************************************************************)
(* Typing of the updates the actions are made of.                          *)
(***************************************************************************)
LEMMA CallTyped ==
  ASSUME calls \in [Calls -> Call], NEW c \in Calls
  PROVE  /\ Return(c) => calls' \in [Calls -> Call]
         /\ \A pc \in CreatePcs \cup SubmitPcs : Continue(c, pc) => calls' \in [Calls -> Call]
         /\ \A u \in Users, p \in Packages, pc \in CreatePcs :
              BeginCreate(c, u, p, pc) => calls' \in [Calls -> Call]
<1>1. IdleCall \in Call
  BY DEF IdleCall, Call
<1>2. Return(c) => calls' \in [Calls -> Call]
  BY <1>1 DEF Return
<1>3. ASSUME NEW pc \in CreatePcs \cup SubmitPcs, Continue(c, pc)
      PROVE  calls' \in [Calls -> Call]
  BY <1>3 DEF Continue, Call
<1>4. ASSUME NEW u \in Users, NEW p \in Packages, NEW pc \in CreatePcs, BeginCreate(c, u, p, pc)
      PROVE  calls' \in [Calls -> Call]
  <2>1. [IdleCall EXCEPT !.pc = pc, !.user = u, !.credits = p] \in Call
    BY DEF IdleCall, Call
  <2> QED
    BY <1>4, <2>1 DEF BeginCreate
<1> QED
  BY <1>2, <1>3, <1>4

LEMMA RateTyped ==
  ASSUME rate \in [Users -> RateKey], NEW u \in Users
  PROVE  /\ [rate EXCEPT ![u].count = rate[u].count + 1] \in [Users -> RateKey]
         /\ [rate EXCEPT ![u].ttl = TRUE] \in [Users -> RateKey]
         /\ [rate EXCEPT ![u] = [count |-> 0, ttl |-> FALSE]] \in [Users -> RateKey]
<1>1. [rate EXCEPT ![u].count = rate[u].count + 1] \in [Users -> RateKey]
  BY DEF RateKey
<1>2. [rate EXCEPT ![u].ttl = TRUE] \in [Users -> RateKey]
  BY DEF RateKey
<1>3. [rate EXCEPT ![u] = [count |-> 0, ttl |-> FALSE]] \in [Users -> RateKey]
  BY DEF RateKey
<1> QED
  BY <1>1, <1>2, <1>3

LEMMA RowTyped ==
  ASSUME orders \in [Orders -> OrderRow], NEW o \in Orders
  PROVE  /\ \A t \in Txs : [orders EXCEPT ![o].status = "completed", ![o].txSignature = t]
              \in [Orders -> OrderRow]
         /\ [orders EXCEPT ![o].memo = o] \in [Orders -> OrderRow]
         /\ [orders EXCEPT ![o].due = TRUE] \in [Orders -> OrderRow]
<1>1. \A t \in Txs : [orders EXCEPT ![o].status = "completed", ![o].txSignature = t]
        \in [Orders -> OrderRow]
  BY ZenonT(60) DEF OrderRow, Statuses
<1>2. [orders EXCEPT ![o].memo = o] \in [Orders -> OrderRow]
  BY DEF OrderRow
<1>3. [orders EXCEPT ![o].due = TRUE] \in [Orders -> OrderRow]
  BY DEF OrderRow
<1> QED
  BY <1>1, <1>2, <1>3

LEMMA ExpiryTyped ==
  ASSUME orders \in [Orders -> OrderRow]
  PROVE  [x \in Orders |->
            IF Overdue(x) THEN [orders[x] EXCEPT !.status = "expired"] ELSE orders[x]]
           \in [Orders -> OrderRow]
BY DEF OrderRow, Statuses

LEMMA TxTyped ==
  ASSUME txs \in [Txs -> Transaction], NEW t \in Txs
  PROVE  /\ \A o, m \in Orders \cup {NoOrder} : Build(t, o, m) => txs' \in [Txs -> Transaction]
         /\ \A s \in TxStates : [txs EXCEPT ![t].state = s] \in [Txs -> Transaction]
<1>1. ASSUME NEW o \in Orders \cup {NoOrder}, NEW m \in Orders \cup {NoOrder}, Build(t, o, m)
      PROVE  txs' \in [Txs -> Transaction]
  BY <1>1 DEF Build, Transaction, TxStates
<1>2. \A s \in TxStates : [txs EXCEPT ![t].state = s] \in [Txs -> Transaction]
  BY DEF Transaction
<1> QED
  BY <1>1, <1>2

(* What completeOrder does to one row and one balance, field by field. *)
LEMMA CreditEffect ==
  ASSUME orders \in [Orders -> OrderRow], balance \in [Users -> Nat], RowsOK,
         NEW o \in Orders, NEW t \in Txs, CreditOrder(o, t)
  PROVE  /\ orders' \in [Orders -> OrderRow]
         /\ balance' \in [Users -> Nat]
         /\ orders'[o] = [orders[o] EXCEPT !.status = "completed", !.txSignature = t]
         /\ \A x \in Orders \ {o} : orders'[x] = orders[x]
         /\ orders[o].user \in Users /\ orders[o].credits \in Nat
         /\ balance'[orders[o].user] = balance[orders[o].user] + orders[o].credits
         /\ \A u \in Users \ {orders[o].user} : balance'[u] = balance[u]
<1>1. orders' \in [Orders -> OrderRow]
  BY RowTyped DEF CreditOrder
<1>2. /\ orders'[o] = [orders[o] EXCEPT !.status = "completed", !.txSignature = t]
      /\ \A x \in Orders \ {o} : orders'[x] = orders[x]
  BY DEF CreditOrder
<1>3. orders[o].user \in Users /\ orders[o].credits \in Nat
  BY BillingAssumption DEF RowsOK, RowOK, CreditOrder
<1>4. balance' = [balance EXCEPT ![orders[o].user] = balance[orders[o].user] + orders[o].credits]
  BY DEF CreditOrder
<1>5. /\ balance' \in [Users -> Nat]
      /\ balance'[orders[o].user] = balance[orders[o].user] + orders[o].credits
      /\ \A u \in Users \ {orders[o].user} : balance'[u] = balance[u]
  BY <1>3, <1>4
<1> QED
  BY <1>1, <1>2, <1>3, <1>5

-----------------------------------------------------------------------------
(***************************************************************************)
(* Preservation.  Rows and transactions only move forward, so what a call  *)
(* read before an await stays true enough while the others run.            *)
(***************************************************************************)
Forward ==
  /\ \A o \in Orders :
       /\ orders[o].status # "absent" => orders'[o].status # "absent"
       /\ orders[o].memo = o => orders'[o].memo = o
  /\ \A t \in Txs :
       /\ txs[t].state # "unbuilt" => txs'[t].state # "unbuilt"
       /\ txs[t].state \in Landed => txs'[t].state \in Landed

LEMMA OtherCallsKept ==
  ASSUME CallsOK, Forward, NEW d \in Calls, calls'[d] = calls[d]
  PROVE  CallOK(d)'
<1>1. CallOK(d)
  BY DEF CallsOK
<1> QED
  BY <1>1 DEF CallOK, Forward, SubmitPcs

LEMMA IdleCallOK ==
  ASSUME NEW d \in Calls, calls'[d] = IdleCall
  PROVE  CallOK(d)'
BY DEF CallOK, IdleCall, CreatePcs, SubmitPcs

LEMMA TableKept ==
  ASSUME RowsOK, IssuedOK, MemoNamesOrder, OnePaymentOneOrder,
         UNCHANGED <<orders, txs, issued>>
  PROVE  /\ RowsOK' /\ IssuedOK' /\ MemoNamesOrder' /\ OnePaymentOneOrder'
         /\ Forward
<1>1. RowsOK' /\ IssuedOK'
  BY DEF RowsOK, RowOK, IssuedOK
<1>2. MemoNamesOrder' /\ OnePaymentOneOrder'
  BY DEF MemoNamesOrder, OnePaymentOneOrder
<1>3. Forward
  BY DEF Forward
<1> QED
  BY <1>1, <1>2, <1>3

LEMMA CreateOrderInv ==
  ASSUME IInv, NEW c \in Calls, NEW u \in Users, NEW p \in Packages,
         CreateOrder(c, u, p) \/ CreateOrderRedisDown(c, u, p)
  PROVE  IInv'
<1> USE DEF IInv
<1>1. UNCHANGED <<orders, balance, txs, issued, acknowledged, spent>>
  BY DEF CreateOrder, CreateOrderRedisDown
<1>2. \/ UNCHANGED calls
      \/ \E pc \in CreatePcs \ {"memo", "build"} : BeginCreate(c, u, p, pc)
  BY DEF CreateOrder, CreateOrderRedisDown, CreatePcs
<1>3. rate' = rate \/ rate' = [rate EXCEPT ![u].count = rate[u].count + 1]
  BY DEF CreateOrder, CreateOrderRedisDown
<1>4. calls \in [Calls -> Call] /\ rate \in [Users -> RateKey]
  BY DEF TypeOK
<1>5. calls' \in [Calls -> Call] /\ rate' \in [Users -> RateKey]
  BY <1>2, <1>3, <1>4, CallTyped, RateTyped
<1>6. TypeOK'
  BY <1>1, <1>5 DEF TypeOK
<1>7. RowsOK' /\ IssuedOK' /\ MemoNamesOrder' /\ OnePaymentOneOrder' /\ Forward
  BY <1>1, TableKept
<1>8. ASSUME NEW d \in Calls
      PROVE  CallOK(d)'
  <2>1. CASE calls'[d] = calls[d]
    BY <1>7, <2>1, OtherCallsKept
  <2>2. CASE calls'[d] # calls[d]
    <3>1. PICK pc \in CreatePcs \ {"memo", "build"} : BeginCreate(c, u, p, pc)
      BY <1>2, <2>2
    <3>2. calls'[d].pc = pc /\ calls'[d].user = u /\ calls'[d].credits = p
      BY <1>4, <2>2, <3>1 DEF BeginCreate, IdleCall
    <3> QED
      BY <3>2 DEF CallOK, CreatePcs, SubmitPcs
  <2> QED
    BY <2>1, <2>2
<1> QED
  BY <1>6, <1>7, <1>8 DEF CallsOK

LEMMA SetRateTtlInv ==
  ASSUME IInv, NEW c \in Calls, SetRateTtl(c)
  PROVE  IInv'
<1> USE DEF IInv
<1>1. UNCHANGED <<orders, balance, txs, issued, acknowledged, spent>>
  BY DEF SetRateTtl
<1>2. calls[c].user \in Users /\ calls[c].credits \in Packages
  BY DEF SetRateTtl, CallsOK, CallOK, CreatePcs
<1>3. calls \in [Calls -> Call] /\ rate \in [Users -> RateKey]
  BY DEF TypeOK
<1>4. calls' \in [Calls -> Call]
  BY <1>3, CallTyped DEF SetRateTtl, CreatePcs
<1>5. rate' \in [Users -> RateKey]
  BY <1>2, <1>3, RateTyped DEF SetRateTtl
<1>6. TypeOK'
  BY <1>1, <1>4, <1>5 DEF TypeOK
<1>7. RowsOK' /\ IssuedOK' /\ MemoNamesOrder' /\ OnePaymentOneOrder' /\ Forward
  BY <1>1, TableKept
<1>8. ASSUME NEW d \in Calls
      PROVE  CallOK(d)'
  <2>1. CASE d # c
    <3>1. calls'[d] = calls[d]
      BY <1>3, <2>1 DEF SetRateTtl, Continue
    <3> QED
      BY <1>7, <3>1, OtherCallsKept
  <2>2. CASE d = c
    <3>1. calls'[c] = [calls[c] EXCEPT !.pc = "insert"]
      BY <1>3 DEF SetRateTtl, Continue
    <3>2. calls'[c].pc = "insert" /\ calls'[c].user = calls[c].user /\ calls'[c].credits = calls[c].credits
      BY <1>3, <3>1 DEF Call
    <3> QED
      BY <1>2, <2>2, <3>2 DEF CallOK, CreatePcs, SubmitPcs
  <2> QED
    BY <2>1, <2>2
<1> QED
  BY <1>6, <1>7, <1>8 DEF CallsOK

LEMMA InsertOrderInv ==
  ASSUME IInv, NEW c \in Calls, NEW o \in Orders, InsertOrder(c, o)
  PROVE  IInv'
<1> USE DEF IInv
<1> DEFINE row == [NoRow EXCEPT !.status = "pending", !.user = calls[c].user,
                                !.credits = calls[c].credits]
<1>1. UNCHANGED <<balance, rate, txs, issued, acknowledged, spent>>
  BY DEF InsertOrder
<1>2. calls[c].user \in Users /\ calls[c].credits \in Packages
  BY DEF InsertOrder, CallsOK, CallOK, CreatePcs
<1>3. /\ calls \in [Calls -> Call]
      /\ orders \in [Orders -> OrderRow]
  BY DEF TypeOK
<1>4. row \in OrderRow
  BY <1>2 DEF NoRow, OrderRow, Statuses
<1>5. /\ orders' \in [Orders -> OrderRow]
      /\ orders'[o] = row
      /\ \A x \in Orders \ {o} : orders'[x] = orders[x]
  BY <1>3, <1>4 DEF InsertOrder
<1>6. /\ calls' \in [Calls -> Call]
      /\ calls'[c] = [calls[c] EXCEPT !.pc = "memo", !.order = o]
      /\ \A d \in Calls \ {c} : calls'[d] = calls[d]
  BY <1>3, ZenonT(60) DEF InsertOrder, Call, CreatePcs
<1>7. TypeOK'
  BY <1>1, <1>5, <1>6 DEF TypeOK
<1>8. /\ row.status = "pending" /\ row.txSignature = NoTx
      /\ row.user \in Users /\ row.credits \in Packages
  BY <1>2 DEF NoRow
<1>9. RowsOK'
  BY <1>1, <1>5, <1>8 DEF RowsOK, RowOK
<1>10. orders[o].status = "absent" /\ o \notin issued
  BY DEF InsertOrder, IssuedOK
<1>11. IssuedOK'
  BY <1>1, <1>5, <1>10 DEF IssuedOK, TypeOK
<1>12. MemoNamesOrder'
  BY <1>1 DEF MemoNamesOrder
<1>13. OnePaymentOneOrder'
  <2>1. orders[o].txSignature = NoTx
    BY <1>10 DEF RowsOK, RowOK
  <2>2. \A x \in Orders : orders'[x].txSignature = orders[x].txSignature
    BY <1>5, <1>8, <2>1
  <2> QED
    BY <2>2 DEF OnePaymentOneOrder
<1>14. ASSUME NEW d \in Calls
       PROVE  CallOK(d)'
  <2>1. CASE d # c
    <3>1. CallOK(d) /\ calls'[d] = calls[d]
      BY <1>6, <2>1 DEF CallsOK
    <3>2. calls[d].pc \in {"memo", "build"} \cup SubmitPcs => calls[d].order # o
      BY <1>10, <3>1 DEF CallOK
    <3> QED
      BY <1>1, <1>5, <3>1, <3>2 DEF CallOK, SubmitPcs
  <2>2. CASE d = c
    <3>1. /\ calls'[c].pc = "memo" /\ calls'[c].order = o
          /\ calls'[c].user = calls[c].user /\ calls'[c].credits = calls[c].credits
      BY <1>3, <1>6 DEF Call
    <3> QED
      BY <1>2, <1>5, <1>8, <2>2, <3>1 DEF CallOK, CreatePcs, SubmitPcs
  <2> QED
    BY <2>1, <2>2
<1> QED
  BY <1>7, <1>9, <1>11, <1>12, <1>13, <1>14 DEF CallsOK

LEMMA SaveMemoInv ==
  ASSUME IInv, NEW c \in Calls, SaveMemo(c)
  PROVE  IInv'
<1> USE DEF IInv
<1> DEFINE o == calls[c].order
<1>1. UNCHANGED <<balance, rate, txs, issued, acknowledged, spent>>
  BY DEF SaveMemo
<1>2. /\ o \in Orders /\ orders[o].status # "absent"
      /\ calls[c].user \in Users /\ calls[c].credits \in Packages
  BY DEF SaveMemo, CallsOK, CallOK, CreatePcs
<1>3. /\ calls \in [Calls -> Call]
      /\ orders \in [Orders -> OrderRow]
  BY DEF TypeOK
<1>4. /\ calls' \in [Calls -> Call]
      /\ calls'[c] = [calls[c] EXCEPT !.pc = "build"]
      /\ \A d \in Calls \ {c} : calls'[d] = calls[d]
  BY <1>3, CallTyped DEF SaveMemo, CreatePcs, Continue
<1>5. /\ orders' \in [Orders -> OrderRow]
      /\ orders'[o] = [orders[o] EXCEPT !.memo = o]
      /\ \A x \in Orders \ {o} : orders'[x] = orders[x]
  BY <1>2, <1>3, RowTyped DEF SaveMemo
<1>6. /\ orders'[o].memo = o
      /\ \A x \in Orders \ {o} : orders'[x].memo = orders[x].memo
      /\ \A x \in Orders :
           /\ orders'[x].status = orders[x].status
           /\ orders'[x].user = orders[x].user /\ orders'[x].credits = orders[x].credits
           /\ orders'[x].txSignature = orders[x].txSignature
  <2>1. /\ orders'[o].status = orders[o].status /\ orders'[o].memo = o
        /\ orders'[o].user = orders[o].user /\ orders'[o].credits = orders[o].credits
        /\ orders'[o].txSignature = orders[o].txSignature
    BY <1>2, <1>3, <1>5 DEF OrderRow
  <2> QED
    BY <1>5, <2>1
<1>7. TypeOK'
  BY <1>1, <1>4, <1>5 DEF TypeOK
<1>8. RowsOK'
  BY <1>1, <1>6 DEF RowsOK, RowOK
<1>9. IssuedOK'
  BY <1>1, <1>6 DEF IssuedOK, TypeOK
<1>10. MemoNamesOrder'
  BY <1>1 DEF MemoNamesOrder
<1>11. OnePaymentOneOrder'
  BY <1>6 DEF OnePaymentOneOrder
<1>12. Forward
  BY <1>1, <1>2, <1>6 DEF Forward
<1>13. ASSUME NEW d \in Calls
       PROVE  CallOK(d)'
  <2>1. CASE d # c
    BY <1>4, <1>12, <2>1, OtherCallsKept
  <2>2. CASE d = c
    <3>1. /\ calls'[c].pc = "build" /\ calls'[c].order = o
          /\ calls'[c].user = calls[c].user /\ calls'[c].credits = calls[c].credits
      BY <1>3, <1>4 DEF Call
    <3> QED
      BY <1>2, <1>6, <2>2, <3>1 DEF CallOK, CreatePcs, SubmitPcs
  <2> QED
    BY <2>1, <2>2
<1> QED
  BY <1>7, <1>8, <1>9, <1>10, <1>11, <1>13 DEF CallsOK

(* Both createOrder and refreshTransaction build for an order whose memo   *)
(* is its own id and whose id the client has, or receives in this step.    *)
LEMMA BuildInv ==
  ASSUME IInv, NEW t \in Txs, NEW o \in Orders, Build(t, o, o),
         orders[o].status # "absent", orders[o].memo = o,
         issued' = issued \cup {o}, orders' = orders
  PROVE  /\ txs' \in [Txs -> Transaction] /\ issued' \subseteq Orders
         /\ RowsOK' /\ IssuedOK' /\ MemoNamesOrder' /\ OnePaymentOneOrder' /\ Forward
<1> USE DEF IInv
<1>1. txs \in [Txs -> Transaction] /\ issued \subseteq Orders
  BY DEF TypeOK
<1>2. txs' \in [Txs -> Transaction] /\ issued' \subseteq Orders
  BY <1>1, TxTyped
<1>3. /\ txs[t].state = "unbuilt"
      /\ txs'[t] = [state |-> "built", order |-> o, memo |-> o]
      /\ \A x \in Txs \ {t} : txs'[x] = txs[x]
  BY <1>1 DEF Build
<1>4. Forward
  BY <1>3 DEF Forward, Landed
<1>5. RowsOK'
  BY <1>4 DEF RowsOK, RowOK, Forward
<1>6. IssuedOK'
  BY DEF IssuedOK
<1>7. MemoNamesOrder'
  BY <1>3 DEF MemoNamesOrder
<1>8. OnePaymentOneOrder'
  BY DEF OnePaymentOneOrder
<1> QED
  BY <1>2, <1>4, <1>5, <1>6, <1>7, <1>8

LEMMA BuildCreatedInv ==
  ASSUME IInv, NEW c \in Calls, NEW t \in Txs, BuildCreated(c, t)
  PROVE  IInv'
<1> USE DEF IInv
<1> DEFINE o == calls[c].order
<1>1. o \in Orders /\ orders[o].status # "absent" /\ orders[o].memo = o
  BY DEF BuildCreated, CallsOK, CallOK
<1>2. /\ Build(t, o, o) /\ issued' = issued \cup {o}
      /\ UNCHANGED <<orders, balance, rate, acknowledged, spent>>
  BY DEF BuildCreated
<1>3. /\ txs' \in [Txs -> Transaction] /\ issued' \subseteq Orders
      /\ RowsOK' /\ IssuedOK' /\ MemoNamesOrder' /\ OnePaymentOneOrder' /\ Forward
  BY <1>1, <1>2, BuildInv
<1>4. calls \in [Calls -> Call]
  BY DEF TypeOK
<1>5. /\ calls' \in [Calls -> Call]
      /\ calls'[c] = IdleCall
      /\ \A d \in Calls \ {c} : calls'[d] = calls[d]
  BY <1>4, CallTyped DEF BuildCreated, Return
<1>6. TypeOK'
  BY <1>2, <1>3, <1>5 DEF TypeOK
<1>7. \A d \in Calls : CallOK(d)'
  BY <1>3, <1>5, OtherCallsKept, IdleCallOK
<1> QED
  BY <1>3, <1>6, <1>7 DEF CallsOK

LEMMA RefreshTransactionInv ==
  ASSUME IInv, NEW o \in Orders, NEW t \in Txs, RefreshTransaction(o, t)
  PROVE  IInv'
<1> USE DEF IInv
<1>1. orders[o].status # "absent" /\ orders[o].memo = o /\ issued = issued \cup {o}
  BY DEF RefreshTransaction, IssuedOK
<1>2. Build(t, o, o) /\ UNCHANGED <<orders, balance, rate, calls, issued, acknowledged, spent>>
  BY <1>1 DEF RefreshTransaction
<1>3. /\ txs' \in [Txs -> Transaction]
      /\ RowsOK' /\ IssuedOK' /\ MemoNamesOrder' /\ OnePaymentOneOrder' /\ Forward
  BY <1>1, <1>2, BuildInv
<1>4. TypeOK'
  BY <1>2, <1>3 DEF TypeOK
<1>5. \A d \in Calls : CallOK(d)'
  BY <1>2, <1>3, OtherCallsKept
<1> QED
  BY <1>3, <1>4, <1>5 DEF CallsOK

(* A transaction a wallet builds is no one's hand-out: no order is told.   *)
LEMMA BuildElsewhereInv ==
  ASSUME IInv, NEW t \in Txs, NEW memo \in Orders \cup {NoOrder}, BuildElsewhere(t, memo)
  PROVE  IInv'
<1> USE DEF IInv
<1>1. UNCHANGED <<orders, balance, rate, calls, issued, acknowledged, spent>> /\ Build(t, NoOrder, memo)
  BY DEF BuildElsewhere
<1>2. txs \in [Txs -> Transaction]
  BY DEF TypeOK
<1>3. /\ txs[t].state = "unbuilt"
      /\ txs'[t] = [state |-> "built", order |-> NoOrder, memo |-> memo]
      /\ \A x \in Txs \ {t} : txs'[x] = txs[x]
  BY <1>1, <1>2 DEF Build
<1>4. txs' \in [Txs -> Transaction]
  BY <1>1, <1>2, TxTyped
<1>5. Forward
  BY <1>1, <1>3 DEF Forward, Landed
<1>6. RowsOK' /\ IssuedOK' /\ OnePaymentOneOrder'
  BY <1>1, <1>5 DEF RowsOK, RowOK, IssuedOK, OnePaymentOneOrder, Forward
<1>7. MemoNamesOrder'
  BY <1>1, <1>3 DEF MemoNamesOrder
<1>8. TypeOK'
  BY <1>1, <1>4 DEF TypeOK
<1>9. \A d \in Calls : CallOK(d)'
  BY <1>1, <1>5, OtherCallsKept
<1> QED
  BY <1>6, <1>7, <1>8, <1>9 DEF CallsOK

LEMMA SubmitPaymentInv ==
  ASSUME IInv, NEW c \in Calls, NEW o \in Orders, NEW t \in Txs, SubmitPayment(c, o, t)
  PROVE  IInv'
<1> USE DEF IInv
<1> DEFINE new == [IdleCall EXCEPT !.pc = "confirm", !.order = o, !.tx = t]
<1>1. /\ UNCHANGED <<orders, balance, rate, txs, issued, spent>>
      /\ acknowledged' = acknowledged \cup {o} \/ UNCHANGED acknowledged
      /\ orders[o].status # "absent" /\ txs[t].state # "unbuilt"
  BY DEF SubmitPayment, IssuedOK
<1>2. UNCHANGED calls \/ calls' = [calls EXCEPT ![c] = new]
  BY DEF SubmitPayment
<1>3. calls \in [Calls -> Call]
  BY DEF TypeOK
<1>4. new \in Call
  BY DEF Call, IdleCall, SubmitPcs
<1>5. calls' \in [Calls -> Call]
  BY <1>2, <1>3, <1>4
<1>6. TypeOK'
  BY <1>1, <1>5 DEF TypeOK
<1>7. RowsOK' /\ IssuedOK' /\ MemoNamesOrder' /\ OnePaymentOneOrder' /\ Forward
  BY <1>1, TableKept
<1>8. ASSUME NEW d \in Calls
      PROVE  CallOK(d)'
  <2>1. CASE calls'[d] = calls[d]
    BY <1>7, <2>1, OtherCallsKept
  <2>2. CASE calls'[d] # calls[d]
    <3>1. calls'[d] = new
      BY <1>2, <1>3, <2>2
    <3>2. calls'[d].pc = "confirm" /\ calls'[d].order = o /\ calls'[d].tx = t
      BY <3>1 DEF IdleCall
    <3> QED
      BY <1>1, <3>2 DEF CallOK, CreatePcs, SubmitPcs
  <2> QED
    BY <2>1, <2>2
<1> QED
  BY <1>6, <1>7, <1>8 DEF CallsOK

LEMMA PaymentConfirmedInv ==
  ASSUME IInv, NEW c \in Calls, PaymentConfirmed(c)
  PROVE  IInv'
<1> USE DEF IInv
<1>1. UNCHANGED <<orders, balance, rate, txs, issued, acknowledged, spent>>
  BY DEF PaymentConfirmed
<1>2. calls \in [Calls -> Call]
  BY DEF TypeOK
<1>3. /\ calls' \in [Calls -> Call]
      /\ calls'[c] = [calls[c] EXCEPT !.pc = "complete"]
      /\ \A d \in Calls \ {c} : calls'[d] = calls[d]
  BY <1>2, CallTyped DEF PaymentConfirmed, Continue, SubmitPcs
<1>4. TypeOK'
  BY <1>1, <1>3 DEF TypeOK
<1>5. RowsOK' /\ IssuedOK' /\ MemoNamesOrder' /\ OnePaymentOneOrder' /\ Forward
  BY <1>1, TableKept
<1>6. CallOK(c) /\ calls[c].pc = "confirm" /\ txs[calls[c].tx].state \in Landed
  BY DEF PaymentConfirmed, CallsOK
<1>7. /\ calls'[c].pc = "complete" /\ calls'[c].order = calls[c].order
      /\ calls'[c].tx = calls[c].tx
  BY <1>2, <1>3 DEF Call
<1>8. CallOK(c)'
  BY <1>1, <1>6, <1>7 DEF CallOK, CreatePcs, SubmitPcs
<1>9. \A d \in Calls : CallOK(d)'
  BY <1>3, <1>5, <1>8, OtherCallsKept
<1> QED
  BY <1>4, <1>5, <1>9 DEF CallsOK

LEMMA AbortCallInv ==
  ASSUME IInv, NEW c \in Calls, AbortCall(c)
  PROVE  IInv'
<1> USE DEF IInv
<1>1. UNCHANGED <<orders, balance, rate, txs, issued, acknowledged, spent>>
  BY DEF AbortCall
<1>2. calls \in [Calls -> Call]
  BY DEF TypeOK
<1>3. /\ calls' \in [Calls -> Call] /\ calls'[c] = IdleCall
      /\ \A d \in Calls \ {c} : calls'[d] = calls[d]
  BY <1>2, CallTyped DEF AbortCall, Return
<1>4. TypeOK'
  BY <1>1, <1>3 DEF TypeOK
<1>5. RowsOK' /\ IssuedOK' /\ MemoNamesOrder' /\ OnePaymentOneOrder' /\ Forward
  BY <1>1, TableKept
<1>6. \A d \in Calls : CallOK(d)'
  BY <1>3, <1>5, OtherCallsKept, IdleCallOK
<1> QED
  BY <1>4, <1>5, <1>6 DEF CallsOK

(* completeOrder with a landed transaction, whichever path runs it. *)
LEMMA CompletionInv ==
  ASSUME IInv, NEW o \in Orders, NEW t \in Txs, txs[t].state \in Landed,
         CreditOrder(o, t) \/ AlreadyProcessed(o), UNCHANGED <<txs, issued>>
  PROVE  /\ orders' \in [Orders -> OrderRow] /\ balance' \in [Users -> Nat]
         /\ RowsOK' /\ IssuedOK' /\ MemoNamesOrder' /\ OnePaymentOneOrder' /\ Forward
<1> USE DEF IInv
<1>1. orders \in [Orders -> OrderRow] /\ balance \in [Users -> Nat]
  BY DEF TypeOK
<1>2. CASE AlreadyProcessed(o)
  BY <1>1, <1>2, TableKept DEF AlreadyProcessed
<1>3. CASE CreditOrder(o, t)
  <2>1. /\ orders' \in [Orders -> OrderRow] /\ balance' \in [Users -> Nat]
        /\ orders'[o] = [orders[o] EXCEPT !.status = "completed", !.txSignature = t]
        /\ \A x \in Orders \ {o} : orders'[x] = orders[x]
    BY <1>1, <1>3, CreditEffect
  <2>2. /\ orders'[o].status = "completed" /\ orders'[o].txSignature = t
        /\ orders'[o].memo = orders[o].memo /\ orders'[o].user = orders[o].user
        /\ orders'[o].credits = orders[o].credits
    BY <1>1, <2>1 DEF OrderRow
  <2>3. /\ orders[o].status = "pending"
        /\ \A x \in Orders : orders[x].txSignature # t
    BY <1>3 DEF CreditOrder, SignatureFree
  <2>4. RowsOK'
    <3> SUFFICES ASSUME NEW x \in Orders PROVE RowOK(x)'
      BY DEF RowsOK
    <3>1. RowOK(x) /\ RowOK(o)
      BY DEF RowsOK
    <3> QED
      BY <2>1, <2>2, <2>3, <3>1 DEF RowOK
  <2>5. IssuedOK'
    BY <2>1, <2>2 DEF IssuedOK, TypeOK
  <2>6. MemoNamesOrder'
    BY DEF MemoNamesOrder
  <2>7. OnePaymentOneOrder'
    <3>1. \A x \in Orders :
            orders'[x].txSignature = IF x = o THEN t ELSE orders[x].txSignature
      BY <2>1, <2>2
    <3> QED
      BY <2>3, <3>1 DEF OnePaymentOneOrder
  <2>8. Forward
    BY <2>1, <2>2 DEF Forward
  <2> QED
    BY <2>1, <2>4, <2>5, <2>6, <2>7, <2>8
<1> QED
  BY <1>2, <1>3

LEMMA CompleteSubmittedInv ==
  ASSUME IInv, NEW c \in Calls, CompleteSubmitted(c)
  PROVE  IInv'
<1> USE DEF IInv
<1>1. /\ calls[c].order \in Orders /\ calls[c].tx \in Txs
      /\ txs[calls[c].tx].state \in Landed
  BY DEF CompleteSubmitted, CallsOK, CallOK, SubmitPcs
<1>2. /\ orders' \in [Orders -> OrderRow] /\ balance' \in [Users -> Nat]
      /\ RowsOK' /\ IssuedOK' /\ MemoNamesOrder' /\ OnePaymentOneOrder' /\ Forward
  BY <1>1, CompletionInv DEF CompleteSubmitted
<1>3. calls \in [Calls -> Call]
  BY DEF TypeOK
<1>4. /\ calls' \in [Calls -> Call] /\ calls'[c] = IdleCall
      /\ \A d \in Calls \ {c} : calls'[d] = calls[d]
  BY <1>3, CallTyped DEF CompleteSubmitted, Return
<1>5. TypeOK'
  BY <1>1, <1>2, <1>4 DEF TypeOK, CompleteSubmitted
<1>6. \A d \in Calls : CallOK(d)'
  BY <1>2, <1>4, OtherCallsKept, IdleCallOK
<1> QED
  BY <1>2, <1>5, <1>6 DEF CallsOK

LEMMA HandleTransferEventInv ==
  ASSUME IInv, NEW t \in Txs, HandleTransferEvent(t)
  PROVE  IInv'
<1> USE DEF IInv
<1>1. txs[t].memo \in Orders /\ txs[t].state \in Landed
  BY DEF HandleTransferEvent, Landed
<1>2. /\ orders' \in [Orders -> OrderRow] /\ balance' \in [Users -> Nat]
      /\ RowsOK' /\ IssuedOK' /\ MemoNamesOrder' /\ OnePaymentOneOrder' /\ Forward
  BY <1>1, CompletionInv DEF HandleTransferEvent
<1>3. TypeOK'
  BY <1>2 DEF TypeOK, HandleTransferEvent
<1>4. \A d \in Calls : CallOK(d)'
  BY <1>2, OtherCallsKept DEF HandleTransferEvent
<1> QED
  BY <1>2, <1>3, <1>4 DEF CallsOK

LEMMA LandInv ==
  ASSUME IInv, NEW t \in Txs, Land(t)
  PROVE  IInv'
<1> USE DEF IInv
<1>1. UNCHANGED <<orders, balance, rate, calls, issued, acknowledged, spent>>
  BY DEF Land
<1>2. txs \in [Txs -> Transaction]
  BY DEF TypeOK
<1>3. PICK s \in Landed : txs' = [txs EXCEPT ![t].state = s]
  BY DEF Land
<1>4. txs' \in [Txs -> Transaction]
  BY <1>2, <1>3, TxTyped DEF Landed, TxStates
<1>5. \A x \in Txs : /\ txs'[x].memo = txs[x].memo /\ txs'[x].order = txs[x].order
                    /\ txs'[x].state = IF x = t THEN s ELSE txs[x].state
  BY <1>2, <1>3 DEF Transaction
<1>6. txs[t].state = "built"
  BY DEF Land
<1>7. TypeOK'
  BY <1>1, <1>4 DEF TypeOK
<1>8. Forward
  BY <1>1, <1>5 DEF Forward, Landed
<1>9. RowsOK'
  BY <1>1, <1>8 DEF RowsOK, RowOK, Forward
<1>10. IssuedOK' /\ OnePaymentOneOrder'
  BY <1>1 DEF IssuedOK, OnePaymentOneOrder
<1>11. MemoNamesOrder'
  BY <1>1, <1>5, <1>6 DEF MemoNamesOrder
<1>12. \A d \in Calls : CallOK(d)'
  BY <1>1, <1>8, OtherCallsKept
<1> QED
  BY <1>7, <1>9, <1>10, <1>11, <1>12 DEF CallsOK

(* The cron and the clock touch only the status and the due flag. *)
LEMMA ClockInv ==
  ASSUME IInv, ExpirePendingOrders \/ \E o \in Orders : OrderBecomesDue(o)
  PROVE  IInv'
<1> USE DEF IInv
<1>1. UNCHANGED <<balance, rate, txs, calls, issued, acknowledged, spent>>
  BY DEF ExpirePendingOrders, OrderBecomesDue
<1>2. orders \in [Orders -> OrderRow]
  BY DEF TypeOK
<1>3. orders' \in [Orders -> OrderRow]
  <2>1. CASE ExpirePendingOrders
    BY <1>2, <2>1, ExpiryTyped DEF ExpirePendingOrders
  <2>2. CASE \E o \in Orders : OrderBecomesDue(o)
    BY <1>2, <2>2, RowTyped, ZenonT(60) DEF OrderBecomesDue
  <2> QED
    BY <2>1, <2>2
<1>4. \A x \in Orders :
        /\ orders'[x].user = orders[x].user /\ orders'[x].credits = orders[x].credits
        /\ orders'[x].memo = orders[x].memo /\ orders'[x].txSignature = orders[x].txSignature
        /\ \/ orders'[x].status = orders[x].status
           \/ orders[x].status = "pending" /\ orders'[x].status = "expired"
  <2>1. CASE ExpirePendingOrders
    BY <1>2, <2>1 DEF ExpirePendingOrders, Overdue, OrderRow
  <2>2. CASE \E o \in Orders : OrderBecomesDue(o)
    BY <1>2, <2>2 DEF OrderBecomesDue, OrderRow
  <2> QED
    BY <2>1, <2>2
<1>5. TypeOK'
  BY <1>1, <1>3 DEF TypeOK
<1>6. Forward
  BY <1>1, <1>4 DEF Forward
<1>7. RowsOK'
  BY <1>1, <1>4 DEF RowsOK, RowOK
<1>8. IssuedOK'
  BY <1>1, <1>4 DEF IssuedOK, TypeOK
<1>9. OnePaymentOneOrder'
  BY <1>4 DEF OnePaymentOneOrder
<1>10. MemoNamesOrder'
  BY <1>1 DEF MemoNamesOrder
<1>11. \A d \in Calls : CallOK(d)'
  BY <1>1, <1>6, OtherCallsKept
<1> QED
  BY <1>5, <1>7, <1>8, <1>9, <1>10, <1>11 DEF CallsOK

LEMMA UserInv ==
  ASSUME IInv, NEW u \in Users, SpendCredit(u) \/ RateWindowEnds(u)
  PROVE  IInv'
<1> USE DEF IInv
<1>1. UNCHANGED <<orders, txs, calls, issued, acknowledged>>
  BY DEF SpendCredit, RateWindowEnds
<1>2. balance \in [Users -> Nat] /\ spent \in [Users -> Nat] /\ rate \in [Users -> RateKey]
  BY DEF TypeOK
<1>3. balance' \in [Users -> Nat] /\ spent' \in [Users -> Nat]
  BY <1>2 DEF SpendCredit, RateWindowEnds
<1>4. rate' \in [Users -> RateKey]
  BY <1>2, RateTyped DEF SpendCredit, RateWindowEnds
<1>5. TypeOK'
  BY <1>1, <1>3, <1>4 DEF TypeOK
<1>6. RowsOK' /\ IssuedOK' /\ MemoNamesOrder' /\ OnePaymentOneOrder' /\ Forward
  BY <1>1, TableKept
<1>7. \A d \in Calls : CallOK(d)'
  BY <1>1, <1>6, OtherCallsKept
<1> QED
  BY <1>5, <1>6, <1>7 DEF CallsOK

-----------------------------------------------------------------------------
LEMMA InitInv == Init => IInv
<1> SUFFICES ASSUME Init PROVE IInv
  OBVIOUS
<1>1. TypeOK
  BY DEF Init, TypeOK, OrderRow, Transaction, Call, RateKey, Statuses, TxStates,
         NoRow, NotBuilt, IdleCall
<1>2. CallsOK
  BY DEF Init, CallsOK, CallOK, IdleCall, CreatePcs, SubmitPcs
<1>3. RowsOK /\ IssuedOK /\ OnePaymentOneOrder
  BY DEF Init, RowsOK, RowOK, IssuedOK, OnePaymentOneOrder, NoRow
<1>4. MemoNamesOrder
  BY DEF Init, MemoNamesOrder, NotBuilt
<1> QED
  BY <1>1, <1>2, <1>3, <1>4 DEF IInv

LEMMA StepInv == IInv /\ [Next]_vars => IInv'
<1> SUFFICES ASSUME IInv, [Next]_vars
             PROVE  IInv'
  OBVIOUS
<1>1. ASSUME NEW c \in Calls, CreateStep(c)
      PROVE  IInv'
  BY <1>1, CreateOrderInv, SetRateTtlInv, InsertOrderInv, SaveMemoInv, BuildCreatedInv
     DEF CreateStep
<1>2. ASSUME NEW c \in Calls, SubmitStep(c) \/ AbortCall(c)
      PROVE  IInv'
  BY <1>2, SubmitPaymentInv, PaymentConfirmedInv, CompleteSubmittedInv, AbortCallInv
     DEF SubmitStep
<1>3. CASE UNCHANGED vars
  <2>1. /\ TypeOK'
        /\ RowsOK' /\ IssuedOK' /\ MemoNamesOrder' /\ OnePaymentOneOrder' /\ Forward
    BY <1>3, TableKept DEF vars, IInv, TypeOK
  <2>2. \A d \in Calls : CallOK(d)'
    BY <1>3, <2>1, OtherCallsKept DEF vars, IInv
  <2> QED
    BY <2>1, <2>2 DEF IInv, CallsOK
<1> QED
  BY <1>1, <1>2, <1>3, RefreshTransactionInv, BuildElsewhereInv, HandleTransferEventInv, LandInv, ClockInv, UserInv
     DEF Next

THEOREM Inductive == Spec => []IInv
BY InitInv, StepInv, PTL DEF Spec

(* Every variable keeps its type. *)
THEOREM TypeCorrect == Spec => []TypeOK
<1>1. IInv => TypeOK
  BY DEF IInv
<1> QED
  BY <1>1, Inductive, PTL

(* One payment completes at most one order, for any number of concurrent   *)
(* submissions, events and orders: completeOrder's UNIQUE constraint.      *)
THEOREM OnePaymentOneOrderHolds == Spec => []OnePaymentOneOrder
<1>1. IInv => OnePaymentOneOrder
  BY DEF IInv
<1> QED
  BY <1>1, Inductive, PTL

(* No order is completed before its transaction is in a block.             *)
THEOREM CompletedTxLandedHolds == Spec => []CompletedTxLanded
<1>1. IInv => CompletedTxLanded
  BY DEF IInv, RowsOK, RowOK, CompletedTxLanded
<1> QED
  BY <1>1, Inductive, PTL

(* A transaction offered for signing always names its order in its memo.   *)
THEOREM MemoNamesOrderHolds == Spec => []MemoNamesOrder
<1>1. IInv => MemoNamesOrder
  BY DEF IInv
<1> QED
  BY <1>1, Inductive, PTL

-----------------------------------------------------------------------------
(***************************************************************************)
(* What a step may do to a row and to a balance: the action properties and *)
(* the refinement follow from this summary of Next.                        *)
(***************************************************************************)
OpensFor(o, u, p) ==
  /\ orders[o].status = "absent"
  /\ orders'[o] = [NoRow EXCEPT !.status = "pending", !.user = u, !.credits = p]
  /\ \A x \in Orders \ {o} : SameTerms(x)
  /\ balance' = balance

Opens == \E o \in Orders, u \in Users, p \in Packages : OpensFor(o, u, p)

Credits ==
  \E o \in Orders, t \in Txs :
    /\ CreditOrder(o, t)
    /\ \A x \in Orders \ {o} : SameTerms(x)

Expires ==
  /\ ExpirePendingOrders
  /\ balance' = balance

Spends ==
  /\ \E u \in Users : /\ balance[u] >= 1
                      /\ balance' = [balance EXCEPT ![u] = @ - 1]
                      /\ spent' = [spent EXCEPT ![u] = @ + 1]
  /\ orders' = orders

Idles == balance' = balance /\ \A x \in Orders : SameTerms(x)

LEMMA MoneySteps ==
  ASSUME IInv, [Next]_vars
  PROVE  Spends \/ (spent' = spent /\ (Opens \/ Credits \/ Expires \/ Idles))
<1>1. ASSUME balance' = balance, orders' = orders
      PROVE  Idles
  BY <1>1 DEF Idles, SameTerms
<1>2. ASSUME NEW c \in Calls, NEW o \in Orders, InsertOrder(c, o)
      PROVE  Opens
  <2>1. calls[c].user \in Users /\ calls[c].credits \in Packages
    BY <1>2 DEF InsertOrder, IInv, CallsOK, CallOK, CreatePcs
  <2>2. /\ orders'[o] = [NoRow EXCEPT !.status = "pending", !.user = calls[c].user,
                                      !.credits = calls[c].credits]
        /\ \A x \in Orders \ {o} : orders'[x] = orders[x]
    BY <1>2 DEF InsertOrder, IInv, TypeOK
  <2>3. \A x \in Orders \ {o} : SameTerms(x)
    BY <2>2 DEF SameTerms
  <2>4. orders[o].status = "absent" /\ balance' = balance
    BY <1>2 DEF InsertOrder
  <2>5. OpensFor(o, calls[c].user, calls[c].credits)
    BY <2>2, <2>3, <2>4 DEF OpensFor
  <2> QED
    BY <2>1, <2>5 DEF Opens
<1>3. ASSUME NEW c \in Calls, SaveMemo(c)
      PROVE  Idles
  <2>1. orders \in [Orders -> OrderRow]
    BY DEF IInv, TypeOK
  <2>2. calls[c].order \in Orders
    BY <1>3 DEF SaveMemo, IInv, CallsOK, CallOK, CreatePcs, SubmitPcs
  <2>3. orders' = [orders EXCEPT ![calls[c].order].memo = calls[c].order] /\ balance' = balance
    BY <1>3 DEF SaveMemo
  <2>4. \A x \in Orders : SameTerms(x)
    BY <2>1, <2>2, <2>3 DEF SameTerms, OrderRow
  <2> QED
    BY <2>3, <2>4 DEF Idles
<1>4. ASSUME NEW o \in Orders, OrderBecomesDue(o)
      PROVE  Idles
  <2>1. orders \in [Orders -> OrderRow]
    BY DEF IInv, TypeOK
  <2> QED
    BY <1>4, <2>1 DEF OrderBecomesDue, Idles, SameTerms, OrderRow
<1>5. ASSUME NEW o \in Orders, NEW t \in Txs, CreditOrder(o, t)
      PROVE  Credits
  BY <1>5 DEF Credits, CreditOrder, SameTerms, IInv, TypeOK
<1>6. ASSUME NEW c \in Calls, CompleteSubmitted(c)
      PROVE  Credits \/ Idles
  <2>1. calls[c].order \in Orders /\ calls[c].tx \in Txs
    BY <1>6 DEF CompleteSubmitted, IInv, CallsOK, CallOK, SubmitPcs
  <2> QED
    BY <1>1, <1>5, <1>6, <2>1 DEF CompleteSubmitted, AlreadyProcessed, Idles, SameTerms
<1>7. ASSUME NEW t \in Txs, HandleTransferEvent(t)
      PROVE  Credits \/ Idles
  BY <1>1, <1>5, <1>7 DEF HandleTransferEvent, AlreadyProcessed, Idles, SameTerms
<1>8. ASSUME NEW u \in Users, SpendCredit(u)
      PROVE  Spends
  BY <1>8, Zenon DEF SpendCredit, Spends
<1>9. CASE ExpirePendingOrders
  BY <1>9 DEF Expires, ExpirePendingOrders
<1>10. \/ balance' = balance /\ orders' = orders
       \/ \E c \in Calls, o \in Orders : InsertOrder(c, o)
       \/ \E c \in Calls : SaveMemo(c) \/ CompleteSubmitted(c)
       \/ \E o \in Orders : OrderBecomesDue(o)
       \/ \E t \in Txs : HandleTransferEvent(t)
       \/ \E u \in Users : SpendCredit(u)
       \/ ExpirePendingOrders
  BY ZenonT(60) DEF Next, vars, CreateStep, SubmitStep, CreateOrder, CreateOrderRedisDown, SetRateTtl,
         BuildCreated, SubmitPayment, PaymentConfirmed, AbortCall, RefreshTransaction, BuildElsewhere, Land,
         RateWindowEnds
<1>11. spent' = spent \/ \E u \in Users : SpendCredit(u)
  BY ZenonT(60) DEF Next, vars, CreateStep, SubmitStep, CreateOrder, CreateOrderRedisDown, SetRateTtl,
         InsertOrder, SaveMemo, BuildCreated, SubmitPayment, PaymentConfirmed, CompleteSubmitted,
         AbortCall, RefreshTransaction, BuildElsewhere, HandleTransferEvent, ExpirePendingOrders, OrderBecomesDue,
         RateWindowEnds, Land
<1> QED
  BY <1>1, <1>2, <1>3, <1>4, <1>6, <1>7, <1>8, <1>9, <1>10, <1>11

(* A completed or expired order is final. *)
THEOREM SettledIsFinalHolds == Spec => SettledIsFinal
<1> DEFINE Final ==
      \A o \in Orders : orders[o].status \in {"completed", "expired"} => SameTerms(o)
<1>1. ASSUME IInv, [Next]_vars
      PROVE  Final
  <2>1. CASE Opens
    BY <2>1 DEF Opens, OpensFor
  <2>2. CASE Credits
    BY <2>2 DEF Credits, CreditOrder
  <2>3. CASE Expires
    BY <2>3 DEF Expires, ExpirePendingOrders, Overdue, SameTerms
  <2>4. CASE Spends
    BY <2>4 DEF Spends, SameTerms
  <2>5. CASE Idles
    BY <2>5 DEF Idles
  <2> QED
    BY <1>1, <2>1, <2>2, <2>3, <2>4, <2>5, MoneySteps
<1> QED
  BY <1>1, Inductive, PTL DEF Spec, SettledIsFinal

(* Credits come only from completing a pending order, and once per order.  *)
THEOREM CreditsOnlyByCompletionHolds == Spec => CreditsOnlyByCompletion
<1> DEFINE Earned ==
      \A u \in Users : balance'[u] > balance[u] =>
        \E o \in Orders :
          /\ orders[o].status = "pending" /\ orders'[o].status = "completed"
          /\ orders[o].user = u
          /\ balance'[u] = balance[u] + orders[o].credits
<1>1. ASSUME IInv, [Next]_vars
      PROVE  Earned
  <2>1. /\ orders \in [Orders -> OrderRow] /\ balance \in [Users -> Nat] /\ RowsOK
    BY <1>1 DEF IInv, TypeOK
  <2>2. CASE Credits
    <3>1. PICK o \in Orders, t \in Txs : CreditOrder(o, t)
      BY <2>2 DEF Credits
    <3>2. /\ orders[o].status = "pending"
          /\ orders'[o] = [orders[o] EXCEPT !.status = "completed", !.txSignature = t]
          /\ balance'[orders[o].user] = balance[orders[o].user] + orders[o].credits
          /\ \A u \in Users \ {orders[o].user} : balance'[u] = balance[u]
      BY <2>1, <3>1, CreditEffect DEF CreditOrder
    <3>3. orders'[o].status = "completed"
      BY <2>1, <3>2 DEF OrderRow
    <3>4. ASSUME NEW u \in Users, balance'[u] > balance[u]
          PROVE  orders[o].user = u
      BY <2>1, <3>2, <3>4
    <3> QED
      BY <3>2, <3>3, <3>4
  <2>3. CASE Spends
    BY <2>1, <2>3 DEF Spends
  <2>4. CASE balance' = balance
    BY <2>1, <2>4
  <2> QED
    BY <1>1, <2>2, <2>3, <2>4, MoneySteps DEF Opens, OpensFor, Expires, Idles
<1> QED
  BY <1>1, Inductive, PTL DEF Spec, CreditsOnlyByCompletion

-----------------------------------------------------------------------------
(***************************************************************************)
(* The credits of a finite set of orders.  The library sums a set by       *)
(* taking its elements out in the order CHOOSE gives; the lemmas free the  *)
(* sum of that order.  Each is proved on a smallest counterexample.        *)
(***************************************************************************)
Granted(t, S) == MapThenSumSet(LAMBDA o : t[o].credits, S)

Pick(s) == CHOOSE x \in s : TRUE

(* f gives every subset of S its sum. *)
Sums(f, t, S) ==
  \A s \in SUBSET S :
    f[s] = IF s = {} THEN 0 ELSE t[Pick(s)].credits + f[s \ {Pick(s)}]

(* The function the library chooses: it is defined on the subsets of S.   *)
IsSums(f, t, S) ==
  f = [s \in SUBSET S |-> IF s = {} THEN 0 ELSE t[Pick(s)].credits + f[s \ {Pick(s)}]]

LEMMA LeastOf ==
  ASSUME NEW S \in SUBSET Nat, S # {}
  PROVE  \E x \in S : \A y \in S : x <= y
<1>1. \E x \in S : \A y \in S : ~(<<y, x>> \in OpToRel(<, Nat))
  <2> DEFINE R == OpToRel(<, Nat)
  <2>1. IsWellFoundedOn(R, Nat)
    BY NatLessThanWellFounded, Zenon
  <2> HIDE DEF R
  <2>2. \E x \in S : \A y \in S : ~(<<y, x>> \in R)
    BY <2>1, WFMin, Zenon
  <2> QED BY <2>2, Zenon DEF R
<1>2. ASSUME NEW x \in S, NEW y \in S, ~(<<y, x>> \in OpToRel(<, Nat))
      PROVE  x <= y
  BY <1>2 DEF OpToRel
<1> QED
  BY <1>1, <1>2

LEMMA Smaller ==
  ASSUME NEW S, IsFiniteSet(S), NEW s \in SUBSET S
  PROVE  /\ IsFiniteSet(s) /\ Cardinality(s) \in Nat
         /\ Cardinality(s) = 0 <=> s = {}
         /\ \A x \in s : /\ s \ {x} \in SUBSET S
                         /\ Cardinality(s \ {x}) = Cardinality(s) - 1
         /\ s # {} => Pick(s) \in s
<1>1. IsFiniteSet(s)
  BY FS_Subset
<1>2. Cardinality(s) \in Nat
  BY <1>1, FS_CardinalityType
<1>3. Cardinality(s) = 0 <=> s = {}
  BY <1>1, FS_EmptySet
<1>4. \A x \in s : Cardinality(s \ {x}) = Cardinality(s) - 1
  BY <1>1, FS_RemoveElement
<1>5. s # {} => Pick(s) \in s
  BY Zenon DEF Pick
<1> QED
  BY <1>1, <1>2, <1>3, <1>4, <1>5

LEMMA SumsExist ==
  ASSUME NEW t, NEW S, IsFiniteSet(S)
  PROVE  \E f : IsSums(f, t, S)
<1> DEFINE Upto(n) == {s \in SUBSET S : Cardinality(s) <= n}
           Part(g, n) == \A s \in Upto(n) :
             g[s] = IF s = {} THEN 0 ELSE t[Pick(s)].credits + g[s \ {Pick(s)}]
           Bad == {n \in Nat : ~\E g : Part(g, n)}
<1>1. Bad = {}
  <2> SUFFICES ASSUME Bad # {} PROVE FALSE
    OBVIOUS
  <2>1. PICK n \in Bad : \A m \in Bad : n <= m
    <3>1. Bad \in SUBSET Nat
      OBVIOUS
    <3> HIDE DEF Bad
    <3> QED BY <3>1, LeastOf
  <2>2. n \in Nat /\ ~\E g : Part(g, n)
    OBVIOUS
  <2>3. CASE n = 0
    <3> DEFINE g == [s \in SUBSET S |-> 0]
    <3>1. ASSUME NEW s \in Upto(n)
          PROVE  s = {} /\ g[s] = 0
      BY <2>3, Smaller
    <3>2. Part(g, n)
      BY <3>1
    <3> QED BY <2>2, <3>2
  <2>4. CASE n # 0
    <3>0. n - 1 \in Nat /\ ~(n <= n - 1)
      BY <2>2, <2>4
    <3>1. n - 1 \notin Bad
      <4> HIDE DEF Bad
      <4> QED BY <2>1, <3>0
    <3>2. PICK g : Part(g, n - 1)
      BY <3>0, <3>1
    <3> DEFINE h == [s \in SUBSET S |->
                 IF Cardinality(s) <= n - 1 THEN g[s]
                 ELSE t[Pick(s)].credits + g[s \ {Pick(s)}]]
    <3>3. ASSUME NEW s \in Upto(n)
          PROVE  h[s] = IF s = {} THEN 0 ELSE t[Pick(s)].credits + h[s \ {Pick(s)}]
      <4>1. /\ Cardinality(s) \in Nat
            /\ Cardinality(s) = 0 <=> s = {}
            /\ s # {} => /\ s \ {Pick(s)} \in SUBSET S
                         /\ Cardinality(s \ {Pick(s)}) = Cardinality(s) - 1
        BY Smaller
      <4>0. Cardinality(s) <= n /\ n \in Nat
        BY <2>2
      <4>2. s # {} => h[s \ {Pick(s)}] = g[s \ {Pick(s)}]
        <5> SUFFICES ASSUME s # {} PROVE h[s \ {Pick(s)}] = g[s \ {Pick(s)}]
          OBVIOUS
        <5>1. PICK r \in SUBSET S : r = s \ {Pick(s)} /\ Cardinality(r) = Cardinality(s) - 1
          BY <4>1
        <5>2. Cardinality(r) <= n - 1
          BY <4>0, <4>1, <5>1
        <5>3. h[r] = g[r]
          BY <5>2
        <5> QED BY <5>1, <5>3, Zenon
      <4>3. CASE Cardinality(s) <= n - 1
        <5>1. s \in Upto(n - 1)
          BY <4>3
        <5>2. h[s] = g[s]
          BY <4>3
        <5>3. g[s] = IF s = {} THEN 0 ELSE t[Pick(s)].credits + g[s \ {Pick(s)}]
          BY <3>2, <5>1
        <5> HIDE DEF h
        <5> QED BY <5>2, <5>3, <4>2
      <4>4. CASE ~(Cardinality(s) <= n - 1)
        <5>1. s # {}
          BY <4>0, <4>1, <4>4, <3>0
        <5>2. h[s] = t[Pick(s)].credits + g[s \ {Pick(s)}]
          BY <4>4
        <5> HIDE DEF h
        <5> QED BY <5>1, <5>2, <4>2
      <4> QED BY <4>3, <4>4
    <3>4. Part(h, n)
      BY <3>3
    <3> QED BY <2>2, <3>4
  <2> QED BY <2>3, <2>4
<1>2. Cardinality(S) \in Nat
  BY Smaller
<1>3. PICK g : Part(g, Cardinality(S))
  BY <1>1, <1>2
<1>4. ASSUME NEW s \in SUBSET S
      PROVE  g[s] = IF s = {} THEN 0 ELSE t[Pick(s)].credits + g[s \ {Pick(s)}]
  <2>1. Cardinality(s) <= Cardinality(S)
    BY FS_Subset
  <2> QED BY <1>3, <2>1
<1> HIDE DEF Part
<1> DEFINE f == [s \in SUBSET S |-> g[s]]
<1>5. ASSUME NEW s \in SUBSET S
      PROVE  f[s] = IF s = {} THEN 0 ELSE t[Pick(s)].credits + f[s \ {Pick(s)}]
  <2>1. s \ {Pick(s)} \in SUBSET S
    OBVIOUS
  <2> QED BY <1>4, <2>1
<1>6. f = [s \in SUBSET S |-> f[s]]
  OBVIOUS
<1> HIDE DEF f
<1>7. f = [s \in SUBSET S |->
             IF s = {} THEN 0 ELSE t[Pick(s)].credits + f[s \ {Pick(s)}]]
  BY <1>5, <1>6
<1> QED BY <1>7 DEF IsSums

LEMMA GrantedIsSum ==
  ASSUME NEW t, NEW S, IsFiniteSet(S)
  PROVE  \E f : Sums(f, t, S) /\ Granted(t, S) = f[S]
<1> DEFINE g == CHOOSE f : IsSums(f, t, S)
<1>1. Granted(t, S) = g[S]
  BY DEF Granted, MapThenSumSet, MapThenFoldSet, Pick, IsSums
<1>2. \E f : IsSums(f, t, S)
  BY SumsExist
<1>3. IsSums(g, t, S)
  BY <1>2, Zenon
<1> HIDE DEF g
<1>4. Sums(g, t, S)
  BY <1>3 DEF Sums, IsSums
<1> QED BY <1>1, <1>4

(* The sum of a set is any of its elements and the sum of the others.      *)
LEMMA AnyFirst ==
  ASSUME NEW t, NEW S, IsFiniteSet(S), NEW f, Sums(f, t, S),
         \A x \in S : t[x].credits \in Int
  PROVE  \A s \in SUBSET S : /\ f[s] \in Int
                             /\ \A x \in s : f[s] = t[x].credits + f[s \ {x}]
<1> DEFINE Good(s) == /\ f[s] \in Int
                      /\ \A x \in s : f[s] = t[x].credits + f[s \ {x}]
           Bad == {n \in Nat : \E s \in SUBSET S : Cardinality(s) = n /\ ~Good(s)}
<1>1. Bad = {}
  <2> SUFFICES ASSUME Bad # {} PROVE FALSE
    OBVIOUS
  <2>1. PICK n \in Bad : \A m \in Bad : n <= m
    <3>1. Bad \in SUBSET Nat
      OBVIOUS
    <3> HIDE DEF Bad
    <3> QED BY <3>1, LeastOf
  <2>2. PICK s \in SUBSET S : Cardinality(s) = n /\ ~Good(s)
    OBVIOUS
  <2>3. \A r \in SUBSET S : Cardinality(r) = n - 1 => Good(r)
    <3> SUFFICES ASSUME NEW r \in SUBSET S, Cardinality(r) = n - 1, ~Good(r) PROVE FALSE
      OBVIOUS
    <3>1. Cardinality(r) \in Nat
      BY Smaller
    <3>2. n - 1 \in Bad
      BY <3>1
    <3>3. n \in Nat
      OBVIOUS
    <3> QED BY <2>1, <3>2, <3>3
  <2>4. s # {}
    BY <2>2 DEF Sums
  <2> DEFINE p == Pick(s)
  <2>5. p \in s /\ f[s] = t[p].credits + f[s \ {p}]
    BY <2>4, Smaller, SMTT(30) DEF Sums
  <2>6. t[p].credits \in Int
    BY <2>5
  <2> HIDE DEF p
  <2>7. \A x \in s : s \ {x} \in SUBSET S /\ Good(s \ {x})
    <3> SUFFICES ASSUME NEW x \in s PROVE s \ {x} \in SUBSET S /\ Good(s \ {x})
      OBVIOUS
    <3>1. s \ {x} \in SUBSET S /\ Cardinality(s \ {x}) = n - 1
      BY <2>2, Smaller
    <3> HIDE DEF Good
    <3> QED BY <2>3, <3>1
  <2> HIDE DEF Bad
  <2>8. f[s] \in Int
    <3>1. f[s \ {p}] \in Int
      BY <2>5, <2>7
    <3> QED BY <2>5, <2>6, <3>1
  <2>9. ASSUME NEW x \in s, x # p
        PROVE  f[s] = t[x].credits + f[s \ {x}]
    <3>1. f[s \ {p}] = t[x].credits + f[(s \ {p}) \ {x}]
      BY <2>5, <2>7, <2>9
    <3>2. f[s \ {x}] = t[p].credits + f[(s \ {x}) \ {p}]
      BY <2>5, <2>7, <2>9
    <3>3. (s \ {p}) \ {x} = (s \ {x}) \ {p}
      OBVIOUS
    <3>4. t[x].credits \in Int
      OBVIOUS
    <3>5. f[(s \ {p}) \ {x}] \in Int
      <4>1. Cardinality(s \ {p}) = n - 1 /\ s \ {p} \in SUBSET S
        BY <2>2, <2>5, Smaller
      <4>2. f[s \ {p}] \in Int
        BY <2>5, <2>7
      <4>3. Cardinality((s \ {p}) \ {x}) = (n - 1) - 1 /\ (s \ {p}) \ {x} \in SUBSET S
        BY <4>1, <2>9, Smaller
      <4>4. (s \ {p}) \ {x} \in SUBSET S /\ Cardinality((s \ {p}) \ {x}) \in Nat
        BY <4>3, Smaller
      <4>5. Cardinality((s \ {p}) \ {x}) \notin Bad
        BY <2>1, <4>3, <4>4, <2>2 DEF Bad
      <4>6. Good((s \ {p}) \ {x})
        BY <4>4, <4>5 DEF Bad
      <4> QED BY <4>6
    <3>6. PICK a, b, y, z, e : /\ a = t[x].credits /\ b = t[p].credits
                               /\ y = f[s \ {p}] /\ z = f[s \ {x}] /\ e = f[(s \ {p}) \ {x}]
      OBVIOUS
    <3>7. y = a + e
      BY <3>1, <3>6, Zenon
    <3>8. z = b + e
      BY <3>2, <3>3, <3>6, Zenon
    <3>9. f[s] = b + y
      BY <2>5, <3>6, Zenon
    <3>10. a \in Int /\ b \in Int /\ e \in Int
      BY <2>6, <3>4, <3>5, <3>6, Zenon
    <3>11. b + (a + e) = a + (b + e)
      BY <3>10
    <3>12. f[s] = a + z
      BY <3>7, <3>8, <3>9, <3>11, Zenon
    <3> QED BY <3>6, <3>12, Zenon
  <2>10. Good(s)
    BY <2>5, <2>8, <2>9
  <2> QED BY <2>2, <2>10
<1> SUFFICES ASSUME NEW s \in SUBSET S PROVE Good(s)
  OBVIOUS
<1>2. Cardinality(s) \in Nat
  BY Smaller
<1> QED BY <1>1, <1>2

(* Two sums of a set agree when its elements count the same.               *)
LEMMA SumsAgree ==
  ASSUME NEW t, NEW u, NEW S, NEW T, NEW R, IsFiniteSet(R), R \subseteq S, R \subseteq T,
         NEW f, NEW g, Sums(f, t, S), Sums(g, u, T),
         \A x \in R : t[x].credits = u[x].credits
  PROVE  f[R] = g[R]
<1> DEFINE Bad == {n \in Nat : \E s \in SUBSET R : Cardinality(s) = n /\ f[s] # g[s]}
<1>1. Bad = {}
  <2> SUFFICES ASSUME Bad # {} PROVE FALSE
    OBVIOUS
  <2>1. PICK n \in Bad : \A m \in Bad : n <= m
    <3>1. Bad \in SUBSET Nat
      OBVIOUS
    <3> HIDE DEF Bad
    <3> QED BY <3>1, LeastOf
  <2>2. PICK s \in SUBSET R : Cardinality(s) = n /\ f[s] # g[s]
    OBVIOUS
  <2>3. s \in SUBSET S /\ s \in SUBSET T
    OBVIOUS
  <2>4. s # {}
    BY <2>2, <2>3 DEF Sums
  <2> DEFINE p == Pick(s)
             r == s \ {p}
  <2>5. p \in s /\ f[s] = t[p].credits + f[r] /\ g[s] = u[p].credits + g[r]
    BY <2>3, <2>4, Smaller DEF Sums
  <2> HIDE DEF p
  <2>6. r \in SUBSET R /\ Cardinality(r) = n - 1 /\ Cardinality(r) \in Nat
    BY <2>2, <2>5, Smaller
  <2>7. n - 1 \notin Bad
    BY <2>1, <2>6
  <2>8. f[r] = g[r]
    BY <2>6, <2>7
  <2>9. t[p].credits = u[p].credits
    BY <2>5
  <2> QED BY <2>2, <2>5, <2>8, <2>9
<1>2. Cardinality(R) \in Nat
  BY Smaller
<1> QED BY <1>1, <1>2

LEMMA GrantedNone ==
  ASSUME NEW t
  PROVE  Granted(t, {}) = 0
<1>1. PICK f : Sums(f, t, {}) /\ Granted(t, {}) = f[{}]
  BY GrantedIsSum, FS_EmptySet
<1> QED BY <1>1 DEF Sums

LEMMA GrantedSame ==
  ASSUME NEW t, NEW u, NEW S, IsFiniteSet(S), \A x \in S : t[x].credits = u[x].credits
  PROVE  Granted(t, S) = Granted(u, S)
<1>1. PICK f : Sums(f, t, S) /\ Granted(t, S) = f[S]
  BY GrantedIsSum
<1>2. PICK g : Sums(g, u, S) /\ Granted(u, S) = g[S]
  BY GrantedIsSum
<1>3. f[S] = g[S]
  BY <1>1, <1>2, SumsAgree
<1> QED BY <1>1, <1>2, <1>3

LEMMA GrantedMore ==
  ASSUME NEW t, NEW S, IsFiniteSet(S), NEW x, x \notin S,
         \A y \in S \cup {x} : t[y].credits \in Int
  PROVE  /\ Granted(t, S) \in Int
         /\ Granted(t, S \cup {x}) = t[x].credits + Granted(t, S)
<1> DEFINE T == S \cup {x}
<1>0. IsFiniteSet(T)
  BY FS_AddElement
<1>1. PICK f : Sums(f, t, T) /\ Granted(t, T) = f[T]
  BY <1>0, GrantedIsSum
<1>2. PICK g : Sums(g, t, S) /\ Granted(t, S) = g[S]
  BY GrantedIsSum
<1>3. f[S] = g[S]
  <2>1. S \subseteq T
    OBVIOUS
  <2> HIDE DEF T
  <2> QED BY <1>1, <1>2, <2>1, SumsAgree
<1>4. \A s \in SUBSET T : /\ f[s] \in Int
                          /\ \A y \in s : f[s] = t[y].credits + f[s \ {y}]
  <2>1. \A y \in T : t[y].credits \in Int
    OBVIOUS
  <2> HIDE DEF T
  <2>2. Sums(f, t, T)
    BY <1>1
  <2> QED BY <1>0, <2>1, <2>2, AnyFirst
<1>5. f[T] = t[x].credits + f[T \ {x}] /\ f[S] \in Int
  BY <1>4
<1>6. T \ {x} = S
  OBVIOUS
<1> HIDE DEF T
<1> QED BY <1>1, <1>2, <1>3, <1>5, <1>6 DEF T

(* Nothing is granted twice or lost: balance and consumption of a user add *)
(* up to what the completed orders granted, which are finitely many.       *)
Conserved ==
  \A u \in Users : /\ IsFiniteSet(Completed(u))
                   /\ balance[u] + spent[u] = Granted(orders, Completed(u))

LEMMA ConservedInit == Init => Conserved
<1> SUFFICES ASSUME Init, NEW u \in Users
             PROVE  /\ IsFiniteSet(Completed(u))
                    /\ balance[u] + spent[u] = Granted(orders, Completed(u))
  BY DEF Conserved
<1>1. Completed(u) = {} /\ balance[u] + spent[u] = 0
  BY DEF Init, Completed, NoRow
<1> QED
  BY <1>1, GrantedNone, FS_EmptySet

(* The completed orders of a user, and what they grant, did not change.    *)
LEMMA CompletedStay ==
  ASSUME NEW u \in Users, IsFiniteSet(Completed(u)),
         \A o \in Orders : /\ o \in Completed(u)' <=> o \in Completed(u)
                           /\ o \in Completed(u) => orders'[o].credits = orders[o].credits
  PROVE  IsFiniteSet(Completed(u)') /\ Granted(orders', Completed(u)') = Granted(orders, Completed(u))
<1>1. Completed(u)' = Completed(u)
  BY DEF Completed
<1>2. \A o \in Completed(u) : orders'[o].credits = orders[o].credits
  BY DEF Completed
<1>3. Granted(orders', Completed(u)) = Granted(orders, Completed(u))
  BY <1>2, GrantedSame
<1> QED
  BY <1>1, <1>3

LEMMA ConservedStep == IInv /\ Conserved /\ [Next]_vars => Conserved'
<1> SUFFICES ASSUME IInv, Conserved, [Next]_vars, NEW u \in Users
             PROVE  /\ IsFiniteSet(Completed(u)')
                    /\ balance'[u] + spent'[u] = Granted(orders', Completed(u)')
  BY DEF Conserved
<1>1. /\ orders \in [Orders -> OrderRow] /\ balance \in [Users -> Nat]
      /\ spent \in [Users -> Nat] /\ RowsOK
  BY DEF IInv, TypeOK
<1>2. IsFiniteSet(Completed(u)) /\ balance[u] + spent[u] = Granted(orders, Completed(u))
  BY DEF Conserved
<1>3. CASE Spends
  <2>1. balance'[u] + spent'[u] = balance[u] + spent[u]
    BY <1>1, <1>3 DEF Spends
  <2>2. orders' = orders
    BY <1>3 DEF Spends
  <2>3. Completed(u)' = Completed(u)
    BY <2>2 DEF Completed
  <2> QED
    BY <1>2, <2>1, <2>2, <2>3
<1>4. ASSUME spent' = spent, balance' = balance,
             \A o \in Orders :
               /\ o \in Completed(u)' <=> o \in Completed(u)
               /\ o \in Completed(u) => orders'[o].credits = orders[o].credits
      PROVE  /\ IsFiniteSet(Completed(u)')
             /\ balance'[u] + spent'[u] = Granted(orders', Completed(u)')
  BY <1>2, <1>4, CompletedStay
<1>5. CASE spent' = spent /\ Opens
  <2>1. PICK o \in Orders, v \in Users, p \in Packages : OpensFor(o, v, p)
    BY <1>5 DEF Opens
  <2>2. orders'[o].status = "pending" /\ orders[o].status = "absent"
    BY <2>1 DEF OpensFor, NoRow
  <2>3. \A x \in Orders \ {o} : SameTerms(x)
    BY <2>1 DEF OpensFor
  <2> QED
    BY <1>4, <1>5, <2>1, <2>2, <2>3 DEF OpensFor, SameTerms, Completed
<1>6. CASE spent' = spent /\ Expires
  <2>1. \A x \in Orders :
          /\ orders'[x].status = "completed" <=> orders[x].status = "completed"
          /\ orders'[x].user = orders[x].user /\ orders'[x].credits = orders[x].credits
    BY <1>1, <1>6 DEF Expires, ExpirePendingOrders, Overdue, OrderRow
  <2> QED
    BY <1>4, <1>6, <2>1 DEF Expires, Completed
<1>7. CASE spent' = spent /\ Idles
  BY <1>4, <1>7 DEF Idles, SameTerms, Completed
<1>8. CASE spent' = spent /\ Credits
  <2>1. PICK o \in Orders, t \in Txs : CreditOrder(o, t)
    BY <1>8 DEF Credits
  <2>2. /\ orders'[o] = [orders[o] EXCEPT !.status = "completed", !.txSignature = t]
        /\ \A x \in Orders \ {o} : orders'[x] = orders[x]
        /\ orders[o].user \in Users /\ orders[o].credits \in Nat
        /\ balance'[orders[o].user] = balance[orders[o].user] + orders[o].credits
        /\ \A v \in Users \ {orders[o].user} : balance'[v] = balance[v]
        /\ orders' \in [Orders -> OrderRow]
    BY <1>1, <2>1, CreditEffect
  <2>3. /\ orders[o].status = "pending" /\ orders'[o].status = "completed"
        /\ orders'[o].user = orders[o].user /\ orders'[o].credits = orders[o].credits
    BY <1>1, <2>1, <2>2 DEF CreditOrder, OrderRow
  <2>4. CASE u # orders[o].user
    <3>1. \A x \in Orders : /\ x \in Completed(u)' <=> x \in Completed(u)
                            /\ x \in Completed(u) => orders'[x].credits = orders[x].credits
      BY <2>2, <2>3, <2>4 DEF Completed
    <3>2. IsFiniteSet(Completed(u)')
          /\ Granted(orders', Completed(u)') = Granted(orders, Completed(u))
      BY <1>2, <3>1, CompletedStay
    <3> QED
      BY <1>2, <1>8, <2>2, <2>4, <3>2
  <2>5. CASE u = orders[o].user
    <3>1. \A x \in Orders \ {o} : x \in Completed(u)' <=> x \in Completed(u)
      BY <2>2 DEF Completed
    <3>2. o \in Completed(u)' /\ o \notin Completed(u)
      BY <2>3, <2>5 DEF Completed
    <3>3. Completed(u) \subseteq Orders /\ Completed(u)' \subseteq Orders
      BY DEF Completed
    <3> DEFINE C == Completed(u)
    <3>4. Completed(u)' = C \cup {o} /\ o \notin C
      BY <3>1, <3>2, <3>3
    <3>5. \A x \in C : orders'[x].credits = orders[x].credits
      BY <2>2, <2>3 DEF Completed
    <3>6. \A x \in C \cup {o} : orders'[x].credits \in Int
      <4>1. ASSUME NEW x \in Orders PROVE orders'[x].credits \in Int
        BY <2>2, BillingAssumption DEF OrderRow
      <4>2. C \cup {o} \subseteq Orders
        BY DEF Completed
      <4> QED
        BY <4>1, <4>2
    <3>7. IsFiniteSet(C)
      BY <1>2
    <3> HIDE DEF C
    <3>8. Granted(orders', C) \in Int
          /\ Granted(orders', C \cup {o}) = orders'[o].credits + Granted(orders', C)
      BY <3>4, <3>6, <3>7, GrantedMore
    <3>9. Granted(orders', C) = Granted(orders, C)
      BY <3>5, <3>7, GrantedSame
    <3>10. IsFiniteSet(C \cup {o})
      BY <3>7, FS_AddElement
    <3>11. balance[u] + spent[u] = Granted(orders, C)
      BY <1>2 DEF C
    <3>12. balance'[u] = balance[u] + orders[o].credits /\ spent'[u] = spent[u]
      BY <1>8, <2>2, <2>5
    <3>13. balance'[u] + spent'[u] = Granted(orders', C \cup {o})
      BY <1>1, <2>2, <2>3, <3>8, <3>9, <3>11, <3>12
    <3> QED
      BY <3>4, <3>10, <3>13
  <2> QED
    BY <2>4, <2>5
<1> QED
  BY <1>3, <1>5, <1>6, <1>7, <1>8, MoneySteps

(* What a user holds plus what the user has consumed is what the completed *)
(* orders granted, for any number of users, orders and racing calls.       *)
THEOREM CreditsAlwaysConserved == Spec => []CreditsConserved
<1>1. Conserved => CreditsConserved
  BY DEF Conserved, CreditsConserved, Granted
<1>2. Spec => []Conserved
  BY ConservedInit, ConservedStep, Inductive, PTL DEF Spec
<1> QED
  BY <1>1, <1>2, PTL

-----------------------------------------------------------------------------
(***************************************************************************)
(* Refinement: the payment paths implement the ledger.                     *)
(***************************************************************************)
Entry(o) ==
  [state |-> CASE orders[o].status = "absent"    -> "none"
               [] orders[o].status = "pending"   -> "open"
               [] orders[o].status = "completed" -> "credited"
               [] orders[o].status = "expired"   -> "void",
   user |-> orders[o].user, credits |-> orders[o].credits,
   tx |-> orders[o].txSignature]

LEMMA LedgerInit == Init => Ledger!Init
BY DEF Init, Ledger!Init, Ledger!NoEntry, NoRow

LEMMA SameEntry ==
  ASSUME NEW o \in Orders, SameTerms(o)
  PROVE  Entry(o)' = Entry(o)
BY DEF SameTerms, Entry

LEMMA LedgerStep == IInv /\ [Next]_vars => [Ledger!Next]_(Ledger!vars)
<1> SUFFICES ASSUME IInv, [Next]_vars
             PROVE  [Ledger!Next]_(Ledger!vars)
  OBVIOUS
<1> DEFINE E == [o \in Orders |-> Entry(o)]
<1>1. /\ orders \in [Orders -> OrderRow] /\ balance \in [Users -> Nat] /\ RowsOK
  BY DEF IInv, TypeOK
<1>2. CASE Idles
  <2>1. E' = E
    BY <1>2, SameEntry DEF Idles
  <2>2. balance' = balance
    BY <1>2 DEF Idles
  <2> QED
    BY <2>1, <2>2 DEF Ledger!vars, Entry
<1>3. CASE Spends
  <2>1. PICK u \in Users : balance[u] >= 1 /\ balance' = [balance EXCEPT ![u] = @ - 1]
    BY <1>3 DEF Spends
  <2>2. E' = E
    BY <1>3 DEF Spends, Entry
  <2>3. Ledger!Spend(u)
    BY <2>1, <2>2 DEF Ledger!Spend, Entry
  <2> QED
    BY <2>3 DEF Ledger!Next
<1>4. CASE Opens
  <2>1. PICK o \in Orders, u \in Users, p \in Packages : OpensFor(o, u, p)
    BY <1>4 DEF Opens
  <2> USE <2>1 DEF OpensFor
  <2>2. Entry(o).state = "none"
    BY DEF Entry
  <2>3. Entry(o)' = [state |-> "open", user |-> u, credits |-> p, tx |-> NoTx]
    BY DEF Entry, NoRow
  <2>4. E' = [E EXCEPT ![o] = [state |-> "open", user |-> u, credits |-> p, tx |-> NoTx]]
    BY <2>1, <2>3, SameEntry
  <2>5. Ledger!Open(o, u, p)
    BY <2>1, <2>2, <2>4 DEF Ledger!Open, Entry
  <2> QED
    BY <2>5 DEF Ledger!Next
<1>5. CASE Credits
  <2>1. PICK o \in Orders, t \in Txs : CreditOrder(o, t) /\ \A x \in Orders \ {o} : SameTerms(x)
    BY <1>5 DEF Credits
  <2>2. orders'[o] = [orders[o] EXCEPT !.status = "completed", !.txSignature = t]
    BY <1>1, <2>1, CreditEffect
  <2>3. /\ orders'[o].status = "completed" /\ orders'[o].txSignature = t
        /\ orders'[o].user = orders[o].user /\ orders'[o].credits = orders[o].credits
    BY <1>1, <2>2 DEF OrderRow
  <2>4. Entry(o).state = "open" /\ \A x \in Orders : Entry(x).tx # t
    BY <2>1 DEF CreditOrder, SignatureFree, Entry
  <2>5. Entry(o)' = [Entry(o) EXCEPT !.state = "credited", !.tx = t]
    <3>1. Entry(o)' = [state |-> "credited", user |-> orders[o].user,
                       credits |-> orders[o].credits, tx |-> t]
      BY <2>3 DEF Entry
    <3>2. Entry(o) = [state |-> "open", user |-> orders[o].user,
                      credits |-> orders[o].credits, tx |-> orders[o].txSignature]
      BY <2>1 DEF CreditOrder, Entry
    <3>3. PICK r, u, c, s : /\ r = Entry(o) /\ u = orders[o].user
                            /\ c = orders[o].credits /\ s = orders[o].txSignature
      OBVIOUS
    <3>4. r = [state |-> "open", user |-> u, credits |-> c, tx |-> s]
      BY <3>2, <3>3
    <3>5. [r EXCEPT !.state = "credited"]
          = [state |-> "credited", user |-> u, credits |-> c, tx |-> s]
      BY <3>4
    <3>6. [[state |-> "credited", user |-> u, credits |-> c, tx |-> s] EXCEPT !.tx = t]
          = [state |-> "credited", user |-> u, credits |-> c, tx |-> t]
      OBVIOUS
    <3>7. [[r EXCEPT !.state = "credited"] EXCEPT !.tx = t]
          = [state |-> "credited", user |-> u, credits |-> c, tx |-> t]
      BY <3>5, <3>6, Zenon
    <3>8. [r EXCEPT !.state = "credited", !.tx = t]
          = [[r EXCEPT !.state = "credited"] EXCEPT !.tx = t]
      OBVIOUS
    <3> QED
      BY <3>1, <3>3, <3>7, <3>8
  <2>6. E' = [E EXCEPT ![o].state = "credited", ![o].tx = t]
    BY <2>1, <2>5, SameEntry
  <2>7. balance' = [balance EXCEPT ![Entry(o).user] = @ + Entry(o).credits]
    BY <2>1 DEF CreditOrder, Entry
  <2>8. Ledger!Credit(o, t)
    BY <2>4, <2>6, <2>7 DEF Ledger!Credit, Entry
  <2> QED
    BY <2>8 DEF Ledger!Next
<1>6. CASE Expires
  <2>0. PICK S \in SUBSET Orders : S = {o \in Orders : Overdue(o)}
    OBVIOUS
  <2>1. \A o \in Orders :
          orders'[o] = IF o \in S THEN [orders[o] EXCEPT !.status = "expired"] ELSE orders[o]
    BY <1>6, <2>0 DEF Expires, ExpirePendingOrders
  <2>2. \A o \in S : Entry(o).state = "open"
    BY <2>0 DEF Overdue, Entry
  <2>3. ASSUME NEW o \in Orders
        PROVE  Entry(o)' = IF o \in S THEN [Entry(o) EXCEPT !.state = "void"] ELSE Entry(o)
    <3>1. CASE o \in S
      <4>1. /\ orders'[o].status = "expired" /\ orders'[o].txSignature = orders[o].txSignature
            /\ orders'[o].user = orders[o].user /\ orders'[o].credits = orders[o].credits
        BY <1>1, <2>1, <3>1 DEF OrderRow
      <4> QED
        BY <3>1, <4>1 DEF Entry
    <3>2. CASE o \notin S
      BY <2>1, <3>2 DEF Entry
    <3> QED
      BY <3>1, <3>2
  <2>4. E' = [o \in Orders |-> IF o \in S THEN [E[o] EXCEPT !.state = "void"] ELSE E[o]]
    BY <2>3
  <2>5. balance' = balance
    BY <1>6 DEF Expires
  <2>6. Ledger!Void(S)
    BY <2>2, <2>4, <2>5 DEF Ledger!Void, Entry
  <2> QED
    BY <2>6 DEF Ledger!Next
<1> QED
  BY <1>2, <1>3, <1>4, <1>5, <1>6, MoneySteps

(* Every behaviour of the two payment paths, the cron and the chain is a   *)
(* behaviour of the ledger.                                                *)
THEOREM Refinement == Spec => ImplementsLedger
BY LedgerInit, LedgerStep, Inductive, PTL DEF Spec, ImplementsLedger, Ledger!Spec
=============================================================================
