--------------------------- MODULE Portfolio_proofs ---------------------------
(***************************************************************************)
(* Proofs about a wallet: its swaps, its staking history, its stakes, its  *)
(* trade history, its profit and its activities; and, by the sums of the   *)
(* latter, about the statistics of a mint.                                 *)
(***************************************************************************)
EXTENDS MCServices, Accounts_proofs, Wallets_proofs, Sums_proofs, FiniteSetTheorems, TLAPS

(***************************************************************************)
(* SwapFlow.  What executeSwap answers is true, for any number of          *)
(* transactions, requests, polls and fee tokens.                           *)
(***************************************************************************)
SwapSpec == SwapInit /\ [][SwapStep]_swapVars

Statuses == {"unknown", "sent", "bundled", "landed", "failed", "expired"}
Ways     == {"none", "kora", "jito", "rpc"}
SwapStages   == {"idle", "send", "poll", "confirm", "answered"}
Reply    == {"none", "signature", "refused", "notLanded", "error"}

(* The fields of a request that a step may rely on; polls only count.      *)
Fields == {"stage", "tx", "way", "sent", "polls", "answer"}

SwapRequestOK(r) ==
  LET q == requests[r] IN
  /\ DOMAIN q = Fields
  /\ q.stage # "idle" => q.tx \in SwapTxs
  /\ q.stage \in {"idle", "send"} => q.sent = FALSE /\ q.answer = "none"
  /\ q.stage \in {"poll", "confirm"} => q.answer = "none"
  /\ q.stage = "poll" => q.way = "jito"
  /\ q.stage = "confirm" => q.way \in {"kora", "rpc"}
  /\ q.answer = "refused" => q.sent = FALSE
  /\ q.answer = "signature" =>
       /\ q.stage = "answered"
       /\ chain[q.tx] \in {"landed", "failed"}
       /\ q.way = "jito" => chain[q.tx] = "landed"

TablesOK ==
  /\ DOMAIN swapsBuilt \subseteq SwapTxs
  /\ chain \in [SwapTxs -> Statuses]
  /\ DOMAIN requests = SwapRequests

SwapInv == TablesOK /\ \A r \in SwapRequests : SwapRequestOK(r)

(* What has landed or failed on the chain stays so.                        *)
StaysSettled(t) == chain[t] \in {"landed", "failed"} => chain'[t] = chain[t]

LEMMA SwapInvInit == SwapInit => SwapInv
  BY DEF SwapInit, SwapInv, TablesOK, SwapRequestOK, Fields, Statuses, Unasked, NoFee

(* A request that does not move keeps what it has, as the chain settles.   *)
LEMMA OthersKeep ==
  ASSUME SwapInv, NEW r \in SwapRequests, requests'[r] = requests[r],
         \A t \in SwapTxs : StaysSettled(t)
  PROVE  SwapRequestOK(r)'
BY DEF SwapInv, SwapRequestOK, StaysSettled

(* A step that only moves request r and the chain, if it moves the chain.  *)
LEMMA OneMoves ==
  ASSUME SwapInv, NEW r \in SwapRequests, NEW q, requests' = [requests EXCEPT ![r] = q],
         SwapRequestOK(r)', TablesOK', \A t \in SwapTxs : StaysSettled(t)
  PROVE  SwapInv'
<1>1. ASSUME NEW s \in SwapRequests, s # r PROVE SwapRequestOK(s)'
  <2>1. requests'[s] = requests[s]
    BY <1>1 DEF SwapInv, TablesOK
  <2> QED
    BY <2>1, OthersKeep
<1> QED
  BY <1>1 DEF SwapInv

LEMMA ChainStays == ASSUME UNCHANGED chain PROVE \A t \in SwapTxs : StaysSettled(t)
  BY DEF StaysSettled

(* An answer of a request that has sent something, or nothing, and whose   *)
(* signature, if it gets one, is on the chain.                             *)
LEMMA AnswersKeep ==
  ASSUME SwapInv, NEW r \in SwapRequests, NEW answer \in Reply \ {"none", "refused"},
         Answers(r, answer), requests[r].stage \in {"send", "poll", "confirm"},
         answer = "signature" =>
           /\ chain[requests[r].tx] \in {"landed", "failed"}
           /\ requests[r].way = "jito" => chain[requests[r].tx] = "landed",
         UNCHANGED <<chain, swapsBuilt>>
  PROVE  SwapInv'
<1> DEFINE q == [requests[r] EXCEPT !.stage = "answered", !.answer = answer]
<1>1. requests' = [requests EXCEPT ![r] = q]
  BY DEF Answers
<1>2. SwapRequestOK(r)
  BY DEF SwapInv
<1>3. /\ requests'[r] = q /\ DOMAIN q = Fields
      /\ q.stage = "answered" /\ q.answer = answer
      /\ q.tx = requests[r].tx /\ q.way = requests[r].way /\ q.sent = requests[r].sent
  BY <1>1, <1>2 DEF SwapInv, TablesOK, SwapRequestOK, Fields
<1>4. SwapRequestOK(r)'
  BY <1>2, <1>3 DEF SwapRequestOK, Reply
<1>5. TablesOK'
  BY <1>1 DEF SwapInv, TablesOK
<1> QED
  BY <1>1, <1>4, <1>5, OneMoves, ChainStays

(* A request sends what it has, by a way that leads to the wait it enters. *)
LEMMA RpcKeeps ==
  ASSUME SwapInv, NEW r \in SwapRequests, NEW status \in Statuses, NEW next \in {"poll", "confirm"},
         Rpc(r, status, next), requests[r].stage = "send",
         next = "poll" => requests[r].way = "jito",
         next = "confirm" => requests[r].way \in {"kora", "rpc"},
         UNCHANGED swapsBuilt
  PROVE  SwapInv'
<1>1. CASE chain' = chain /\ Answers(r, "error")
  BY <1>1, AnswersKeep DEF Reply
<1>2. CASE /\ Takes(r)
           /\ chain' = [chain EXCEPT ![TxOf(r)] = status]
           /\ \/ requests' = [requests EXCEPT ![r].stage = "answered", ![r].answer = "error", ![r].sent = TRUE]
              \/ requests' = [requests EXCEPT ![r].stage = next, ![r].sent = TRUE]
  <2>1. SwapRequestOK(r) /\ requests[r].tx \in SwapTxs
    BY DEF SwapInv, SwapRequestOK
  <2>2. \A t \in SwapTxs : StaysSettled(t)
    BY <1>2, <2>1 DEF SwapInv, TablesOK, Takes, TxOf, StaysSettled
  <2>3. TablesOK'
    BY <1>2, <2>1 DEF SwapInv, TablesOK, TxOf
  <2>4. ASSUME NEW q, requests' = [requests EXCEPT ![r] = q],
               DOMAIN q = Fields, q.tx = requests[r].tx, q.way = requests[r].way,
               \/ q.stage = "answered" /\ q.answer = "error"
               \/ q.stage = next /\ q.answer = "none"
        PROVE  SwapInv'
    <3>1. requests'[r] = q
      BY <2>4 DEF SwapInv, TablesOK
    <3>2. SwapRequestOK(r)'
      BY <2>1, <2>4, <3>1 DEF SwapRequestOK
    <3> QED
      BY <2>2, <2>3, <2>4, <3>2, OneMoves
  <2>5. CASE requests' = [requests EXCEPT ![r].stage = "answered", ![r].answer = "error", ![r].sent = TRUE]
    <3> DEFINE q == [requests[r] EXCEPT !.stage = "answered", !.answer = "error", !.sent = TRUE]
    <3>1. /\ DOMAIN q = Fields /\ q.tx = requests[r].tx /\ q.way = requests[r].way
          /\ q.stage = "answered" /\ q.answer = "error"
      BY <2>1 DEF SwapRequestOK, Fields
    <3>2. requests' = [requests EXCEPT ![r] = q]
      BY <2>5
    <3> QED
      BY <2>4, <3>1, <3>2
  <2>6. CASE requests' = [requests EXCEPT ![r].stage = next, ![r].sent = TRUE]
    <3> DEFINE q == [requests[r] EXCEPT !.stage = next, !.sent = TRUE]
    <3>1. /\ DOMAIN q = Fields /\ q.tx = requests[r].tx /\ q.way = requests[r].way
          /\ q.stage = next /\ q.answer = "none"
      BY <2>1 DEF SwapRequestOK, Fields
    <3>2. requests' = [requests EXCEPT ![r] = q]
      BY <2>6
    <3> QED
      BY <2>4, <3>1, <3>2
  <2> QED
    BY <1>2, <2>5, <2>6
<1> QED
  BY <1>1, <1>2 DEF Rpc

(* The flags choose the way; a refusal is answered before anything is sent.*)
LEMMA AskExecutionKeeps == ASSUME SwapInv, NEW r \in SwapRequests, AskExecution(r) PROVE SwapInv'
<1>1. PICK t \in DOMAIN swapsBuilt, way \in {"kora", "jito", "rpc"} :
        \/ requests' = [requests EXCEPT ![r].stage = "answered", ![r].answer = "refused", ![r].tx = t, ![r].way = way]
        \/ requests' = [requests EXCEPT ![r].stage = "send", ![r].tx = t, ![r].way = way]
  BY DEF AskExecution
<1>2. /\ requests[r].stage = "idle"
      /\ UNCHANGED <<swapsBuilt, chain>>
  BY DEF AskExecution
<1>3. /\ DOMAIN requests[r] = Fields /\ requests[r].sent = FALSE /\ requests[r].answer = "none"
      /\ t \in SwapTxs
  BY <1>2 DEF SwapInv, TablesOK, SwapRequestOK
<1>4. ASSUME NEW q, requests' = [requests EXCEPT ![r] = q],
             DOMAIN q = Fields, q.tx = t, q.sent = FALSE,
             \/ q.stage = "answered" /\ q.answer = "refused"
             \/ q.stage = "send" /\ q.answer = "none"
      PROVE  SwapInv'
  <2>1. requests'[r] = q
    BY <1>4 DEF SwapInv, TablesOK
  <2>2. SwapRequestOK(r)'
    BY <1>3, <1>4, <2>1 DEF SwapRequestOK
  <2>3. TablesOK'
    BY <1>2, <1>4 DEF SwapInv, TablesOK
  <2> QED
    BY <1>2, <1>4, <2>2, <2>3, OneMoves, ChainStays
<1>5. CASE requests' = [requests EXCEPT ![r].stage = "answered", ![r].answer = "refused", ![r].tx = t, ![r].way = way]
  <2> DEFINE q == [requests[r] EXCEPT !.stage = "answered", !.answer = "refused", !.tx = t, !.way = way]
  <2>1. DOMAIN q = Fields /\ q.tx = t /\ q.sent = FALSE /\ q.stage = "answered" /\ q.answer = "refused"
    BY <1>3 DEF Fields
  <2>2. requests' = [requests EXCEPT ![r] = q]
    BY <1>5
  <2> QED
    BY <1>4, <2>1, <2>2
<1>6. CASE requests' = [requests EXCEPT ![r].stage = "send", ![r].tx = t, ![r].way = way]
  <2> DEFINE q == [requests[r] EXCEPT !.stage = "send", !.tx = t, !.way = way]
  <2>1. DOMAIN q = Fields /\ q.tx = t /\ q.sent = FALSE /\ q.stage = "send" /\ q.answer = "none"
    BY <1>3 DEF Fields
  <2>2. requests' = [requests EXCEPT ![r] = q]
    BY <1>6
  <2> QED
    BY <1>4, <2>1, <2>2
<1> QED
  BY <1>1, <1>5, <1>6

(* Landed is said of a bundle that has landed; every other end is no       *)
(* signature.                                                              *)
LEMMA PollStatusKeeps == ASSUME SwapInv, NEW r \in SwapRequests, PollStatus(r) PROVE SwapInv'
<1>1. requests[r].stage = "poll" /\ UNCHANGED <<swapsBuilt, chain>>
  BY DEF PollStatus
<1>2. ASSUME NEW status \in StatusOf(r) \ {"Pending"},
             Answers(r, IF status = "Landed" THEN "signature" ELSE "notLanded")
      PROVE  SwapInv'
  <2>1. status = "Landed" => chain[requests[r].tx] = "landed"
    BY DEF StatusOf, TxOf
  <2>2. CASE status = "Landed"
    BY <1>1, <1>2, <2>1, <2>2, AnswersKeep DEF Reply
  <2>3. CASE status # "Landed"
    BY <1>1, <1>2, <2>3, AnswersKeep DEF Reply
  <2> QED
    BY <2>2, <2>3
<1>3. CASE PollsAgain(r)
  <2> DEFINE q == [requests[r] EXCEPT !.polls = @ + 1]
  <2>1. requests' = [requests EXCEPT ![r] = q] /\ requests'[r] = q
    BY <1>3 DEF PollsAgain, SwapInv, TablesOK
  <2>2. /\ DOMAIN q = Fields /\ q.stage = requests[r].stage /\ q.tx = requests[r].tx
        /\ q.way = requests[r].way /\ q.sent = requests[r].sent /\ q.answer = requests[r].answer
    BY DEF SwapInv, SwapRequestOK, Fields
  <2>3. SwapRequestOK(r)'
    <3>1. SwapRequestOK(r)
      BY DEF SwapInv
    <3> QED
      BY <1>1, <2>1, <2>2, <3>1 DEF SwapRequestOK
  <2>4. TablesOK'
    BY <1>1, <2>1 DEF SwapInv, TablesOK
  <2> QED
    BY <1>1, <2>1, <2>3, <2>4, OneMoves, ChainStays
<1> QED
  BY <1>2, <1>3 DEF PollStatus

LEMMA AskAgainKeeps == ASSUME SwapInv, NEW r \in SwapRequests, AskAgain(r) PROVE SwapInv'
<1>1. requests' = [requests EXCEPT ![r] = Unasked] /\ UNCHANGED <<swapsBuilt, chain>>
  BY DEF AskAgain
<1>2. requests'[r] = Unasked /\ TablesOK'
  BY <1>1 DEF SwapInv, TablesOK
<1>3. SwapRequestOK(r)'
  BY <1>2 DEF SwapRequestOK, Unasked, Fields
<1> QED
  BY <1>1, <1>2, <1>3, OneMoves, ChainStays

(* The chain moves what is under way only.                                 *)
LEMMA ChainMovesKeeps == ASSUME SwapInv, NEW t \in SwapTxs, ChainMoves(t) PROVE SwapInv'
<1>1. /\ chain[t] \in {"sent", "bundled"}
      /\ \E s \in {"landed", "failed", "expired"} : chain' = [chain EXCEPT ![t] = s]
      /\ UNCHANGED <<swapsBuilt, requests>>
  BY DEF ChainMoves
<1>2. TablesOK' /\ \A x \in SwapTxs : StaysSettled(x)
  BY <1>1 DEF SwapInv, TablesOK, StaysSettled, Statuses
<1> QED
  BY <1>1, <1>2, OthersKeep DEF SwapInv

LEMMA SwapInvStep == SwapInv /\ [SwapStep]_swapVars => SwapInv'
<1> SUFFICES ASSUME SwapInv, [SwapStep]_swapVars PROVE SwapInv'
  OBVIOUS
<1>1. ASSUME NEW t \in SwapTxs, BuildSwap(t) \/ WalletBuilds(t) PROVE SwapInv'
  <2>1. /\ DOMAIN swapsBuilt' = DOMAIN swapsBuilt \cup {t}
        /\ UNCHANGED <<chain, requests>>
    BY <1>1 DEF BuildSwap, WalletBuilds
  <2>2. TablesOK' /\ \A x \in SwapTxs : StaysSettled(x)
    BY <2>1 DEF SwapInv, TablesOK, StaysSettled
  <2> QED
    BY <2>1, <2>2, OthersKeep DEF SwapInv
<1>2. ASSUME NEW t \in SwapTxs, ChainMoves(t) PROVE SwapInv'
  BY <1>2, ChainMovesKeeps
<1>3. ASSUME NEW r \in SwapRequests, AskExecution(r) PROVE SwapInv'
  BY <1>3, AskExecutionKeeps
<1>4. ASSUME NEW r \in SwapRequests, SignAndSend(r) PROVE SwapInv'
  BY <1>4, RpcKeeps DEF SignAndSend, Sending, Statuses
<1>5. ASSUME NEW r \in SwapRequests, SendBundle(r) PROVE SwapInv'
  <2>1. (IF chain[TxOf(r)] = "unknown" THEN "bundled" ELSE chain[TxOf(r)]) \in Statuses
    BY <1>5 DEF SwapInv, TablesOK, SwapRequestOK, SendBundle, Sending, TxOf, Statuses
  <2> QED
    BY <1>5, <2>1, RpcKeeps DEF SendBundle, Sending
<1>6. ASSUME NEW r \in SwapRequests, SubmitRaw(r) PROVE SwapInv'
  BY <1>6, RpcKeeps DEF SubmitRaw, Sending, Statuses
<1>7. ASSUME NEW r \in SwapRequests, Confirm(r) PROVE SwapInv'
  <2>1. requests[r].way # "jito"
    BY <1>7 DEF Confirm, SwapInv, SwapRequestOK
  <2> QED
    BY <1>7, <2>1, AnswersKeep DEF Confirm, TxOf, Reply
<1>8. ASSUME NEW r \in SwapRequests, PollStatus(r) PROVE SwapInv'
  BY <1>8, PollStatusKeeps
<1>9. ASSUME NEW r \in SwapRequests, WindowCloses(r) PROVE SwapInv'
  BY <1>9, AnswersKeep DEF WindowCloses, Reply
<1>10. ASSUME NEW r \in SwapRequests, AskAgain(r) PROVE SwapInv'
  BY <1>10, AskAgainKeeps
<1>11. ASSUME UNCHANGED <<swapsBuilt, chain, requests>> PROVE SwapInv'
  <2>1. TablesOK' /\ \A x \in SwapTxs : StaysSettled(x)
    BY <1>11 DEF SwapInv, TablesOK, StaysSettled
  <2> QED
    BY <1>11, <2>1, OthersKeep DEF SwapInv
<1>12. CASE GetSwapInfo
  BY <1>11, <1>12 DEF GetSwapInfo
<1>13. CASE FeesExpire
  BY <1>11, <1>13 DEF FeesExpire
<1>14. CASE UNCHANGED swapVars
  BY <1>11, <1>14 DEF swapVars
<1> QED
  BY <1>1, <1>2, <1>3, <1>4, <1>5, <1>6, <1>7, <1>8, <1>9, <1>10, <1>12, <1>13, <1>14 DEF SwapStep

LEMMA SwapInvAlways == SwapSpec => []SwapInv
  BY SwapInvInit, SwapInvStep, PTL DEF SwapSpec

(* A signature is answered only for a transaction that is on the chain,    *)
(* with success after a bundle, and a refusal has sent nothing, whatever   *)
(* the flags, the lost answers and the requests that send the same         *)
(* transaction by another way.                                             *)
THEOREM SwapAnswerIsAlwaysTrue == SwapSpec => []SwapAnswerIsTrue
<1>1. SwapInv => SwapAnswerIsTrue
  BY DEF SwapInv, SwapRequestOK, SwapAnswerIsTrue, TxOf
<1> QED
  BY <1>1, SwapInvAlways, PTL

SwapRequest == [stage : SwapStages, tx : SwapTxs \cup {NoFee}, way : Ways, sent : BOOLEAN,
                polls : 0..MaxPolls, answer : Reply]

FeesOK == feeCache = NoFees \/ feeCache.max = 3 * (feeCache.priority + feeCache.tip)

SwapTables ==
  /\ cluster \in {"mainnet", "devnet"}
  /\ \A t \in DOMAIN swapsBuilt : t \in SwapTxs /\ swapsBuilt[t].fee \in FeeTokens \cup {NoFee} /\ swapsBuilt[t].tip \in BOOLEAN
  /\ requests \in [SwapRequests -> SwapRequest]
  /\ FeesOK

LEMMA SwapRequestAnswered ==
  ASSUME NEW q \in SwapRequest, NEW answer \in Reply
  PROVE  /\ [q EXCEPT !.stage = "answered", !.answer = answer] \in SwapRequest
         /\ [q EXCEPT !.stage = "answered", !.answer = answer, !.sent = TRUE] \in SwapRequest
  BY DEF SwapRequest, SwapStages

LEMMA SwapRequestSent ==
  ASSUME NEW q \in SwapRequest, NEW stage \in SwapStages
  PROVE  [q EXCEPT !.stage = stage, !.sent = TRUE] \in SwapRequest
  BY DEF SwapRequest

LEMMA SwapRequestAsked ==
  ASSUME NEW q \in SwapRequest, NEW tx \in SwapTxs, NEW way \in Ways
  PROVE  /\ [q EXCEPT !.stage = "send", !.tx = tx, !.way = way] \in SwapRequest
         /\ [q EXCEPT !.stage = "answered", !.answer = "refused", !.tx = tx, !.way = way] \in SwapRequest
  BY DEF SwapRequest, SwapStages, Reply

LEMMA SwapTablesStep == SwapTables /\ [SwapStep]_swapVars => SwapTables'
<1> SUFFICES ASSUME SwapTables, [SwapStep]_swapVars PROVE SwapTables'
  OBVIOUS
<1>0. requests \in [SwapRequests -> SwapRequest]
  BY DEF SwapTables
<1>1. ASSUME NEW r \in SwapRequests, NEW q \in SwapRequest, requests' = [requests EXCEPT ![r] = q],
             UNCHANGED <<cluster, swapsBuilt, feeCache>>
      PROVE  SwapTables'
  BY <1>1 DEF SwapTables, FeesOK
<1>2. ASSUME UNCHANGED <<cluster, swapsBuilt, feeCache, requests>> PROVE SwapTables'
  BY <1>2 DEF SwapTables, FeesOK
<1>3. \A r \in SwapRequests : requests[r] \in SwapRequest
  BY DEF SwapTables
<1>4. ASSUME NEW r \in SwapRequests, NEW answer \in Reply, Answers(r, answer), UNCHANGED <<cluster, swapsBuilt, feeCache>>
      PROVE  SwapTables'
  <2> DEFINE q == [requests[r] EXCEPT !.stage = "answered", !.answer = answer]
  <2>1. q \in SwapRequest
    BY <1>3, SwapRequestAnswered
  <2>2. requests' = [requests EXCEPT ![r] = q]
    BY <1>4, <1>0 DEF Answers
  <2> HIDE DEF q
  <2> QED BY <1>1, <1>4, <2>1, <2>2
<1>5. ASSUME NEW t \in SwapTxs, BuildSwap(t) \/ WalletBuilds(t) PROVE SwapTables'
  <2>1. PICK fee \in FeeTokens \cup {NoFee}, sec \in BOOLEAN :
          swapsBuilt' = [x \in DOMAIN swapsBuilt \cup {t} |-> IF x = t THEN [fee |-> fee, tip |-> sec] ELSE swapsBuilt[x]]
    BY <1>5 DEF BuildSwap, WalletBuilds
  <2>2. UNCHANGED <<cluster, requests, feeCache>>
    BY <1>5 DEF BuildSwap, WalletBuilds
  <2> QED BY <2>1, <2>2 DEF SwapTables, FeesOK
<1>6. ASSUME NEW t \in SwapTxs, ChainMoves(t) PROVE SwapTables'
  BY <1>2, <1>6 DEF ChainMoves
<1>7. ASSUME NEW r \in SwapRequests, AskExecution(r) PROVE SwapTables'
  <2>1. PICK t \in DOMAIN swapsBuilt, way \in {"kora", "jito", "rpc"} :
          \/ requests' = [requests EXCEPT ![r].stage = "answered", ![r].answer = "refused", ![r].tx = t, ![r].way = way]
          \/ requests' = [requests EXCEPT ![r].stage = "send", ![r].tx = t, ![r].way = way]
    BY <1>7, Zenon DEF AskExecution
  <2>2. t \in SwapTxs /\ way \in Ways /\ UNCHANGED <<cluster, swapsBuilt, feeCache>>
    BY <1>7 DEF SwapTables, Ways, AskExecution
  <2> DEFINE q == [requests[r] EXCEPT !.stage = "answered", !.answer = "refused", !.tx = t, !.way = way]
             p == [requests[r] EXCEPT !.stage = "send", !.tx = t, !.way = way]
  <2>3. q \in SwapRequest /\ p \in SwapRequest
    BY <1>3, <2>2, SwapRequestAsked
  <2>4. requests' = [requests EXCEPT ![r] = q] \/ requests' = [requests EXCEPT ![r] = p]
    BY <2>1, <1>0
  <2> HIDE DEF q, p
  <2> QED BY <1>1, <2>2, <2>3, <2>4
<1>8. ASSUME NEW r \in SwapRequests, NEW status, NEW next \in SwapStages, Rpc(r, status, next),
             UNCHANGED <<cluster, swapsBuilt, feeCache>>
      PROVE  SwapTables'
  <2>1. CASE Answers(r, "error")
    BY <1>4, <1>8, <2>1 DEF Reply
  <2> DEFINE q == [requests[r] EXCEPT !.stage = "answered", !.answer = "error", !.sent = TRUE]
             p == [requests[r] EXCEPT !.stage = next, !.sent = TRUE]
  <2>2. q \in SwapRequest /\ p \in SwapRequest
    <3>1. "error" \in Reply /\ next \in SwapStages
      BY <1>8 DEF Reply
    <3> QED BY <1>3, <3>1, SwapRequestAnswered, SwapRequestSent
  <2>3. CASE requests' = [requests EXCEPT ![r].stage = "answered", ![r].answer = "error", ![r].sent = TRUE]
    <3>1. requests' = [requests EXCEPT ![r] = q]
      BY <2>3, <1>0
    <3> HIDE DEF q
    <3> QED BY <1>1, <1>8, <2>2, <3>1
  <2>4. CASE requests' = [requests EXCEPT ![r].stage = next, ![r].sent = TRUE]
    <3>1. requests' = [requests EXCEPT ![r] = p]
      BY <2>4, <1>0
    <3> HIDE DEF p
    <3> QED BY <1>1, <1>8, <2>2, <3>1
  <2> QED BY <1>8, <2>1, <2>3, <2>4 DEF Rpc
<1>9. ASSUME NEW r \in SwapRequests, SignAndSend(r) \/ SendBundle(r) \/ SubmitRaw(r) PROVE SwapTables'
  BY <1>8, <1>9 DEF SignAndSend, SendBundle, SubmitRaw, SwapStages
<1>10. ASSUME NEW r \in SwapRequests, Confirm(r) \/ WindowCloses(r) PROVE SwapTables'
  BY <1>4, <1>10 DEF Confirm, WindowCloses, Reply
<1>11. ASSUME NEW r \in SwapRequests, PollStatus(r) PROVE SwapTables'
  <2>1. CASE \E status \in StatusOf(r) \ {"Pending"} : Answers(r, IF status = "Landed" THEN "signature" ELSE "notLanded")
    BY <1>4, <1>11, <2>1 DEF PollStatus, Reply
  <2>2. CASE PollsAgain(r)
    <3> DEFINE q == [requests[r] EXCEPT !.polls = @ + 1]
    <3>1. requests[r].polls \in 0..MaxPolls /\ requests[r].polls < MaxPolls
      BY <1>3, <1>11 DEF PollStatus, SwapRequest
    <3>2. requests[r].polls + 1 \in 0..MaxPolls
      BY <3>1, SwapAssumption
    <3>3. q \in SwapRequest
      BY <1>3, <3>2 DEF SwapRequest
    <3>4. requests' = [requests EXCEPT ![r] = q]
      BY <2>2, <1>0 DEF PollsAgain
    <3> HIDE DEF q
    <3> QED BY <1>1, <1>11, <3>3, <3>4 DEF PollStatus
  <2> QED BY <1>11, <2>1, <2>2 DEF PollStatus
<1>12. ASSUME NEW r \in SwapRequests, AskAgain(r) PROVE SwapTables'
  <2>1. Unasked \in SwapRequest
    BY SwapAssumption DEF Unasked, SwapRequest, SwapStages, Ways, Reply
  <2> QED BY <1>1, <1>12, <2>1 DEF AskAgain
<1>13. CASE GetSwapInfo
  <2>1. PICK priority, tip : feeCache' = [priority |-> priority, tip |-> tip, max |-> 3 * (priority + tip)]
    BY <1>13, Zenon DEF GetSwapInfo
  <2>2. feeCache'.max = 3 * (feeCache'.priority + feeCache'.tip)
    BY <2>1
  <2> QED BY <1>13, <2>2 DEF GetSwapInfo, SwapTables, FeesOK
<1>14. CASE FeesExpire
  BY <1>14 DEF FeesExpire, SwapTables, FeesOK
<1>15. CASE UNCHANGED swapVars
  BY <1>2, <1>15 DEF swapVars
<1>16. ASSUME NEW r \in SwapRequests,
              AskExecution(r) \/ SignAndSend(r) \/ SendBundle(r) \/ SubmitRaw(r) \/ Confirm(r)
                \/ PollStatus(r) \/ WindowCloses(r) \/ AskAgain(r)
       PROVE  SwapTables'
  BY <1>7, <1>9, <1>10, <1>11, <1>12, <1>16
<1>17. ASSUME NEW t \in SwapTxs, BuildSwap(t) \/ WalletBuilds(t) \/ ChainMoves(t) PROVE SwapTables'
  BY <1>5, <1>6, <1>17
<1> QED BY <1>13, <1>14, <1>15, <1>16, <1>17 DEF SwapStep

(* The transactions, the chain, the requests and the fees have their types.*)
THEOREM SwapTypes == SwapSpec => []SwapTypeOK
<1>1. SwapInit => SwapTables
  <2>1. Unasked \in SwapRequest
    BY SwapAssumption DEF Unasked, SwapRequest, SwapStages, Ways, Reply
  <2> QED BY <2>1 DEF SwapInit, SwapTables, FeesOK
<1>2. SwapInv /\ SwapTables => SwapTypeOK
  <2> SUFFICES ASSUME SwapInv, SwapTables PROVE SwapTypeOK
    OBVIOUS
  <2>1. \A r \in SwapRequests :
          /\ requests[r].stage \in SwapStages
          /\ requests[r].way \in Ways /\ requests[r].polls \in 0..MaxPolls
          /\ requests[r].answer \in Reply
    <3> SUFFICES ASSUME NEW r \in SwapRequests
                 PROVE  /\ requests[r].stage \in SwapStages
                        /\ requests[r].way \in Ways /\ requests[r].polls \in 0..MaxPolls
                        /\ requests[r].answer \in Reply
      OBVIOUS
    <3>1. requests[r] \in SwapRequest
      BY DEF SwapTables
    <3> QED BY <3>1 DEF SwapRequest
  <2> QED BY <2>1, Zenon DEF SwapInv, TablesOK, SwapTables, FeesOK, SwapTypeOK, SwapStages, Ways, Reply, Statuses
<1>3. SwapSpec => []SwapTables
  BY <1>1, SwapTablesStep, PTL DEF SwapSpec
<1> QED BY <1>2, <1>3, SwapInvAlways, PTL

(***************************************************************************)
(* StakingHistory.  The window between the two cursors has no gap, for any *)
(* signatures and overlapping calls.                                       *)
(***************************************************************************)
LEMMA NewestIn ==
  ASSUME NEW n \in Nat, NEW S \in SUBSET (1..n), S # {}
  PROVE  /\ NewestOf(S) \subseteq S /\ NewestOf(S) # {}
         /\ \A s \in S : \A t \in NewestOf(S) : t <= s => s \in NewestOf(S)
<1> DEFINE Above(s) == {t \in S : t > s}
<1>1. IsFiniteSet(S)
  BY FS_Interval, FS_Subset, 1 \in Int, n \in Int
<1>2. \A s : IsFiniteSet(Above(s))
  BY <1>1, FS_Subset
<1>3. Max(S) \in NewestOf(S)
  <2>1. Max(S) \in S /\ \A y \in S : y <= Max(S)
    BY MaxMinIn
  <2>2. Above(Max(S)) = {}
    <3>1. ASSUME NEW y \in S PROVE ~(y > Max(S))
      <4> DEFINE m == Max(S)
      <4>1. m \in S /\ y <= m
        BY <2>1, Zenon
      <4> HIDE DEF m
      <4>2. ~(y > m)
        BY <4>1
      <4> QED BY <4>2, Zenon DEF m
    <3> QED BY <3>1, Zenon
  <2>3. Cardinality(Above(Max(S))) = 0
    BY <2>2, FS_EmptySet
  <2> QED BY <2>1, <2>3, HistoryAssumption DEF NewestOf
<1>4. ASSUME NEW s \in S, NEW t \in NewestOf(S), t <= s
      PROVE  s \in NewestOf(S)
  <2>1. t \in S /\ Cardinality(Above(t)) < BatchOf
    BY DEF NewestOf
  <2>2. Above(s) \subseteq Above(t)
    <3>1. ASSUME NEW y \in S, y > s PROVE y > t
      <4>1. y \in Nat /\ s \in Nat /\ t \in Nat
        BY <2>1
      <4> QED BY <1>4, <3>1, <4>1
    <3> QED BY <3>1, Zenon
  <2>3. Cardinality(Above(s)) <= Cardinality(Above(t))
    BY <1>2, <2>2, FS_Subset
  <2>4. Cardinality(Above(s)) \in Nat /\ Cardinality(Above(t)) \in Nat
    BY <1>2, FS_CardinalityType
  <2> QED BY <2>1, <2>3, <2>4, HistoryAssumption DEF NewestOf
<1> QED BY <1>3, <1>4 DEF NewestOf

SyncState == [newest : Nat, oldest : Nat, reached : BOOLEAN, made : BOOLEAN]
HistoryStages == {"idle", "state", "create", "count", "backfill", "details", "upsert", "save", "write", "read"}
HistoryCall == [stage : HistoryStages, older : BOOLEAN, state : SyncState,
                batch : SUBSET Nat, rows : SUBSET Nat, row : SyncState]

InWindow(s, low, high) == low # Null /\ low <= s /\ s <= high

(* The window of a sync state lies on the chain sg, and every signature of *)
(* the staking program in it is done: stored, or passed over.              *)
WindowRight(st, sg, done) ==
  /\ st.newest = Null <=> st.oldest = Null
  /\ st.newest <= Len(sg) /\ st.oldest <= Len(sg)
  /\ \A s \in DOMAIN sg : sg[s] /\ InWindow(s, st.oldest, st.newest) => s \in done

NextNewest(older, st, B) == IF older /\ st.newest # Null THEN st.newest ELSE Max(B)
NextOldest(older, st, B) == IF ~older /\ st.oldest # Null THEN st.oldest ELSE Min(B)

(* The window a batch B is about to claim is the old one and the batch.    *)
Covers(older, st, B, sg, passed) ==
  /\ B \subseteq DOMAIN sg /\ B # {}
  /\ \A s \in DOMAIN sg :
       InWindow(s, NextOldest(older, st, B), NextNewest(older, st, B))
         => InWindow(s, st.oldest, st.newest) \/ s \in B \/ s \in passed

(* What a request has read is still right, whatever the others did since.  *)
CallRight(k, sg, listed, passed) ==
  /\ WindowRight(k.state, sg, listed \cup passed)
  /\ k.rows \subseteq DOMAIN sg
  /\ k.stage \in {"details", "upsert", "save", "write"} /\ k.batch # {}
       => Covers(k.older, k.state, k.batch, sg, passed)
  /\ k.stage = "upsert" => \A s \in k.batch : sg[s] => s \in k.rows \cup passed
  /\ k.stage \in {"save", "write"} => \A s \in k.batch : sg[s] => s \in listed \cup passed

HistoryTables ==
  /\ sigs \in Seq(BOOLEAN) /\ Len(sigs) <= MaxSigs
  /\ history \subseteq DOMAIN sigs /\ skipped \subseteq DOMAIN sigs
  /\ begun \in 0..MaxHistory
  /\ state \in SyncState
  /\ calls \in [HistoryCalls -> HistoryCall]

HistoryInv ==
  /\ HistoryTables
  /\ WindowRight(state, sigs, history \cup skipped)
  /\ \A c \in HistoryCalls : CallRight(calls[c], sigs, history, skipped)

-------------------------------------------------------------------------------
LEMMA SyncFields ==
  ASSUME NEW st \in SyncState
  PROVE  st.newest \in Nat /\ st.oldest \in Nat /\ st.reached \in BOOLEAN /\ st.made \in BOOLEAN
BY DEF SyncState

LEMMA HistoryFields ==
  ASSUME NEW k \in HistoryCall
  PROVE  /\ k.stage \in HistoryStages /\ k.older \in BOOLEAN /\ k.state \in SyncState
         /\ k.batch \in SUBSET Nat /\ k.rows \in SUBSET Nat /\ k.row \in SyncState
BY DEF HistoryCall

LEMMA NoHistoryCall ==
  /\ NoState \in SyncState /\ NoCall \in HistoryCall
  /\ NoCall.stage = "idle" /\ NoCall.state = NoState /\ NoCall.rows = {}
  /\ NoState.newest = Null /\ NoState.oldest = Null
<1>1. NoState \in SyncState /\ NoState.newest = Null /\ NoState.oldest = Null
  BY DEF NoState, SyncState, Null
<1>2. NoCall.stage = "idle" /\ NoCall.state = NoState /\ NoCall.rows = {}
  BY DEF NoCall
<1>3. NoCall \in HistoryCall
  BY <1>1 DEF NoCall, HistoryCall, HistoryStages
<1> QED BY <1>1, <1>2, <1>3

-------------------------------------------------------------------------------
(* The chain, what is stored and what was passed over only grow.           *)
Grows(sg, tg, listed, kept, passed, left) ==
  /\ sg \in Seq(BOOLEAN) /\ tg \in Seq(BOOLEAN) /\ Len(sg) <= Len(tg)
  /\ \A s \in DOMAIN sg : tg[s] = sg[s]
  /\ listed \subseteq kept /\ passed \subseteq left

LEMMA ChainGrows ==
  ASSUME NEW sg \in Seq(BOOLEAN), NEW tg \in Seq(BOOLEAN), Len(sg) <= Len(tg)
  PROVE  /\ DOMAIN sg = 1..Len(sg) /\ DOMAIN tg = 1..Len(tg) /\ DOMAIN sg \subseteq DOMAIN tg
         /\ Len(sg) \in Nat /\ Len(tg) \in Nat
OBVIOUS

LEMMA WindowStays ==
  ASSUME NEW sg, NEW tg, NEW listed, NEW kept, NEW passed, NEW left,
         Grows(sg, tg, listed, kept, passed, left),
         NEW st \in SyncState, WindowRight(st, sg, listed \cup passed)
  PROVE  WindowRight(st, tg, kept \cup left)
<1>1. st.newest \in Nat /\ st.oldest \in Nat
  BY SyncFields
<1>2. /\ DOMAIN sg = 1..Len(sg) /\ DOMAIN tg = 1..Len(tg) /\ DOMAIN sg \subseteq DOMAIN tg
      /\ Len(sg) \in Nat /\ Len(tg) \in Nat
  BY ChainGrows DEF Grows
<1>3. st.newest <= Len(tg) /\ st.oldest <= Len(tg)
  BY <1>1, <1>2 DEF WindowRight, Grows
<1>4. ASSUME NEW s \in DOMAIN tg, tg[s], InWindow(s, st.oldest, st.newest)
      PROVE  s \in kept \cup left
  <2>1. s \in DOMAIN sg
    BY <1>1, <1>2, <1>4 DEF WindowRight, InWindow
  <2>2. sg[s]
    BY <2>1, <1>4, Zenon DEF Grows
  <2>3. s \in listed \cup passed
    BY <2>1, <2>2, <1>4, Zenon DEF WindowRight
  <2> QED BY <2>3, Zenon DEF Grows
<1> QED BY <1>3, <1>4, Zenon DEF WindowRight

LEMMA NextOnChain ==
  ASSUME NEW sg \in Seq(BOOLEAN), NEW older, NEW st \in SyncState, NEW B, NEW passed, NEW done,
         WindowRight(st, sg, done), Covers(older, st, B, sg, passed)
  PROVE  NextNewest(older, st, B) \in 1..Len(sg) /\ NextOldest(older, st, B) \in 1..Len(sg)
<1>1. st.newest \in 0..Len(sg) /\ st.oldest \in 0..Len(sg) /\ Len(sg) \in Nat
  BY SyncFields DEF WindowRight
<1>2. B \in SUBSET (1..Len(sg)) /\ B # {}
  BY DEF Covers
<1>3. Max(B) \in B /\ Min(B) \in B
  BY <1>1, <1>2, MaxMinIn
<1>4. Max(B) \in 1..Len(sg) /\ Min(B) \in 1..Len(sg)
  BY <1>2, <1>3, Zenon
<1>5. (st.newest # Null => st.newest \in 1..Len(sg)) /\ (st.oldest # Null => st.oldest \in 1..Len(sg))
  BY <1>1 DEF Null
<1> QED BY <1>4, <1>5, Zenon DEF NextNewest, NextOldest

LEMMA CoversStays ==
  ASSUME NEW sg, NEW tg, NEW listed, NEW kept, NEW passed, NEW left,
         Grows(sg, tg, listed, kept, passed, left),
         NEW older, NEW st \in SyncState, NEW B,
         WindowRight(st, sg, listed \cup passed), Covers(older, st, B, sg, passed)
  PROVE  Covers(older, st, B, tg, left)
<1> DEFINE high == NextNewest(older, st, B)
           low == NextOldest(older, st, B)
<1>1. high \in 1..Len(sg) /\ low \in 1..Len(sg)
  BY NextOnChain, Zenon DEF Grows
<1>2. /\ DOMAIN sg = 1..Len(sg) /\ DOMAIN tg = 1..Len(tg) /\ DOMAIN sg \subseteq DOMAIN tg
      /\ Len(sg) \in Nat /\ Len(tg) \in Nat
  BY ChainGrows DEF Grows
<1>3. ASSUME NEW s \in DOMAIN tg, InWindow(s, low, high)
      PROVE  InWindow(s, st.oldest, st.newest) \/ s \in B \/ s \in left
  <2> HIDE DEF high, low
  <2>1. s \in DOMAIN sg
    BY <1>1, <1>2, <1>3 DEF InWindow
  <2> USE DEF high, low
  <2>2. InWindow(s, st.oldest, st.newest) \/ s \in B \/ s \in passed
    BY <2>1, <1>3, Zenon DEF Covers
  <2> QED BY <2>2, Zenon DEF Grows
<1>4. B \subseteq DOMAIN tg /\ B # {}
  BY <1>2, Zenon DEF Covers
<1> QED BY <1>3, <1>4, Zenon DEF Covers

LEMMA CallStays ==
  ASSUME NEW sg, NEW tg, NEW listed, NEW kept, NEW passed, NEW left,
         Grows(sg, tg, listed, kept, passed, left),
         NEW k \in HistoryCall, CallRight(k, sg, listed, passed)
  PROVE  CallRight(k, tg, kept, left)
<1>1. k.state \in SyncState /\ k.older \in BOOLEAN
  BY HistoryFields
<1>2. WindowRight(k.state, tg, kept \cup left)
  BY <1>1, WindowStays, ZenonT(60) DEF CallRight
<1>3. DOMAIN sg \subseteq DOMAIN tg
  BY ChainGrows DEF Grows
<1>4. k.stage \in {"details", "upsert", "save", "write"} /\ k.batch # {}
        => Covers(k.older, k.state, k.batch, tg, left)
  <2>1. SUFFICES ASSUME k.stage \in {"details", "upsert", "save", "write"}, k.batch # {}
                 PROVE  Covers(k.older, k.state, k.batch, tg, left)
    BY Zenon
  <2>2. Covers(k.older, k.state, k.batch, sg, passed) /\ WindowRight(k.state, sg, listed \cup passed)
    BY <2>1, Zenon DEF CallRight
  <2> QED BY <1>1, <2>2, CoversStays, Zenon
<1>5. k.stage \in {"details", "upsert", "save", "write"} => k.batch \subseteq DOMAIN sg
  BY Zenon DEF CallRight, Covers
<1>6. ASSUME k.stage = "upsert", NEW s \in k.batch, tg[s]
      PROVE  s \in k.rows \cup left
  <2>1. s \in DOMAIN sg
    BY <1>5, <1>6, Zenon
  <2>2. sg[s]
    BY <2>1, <1>6, Zenon DEF Grows
  <2> QED BY <1>6, <2>2, Zenon DEF CallRight, Grows
<1>7. ASSUME k.stage \in {"save", "write"}, NEW s \in k.batch, tg[s]
      PROVE  s \in kept \cup left
  <2>1. s \in DOMAIN sg
    BY <1>5, <1>7, Zenon
  <2>2. sg[s]
    BY <2>1, <1>7, Zenon DEF Grows
  <2> QED BY <1>7, <2>2, Zenon DEF CallRight, Grows
<1> QED BY <1>2, <1>3, <1>4, <1>6, <1>7, Zenon DEF CallRight
-------------------------------------------------------------------------------
(* Both readers take the newest of what they want: nothing between the     *)
(* batch and the old window is left out without being recorded.            *)
LEMMA LatestCovers ==
  ASSUME NEW sg \in Seq(BOOLEAN), NEW st \in SyncState, NEW done, WindowRight(st, sg, done),
         NEW asksFor, asksFor = {s \in DOMAIN sg : s > st.newest}, asksFor # {},
         NEW passed, NEW left, passed \subseteq left,
         st.newest # Null => asksFor \ NewestOf(asksFor) \subseteq left
  PROVE  Covers(FALSE, st, NewestOf(asksFor), sg, left)
<1> DEFINE B == NewestOf(asksFor)
<1>1. st.newest \in Nat /\ st.oldest \in Nat /\ Len(sg) \in Nat /\ DOMAIN sg = 1..Len(sg)
  BY SyncFields
<1>2. asksFor \in SUBSET (1..Len(sg))
  BY <1>1
<1>3. /\ B \subseteq asksFor /\ B # {}
      /\ \A s \in asksFor : \A t \in B : t <= s => s \in B
  BY <1>1, <1>2, NewestIn, Zenon
<1> HIDE DEF B
<1>4. Max(B) \in B /\ Min(B) \in B
  BY <1>1, <1>2, <1>3, MaxMinIn
<1>5. B \subseteq DOMAIN sg
  BY <1>1, <1>2, <1>3
<1>6. ASSUME NEW s \in DOMAIN sg, InWindow(s, NextOldest(FALSE, st, B), NextNewest(FALSE, st, B))
      PROVE  InWindow(s, st.oldest, st.newest) \/ s \in B \/ s \in left
  <2>1. CASE st.newest = Null
    <3>1. st.oldest = Null
      BY <2>1 DEF WindowRight
    <3>2. Min(B) <= s
      BY <1>6, <3>1 DEF InWindow, NextOldest
    <3>3. s \in asksFor
      BY <1>1, <2>1 DEF Null
    <3> QED BY <1>3, <1>4, <3>2, <3>3, Zenon
  <2>2. CASE st.newest # Null
    <3>1. st.oldest # Null
      BY <2>2 DEF WindowRight
    <3>2. st.oldest <= s
      BY <1>6, <3>1 DEF InWindow, NextOldest
    <3>3. CASE s <= st.newest
      BY <3>1, <3>2, <3>3 DEF InWindow
    <3>4. CASE s > st.newest
      <4>1. s \in asksFor
        BY <3>4
      <4>2. asksFor \ B \subseteq left
        BY <2>2, Zenon DEF B
      <4> QED BY <4>1, <4>2, Zenon
    <3> QED BY <1>1, <3>3, <3>4
  <2> QED BY <2>1, <2>2, Zenon
<1> QED BY <1>3, <1>5, <1>6, Zenon DEF Covers, B

LEMMA OlderCovers ==
  ASSUME NEW sg \in Seq(BOOLEAN), NEW st \in SyncState, NEW done, WindowRight(st, sg, done),
         NEW before, before = IF st.oldest = Null THEN Len(sg) + 1 ELSE st.oldest,
         NEW asksFor, asksFor = {s \in DOMAIN sg : s < before}, asksFor # {}, NEW left
  PROVE  Covers(TRUE, st, NewestOf(asksFor), sg, left)
<1> DEFINE B == NewestOf(asksFor)
<1>1. st.newest \in Nat /\ st.oldest \in Nat /\ Len(sg) \in Nat /\ DOMAIN sg = 1..Len(sg)
  BY SyncFields
<1>2. asksFor \in SUBSET (1..Len(sg))
  BY <1>1
<1>3. /\ B \subseteq asksFor /\ B # {}
      /\ \A s \in asksFor : \A t \in B : t <= s => s \in B
  BY <1>1, <1>2, NewestIn, Zenon
<1> HIDE DEF B
<1>4. Max(B) \in B /\ Min(B) \in B
  BY <1>1, <1>2, <1>3, MaxMinIn
<1>5. B \subseteq DOMAIN sg
  BY <1>1, <1>2, <1>3
<1>6. ASSUME NEW s \in DOMAIN sg, InWindow(s, NextOldest(TRUE, st, B), NextNewest(TRUE, st, B))
      PROVE  InWindow(s, st.oldest, st.newest) \/ s \in B \/ s \in left
  <2>1. Min(B) <= s
    BY <1>6 DEF InWindow, NextOldest
  <2>2. CASE s < before
    <3>1. s \in asksFor
      BY <2>2
    <3> QED BY <1>3, <1>4, <2>1, <3>1, Zenon
  <2>3. CASE ~(s < before)
    <3>1. st.oldest # Null /\ st.oldest <= s
      BY <1>1, <2>3
    <3>2. st.newest # Null
      BY <3>1 DEF WindowRight
    <3>3. s <= st.newest
      BY <1>6, <3>2 DEF InWindow, NextNewest
    <3> QED BY <3>1, <3>3 DEF InWindow
  <2> QED BY <2>2, <2>3, Zenon
<1> QED BY <1>3, <1>5, <1>6, Zenon DEF Covers, B

(* A state whose window is the old one and a batch that is done.           *)
LEMMA BatchIsClaimed ==
  ASSUME NEW sg \in Seq(BOOLEAN), NEW older, NEW st \in SyncState, NEW B,
         NEW listed, NEW passed, WindowRight(st, sg, listed \cup passed), Covers(older, st, B, sg, passed),
         \A s \in B : sg[s] => s \in listed \cup passed,
         NEW new, new.newest = NextNewest(older, st, B), new.oldest = NextOldest(older, st, B)
  PROVE  WindowRight(new, sg, listed \cup passed)
<1>1. new.newest \in 1..Len(sg) /\ new.oldest \in 1..Len(sg) /\ Len(sg) \in Nat
  BY NextOnChain
<1>2. new.newest # Null /\ new.oldest # Null /\ new.newest <= Len(sg) /\ new.oldest <= Len(sg)
  BY <1>1 DEF Null
<1>3. ASSUME NEW s \in DOMAIN sg, sg[s], InWindow(s, new.oldest, new.newest)
      PROVE  s \in listed \cup passed
  <2>1. InWindow(s, st.oldest, st.newest) \/ s \in B \/ s \in passed
    BY <1>3, Zenon DEF Covers
  <2> QED BY <2>1, <1>3, Zenon DEF WindowRight
<1> QED BY <1>2, <1>3, Zenon DEF WindowRight

-------------------------------------------------------------------------------
(* One request moves, its new record right; nothing is taken away.         *)
LEMMA RequestMoves ==
  ASSUME HistoryInv, NEW c \in HistoryCalls, NEW q \in HistoryCall,
         calls' = [calls EXCEPT ![c] = q],
         Grows(sigs, sigs', history, history', skipped, skipped'),
         CallRight(q, sigs', history', skipped')
  PROVE  /\ calls' \in [HistoryCalls -> HistoryCall]
         /\ \A r \in HistoryCalls : CallRight(calls'[r], sigs', history', skipped')
<1>1. calls \in [HistoryCalls -> HistoryCall]
  BY DEF HistoryInv, HistoryTables
<1>2. calls' \in [HistoryCalls -> HistoryCall]
  BY <1>1, Zenon
<1>3. calls'[c] = q /\ \A r \in HistoryCalls : r # c => calls'[r] = calls[r]
  BY <1>1, Zenon
<1>4. ASSUME NEW r \in HistoryCalls PROVE CallRight(calls'[r], sigs', history', skipped')
  <2>1. CASE r = c
    BY <1>3, <2>1, Zenon
  <2>2. CASE r # c
    <3>1. calls[r] \in HistoryCall /\ CallRight(calls[r], sigs, history, skipped)
      BY <1>1 DEF HistoryInv
    <3>2. CallRight(calls[r], sigs', history', skipped')
      BY <3>1, CallStays, Zenon
    <3> QED BY <1>3, <2>2, <3>2, Zenon
  <2> QED BY <2>1, <2>2, Zenon
<1> QED BY <1>2, <1>4, Zenon
LEMMA EmptyRight ==
  ASSUME NEW sg \in Seq(BOOLEAN), NEW listed, NEW passed
  PROVE  WindowRight(NoState, sg, listed \cup passed) /\ CallRight(NoCall, sg, listed, passed)
<1>1. Len(sg) \in Nat
  OBVIOUS
<1>2. WindowRight(NoState, sg, listed \cup passed)
  BY <1>1, NoHistoryCall DEF WindowRight, InWindow, Null
<1> QED BY <1>2, NoHistoryCall DEF CallRight

(* The chain and what is done does not change under a request's own step.  *)
LEMMA SameGrows ==
  ASSUME HistoryTables, sigs' = sigs, history \subseteq history', skipped \subseteq skipped'
  PROVE  Grows(sigs, sigs', history, history', skipped, skipped')
<1>1. Len(sigs) \in Nat
  BY DEF HistoryTables
<1> QED BY <1>1 DEF Grows, HistoryTables

LEMMA HistoryInit0 == StakingInit => HistoryInv
<1> SUFFICES ASSUME StakingInit PROVE HistoryInv
  OBVIOUS
<1>1. /\ history = {} /\ skipped = {} /\ state = NoState /\ begun = 0
      /\ calls = [c \in HistoryCalls |-> NoCall]
  BY DEF StakingInit
<1>2. PICK n \in {0, 2} : sigs = [i \in 1..n |-> TRUE]
  BY DEF StakingInit
<1>3. sigs \in Seq(BOOLEAN) /\ Len(sigs) <= MaxSigs
  BY <1>2, HistoryAssumption
<1>4. HistoryTables
  BY <1>1, <1>3, NoHistoryCall, HistoryAssumption DEF HistoryTables
<1>5. WindowRight(state, sigs, history \cup skipped)
  BY <1>1, <1>3, EmptyRight, Zenon
<1>6. \A c \in HistoryCalls : CallRight(calls[c], sigs, history, skipped)
  BY <1>1, <1>3, EmptyRight, Zenon
<1> QED BY <1>4, <1>5, <1>6 DEF HistoryInv

LEMMA NewTransactionKeeps == ASSUME HistoryInv, NewTransaction PROVE HistoryInv'
<1>1. PICK b \in BOOLEAN : sigs' = Append(sigs, b)
  BY DEF NewTransaction
<1>2. UNCHANGED <<history, state, calls, begun, skipped>> /\ Len(sigs) < MaxSigs
  BY DEF NewTransaction
<1>3. /\ sigs' \in Seq(BOOLEAN) /\ Len(sigs') = Len(sigs) + 1 /\ Len(sigs) \in Nat
      /\ \A s \in DOMAIN sigs : sigs'[s] = sigs[s]
      /\ DOMAIN sigs = 1..Len(sigs) /\ DOMAIN sigs' = 1..Len(sigs')
  BY <1>1 DEF HistoryInv, HistoryTables
<1>4. Grows(sigs, sigs', history, history', skipped, skipped')
  BY <1>2, <1>3 DEF Grows, HistoryInv, HistoryTables
<1>5. HistoryTables'
  BY <1>2, <1>3, HistoryAssumption DEF HistoryInv, HistoryTables
<1>6. state \in SyncState /\ calls \in [HistoryCalls -> HistoryCall]
  BY DEF HistoryInv, HistoryTables
<1>7. WindowRight(state', sigs', history' \cup skipped')
  <2>1. WindowRight(state, sigs', history' \cup skipped')
    BY <1>4, <1>6, WindowStays, Zenon DEF HistoryInv
  <2> QED BY <1>2, <2>1, Zenon
<1>8. ASSUME NEW c \in HistoryCalls PROVE CallRight(calls'[c], sigs', history', skipped')
  <2>1. CallRight(calls[c], sigs', history', skipped')
    BY <1>4, <1>6, CallStays DEF HistoryInv
  <2> QED BY <1>2, <2>1, Zenon
<1> QED BY <1>5, <1>7, <1>8 DEF HistoryInv
(* A step of one request keeps the invariant when its own record, and the  *)
(* sync state it writes, are right.                                        *)
LEMMA OwnStepKeeps ==
  ASSUME HistoryInv, NEW c \in HistoryCalls, NEW q \in HistoryCall,
         calls' = [calls EXCEPT ![c] = q],
         sigs' = sigs, history \subseteq history', skipped \subseteq skipped',
         history' \subseteq DOMAIN sigs, skipped' \subseteq DOMAIN sigs,
         begun' \in 0..MaxHistory,
         state' = state \/ (state' \in SyncState /\ WindowRight(state', sigs, history' \cup skipped')),
         CallRight(q, sigs, history', skipped')
  PROVE  HistoryInv'
<1>1. HistoryTables /\ state \in SyncState /\ WindowRight(state, sigs, history \cup skipped)
  BY DEF HistoryInv, HistoryTables
<1>2. Grows(sigs, sigs', history, history', skipped, skipped')
  BY <1>1, SameGrows
<1>3. CallRight(q, sigs', history', skipped')
  BY Zenon
<1>4. /\ calls' \in [HistoryCalls -> HistoryCall]
      /\ \A r \in HistoryCalls : CallRight(calls'[r], sigs', history', skipped')
  BY <1>2, <1>3, RequestMoves
<1>5. state' \in SyncState /\ WindowRight(state', sigs', history' \cup skipped')
  <2>1. CASE state' = state
    <3>1. WindowRight(state, sigs', history' \cup skipped')
      BY <1>1, <1>2, WindowStays, Zenon
    <3> QED BY <1>1, <2>1, <3>1, Zenon
  <2>2. CASE state' \in SyncState /\ WindowRight(state', sigs, history' \cup skipped')
    BY <2>2, Zenon
  <2> QED BY <2>1, <2>2, Zenon
<1>6. HistoryTables'
  BY <1>1, <1>4, <1>5 DEF HistoryTables
<1> QED BY <1>4, <1>5, <1>6 DEF HistoryInv

LEMMA CallOf ==
  ASSUME HistoryInv, NEW c \in HistoryCalls
  PROVE  /\ calls \in [HistoryCalls -> HistoryCall]
         /\ calls[c] \in HistoryCall /\ CallRight(calls[c], sigs, history, skipped)
         /\ sigs \in Seq(BOOLEAN) /\ history \subseteq DOMAIN sigs /\ skipped \subseteq DOMAIN sigs
         /\ state \in SyncState /\ WindowRight(state, sigs, history \cup skipped)
         /\ begun \in 0..MaxHistory
BY DEF HistoryInv, HistoryTables

(* A request that ends, or has failed, holds nothing.                      *)
LEMMA RequestEnds ==
  ASSUME HistoryInv, NEW c \in HistoryCalls, calls' = [calls EXCEPT ![c] = NoCall],
         UNCHANGED <<sigs, history, state, begun, skipped>>
  PROVE  HistoryInv'
<1>1. CallRight(NoCall, sigs, history', skipped') /\ NoCall \in HistoryCall
  BY CallOf, EmptyRight, NoHistoryCall, Zenon
<1> QED BY <1>1, CallOf, OwnStepKeeps, Zenon

LEMMA GetHistoryKeeps == ASSUME HistoryInv, NEW c \in HistoryCalls, GetHistory(c) PROVE HistoryInv'
<1>1. PICK older \in BOOLEAN : calls' = [calls EXCEPT ![c] = [NoCall EXCEPT !.stage = "state", !.older = older]]
  BY DEF GetHistory
<1>2. UNCHANGED <<sigs, history, state, skipped>> /\ begun < MaxHistory /\ begun' = begun + 1
  BY DEF GetHistory
<1>3. begun' \in 0..MaxHistory
  BY <1>2, CallOf, HistoryAssumption
<1> DEFINE q == [NoCall EXCEPT !.stage = "state", !.older = older]
<1>4. q \in HistoryCall
  BY NoHistoryCall DEF HistoryCall, HistoryStages
<1>5. q.stage = "state" /\ q.state = NoState /\ q.rows = {}
  BY NoHistoryCall DEF HistoryCall
<1>6. calls' = [calls EXCEPT ![c] = q]
  BY <1>1, Zenon
<1> HIDE DEF q
<1>7. CallRight(q, sigs, history, skipped)
  BY <1>5, CallOf, EmptyRight DEF CallRight
<1> QED BY <1>2, <1>3, <1>4, <1>6, <1>7, CallOf, OwnStepKeeps, Zenon

LEMMA GetSyncStateKeeps == ASSUME HistoryInv, NEW c \in HistoryCalls, GetSyncState(c) PROVE HistoryInv'
<1>1. PICK g \in {"create", "count", "backfill"} : calls' = [calls EXCEPT ![c].state = state, ![c].stage = g]
  BY DEF GetSyncState, Wanted
<1>2. UNCHANGED <<sigs, history, state, begun, skipped>> /\ calls[c].stage = "state"
  BY DEF GetSyncState
<1> DEFINE q == [calls[c] EXCEPT !.state = state, !.stage = g]
<1>3. /\ q \in HistoryCall /\ q.stage = g /\ q.state = state /\ q.rows = calls[c].rows
  <2>1. calls[c] \in HistoryCall /\ state \in SyncState /\ g \in HistoryStages
    BY CallOf DEF HistoryStages
  <2> QED BY <2>1 DEF HistoryCall
<1>4. calls' = [calls EXCEPT ![c] = q]
  BY <1>1
<1> HIDE DEF q
<1>5. CallRight(q, sigs, history, skipped)
  BY <1>3, CallOf DEF CallRight
<1> QED BY <1>2, <1>3, <1>4, <1>5, CallOf, OwnStepKeeps, Zenon

LEMMA CreateSyncStateKeeps == ASSUME HistoryInv, NEW c \in HistoryCalls, CreateSyncState(c) PROVE HistoryInv'
<1>1. CASE state.made
  BY <1>1, RequestEnds DEF CreateSyncState
<1>2. CASE ~state.made
  <2> DEFINE st == [NoState EXCEPT !.made = TRUE]
             g == Wanted(c)
             q == [calls[c] EXCEPT !.state = st, !.stage = g]
  <2>1. st \in SyncState /\ st.newest = Null /\ st.oldest = Null
    BY DEF NoState, SyncState, Null
  <2> HIDE DEF st
  <2>2. g \in {"count", "backfill"} /\ g \in HistoryStages
    BY DEF Wanted, HistoryStages
  <2>3. state' = st /\ calls' = [calls EXCEPT ![c].state = state', ![c].stage = g]
    BY <1>2, Zenon DEF CreateSyncState, st
  <2> HIDE DEF g
  <2>4. calls' = [calls EXCEPT ![c] = q]
    BY <2>3
  <2>8. q \in HistoryCall /\ q.stage = g /\ q.state = st /\ q.rows = calls[c].rows
    <3>1. calls[c] \in HistoryCall
      BY CallOf
    <3> QED BY <2>1, <2>2, <3>1 DEF HistoryCall
  <2> HIDE DEF q
  <2>5. UNCHANGED <<sigs, history, begun, skipped>>
    BY DEF CreateSyncState
  <2>6. WindowRight(st, sigs, history \cup skipped)
    <3>1. Len(sigs) \in Nat
      BY CallOf
    <3> QED BY <2>1, <3>1 DEF WindowRight, InWindow, Null
  <2>7. CallRight(q, sigs, history, skipped)
    BY <2>2, <2>6, <2>8, CallOf DEF CallRight
  <2> QED BY <2>1, <2>3, <2>4, <2>5, <2>6, <2>7, <2>8, CallOf, OwnStepKeeps, Zenon
<1> QED BY <1>1, <1>2, Zenon
(* A batch that covers its gap may be fetched.                             *)
LEMMA BatchStarts ==
  ASSUME HistoryInv, NEW c \in HistoryCalls, NEW B \in SUBSET Nat,
         calls' = [calls EXCEPT ![c].batch = B, ![c].stage = "details"],
         UNCHANGED <<sigs, history, state, begun>>,
         skipped \subseteq skipped', skipped' \subseteq DOMAIN sigs,
         Covers(calls[c].older, calls[c].state, B, sigs, skipped')
  PROVE  HistoryInv'
<1> DEFINE q == [calls[c] EXCEPT !.batch = B, !.stage = "details"]
<1>1. /\ q \in HistoryCall /\ q.stage = "details" /\ q.older = calls[c].older
      /\ q.state = calls[c].state /\ q.batch = B /\ q.rows = calls[c].rows
  <2>1. calls[c] \in HistoryCall /\ "details" \in HistoryStages
    BY CallOf DEF HistoryStages
  <2> QED BY <2>1 DEF HistoryCall
<1>2. calls' = [calls EXCEPT ![c] = q]
  OBVIOUS
<1> HIDE DEF q
<1>3. CallRight(calls[c], sigs, history, skipped')
  <2>1. Grows(sigs, sigs, history, history, skipped, skipped')
    <3>1. Len(sigs) \in Nat /\ sigs \in Seq(BOOLEAN)
      BY CallOf
    <3> QED BY <3>1 DEF Grows
  <2> QED BY <2>1, CallOf, CallStays, Zenon
<1>4. Covers(q.older, q.state, q.batch, sigs, skipped')
  BY <1>1, Zenon
<1>5. CallRight(q, sigs, history', skipped')
  <2>1. q.stage # "upsert" /\ q.stage \notin {"save", "write"}
    BY <1>1
  <2>2. WindowRight(q.state, sigs, history' \cup skipped') /\ q.rows \subseteq DOMAIN sigs
    BY <1>1, <1>3, Zenon DEF CallRight
  <2> QED BY <1>4, <2>1, <2>2, Zenon DEF CallRight
<1> QED BY <1>1, <1>2, <1>5, CallOf, OwnStepKeeps, Zenon

(* A request goes on without reading.                                      *)
LEMMA StageMoves ==
  ASSUME HistoryInv, NEW c \in HistoryCalls, NEW g \in {"backfill", "read"},
         calls' = [calls EXCEPT ![c].stage = g],
         UNCHANGED <<sigs, history, begun, skipped>>,
         state' = state \/ (state' \in SyncState /\ WindowRight(state', sigs, history' \cup skipped'))
  PROVE  HistoryInv'
<1> DEFINE q == [calls[c] EXCEPT !.stage = g]
<1>1. q \in HistoryCall /\ q.stage = g /\ q.state = calls[c].state /\ q.rows = calls[c].rows
  <2>1. calls[c] \in HistoryCall /\ g \in HistoryStages
    BY CallOf DEF HistoryStages
  <2> QED BY <2>1 DEF HistoryCall
<1>2. calls' = [calls EXCEPT ![c] = q]
  OBVIOUS
<1> HIDE DEF q
<1>3. CallRight(q, sigs, history', skipped')
  <2>1. CallRight(calls[c], sigs, history, skipped) /\ history' = history /\ skipped' = skipped
    BY CallOf
  <2>2. q.stage \notin {"details", "upsert", "save", "write"} /\ q.stage # "upsert" /\ q.stage \notin {"save", "write"}
    BY <1>1
  <2> QED BY <1>1, <2>1, <2>2, Zenon DEF CallRight
<1>4. /\ history \subseteq history' /\ history' \subseteq DOMAIN sigs /\ sigs' = sigs
      /\ skipped \subseteq skipped' /\ skipped' \subseteq DOMAIN sigs /\ begun' \in 0..MaxHistory
  BY CallOf, Zenon
<1> QED BY <1>1, <1>2, <1>3, <1>4, OwnStepKeeps, Zenon

LEMMA CountHistoryKeeps == ASSUME HistoryInv, NEW c \in HistoryCalls, CountHistory(c) PROVE HistoryInv'
<1>1. PICK g \in {"backfill", "read"} : calls' = [calls EXCEPT ![c].stage = g]
  BY DEF CountHistory
<1>2. UNCHANGED <<sigs, history, state, begun, skipped>>
  BY DEF CountHistory
<1> QED BY <1>1, <1>2, StageMoves, Zenon

(* Nothing to read: an empty batch.                                        *)
LEMMA EmptyBatch ==
  ASSUME HistoryInv, NEW c \in HistoryCalls, NEW g \in {"read", "save"},
         calls' = [calls EXCEPT ![c].batch = {}, ![c].stage = g],
         UNCHANGED <<sigs, history, state, begun, skipped>>
  PROVE  HistoryInv'
<1> DEFINE q == [calls[c] EXCEPT !.batch = {}, !.stage = g]
<1>1. q \in HistoryCall /\ q.stage = g /\ q.state = calls[c].state /\ q.rows = calls[c].rows /\ q.batch = {}
  <2>1. calls[c] \in HistoryCall /\ g \in HistoryStages /\ {} \in SUBSET Nat
    BY CallOf DEF HistoryStages
  <2> QED BY <2>1 DEF HistoryCall
<1>2. calls' = [calls EXCEPT ![c] = q]
  OBVIOUS
<1> HIDE DEF q
<1>3. CallRight(q, sigs, history', skipped')
  <2>1. CallRight(calls[c], sigs, history, skipped) /\ history' = history /\ skipped' = skipped
    BY CallOf
  <2>2. q.stage # "upsert"
    BY <1>1
  <2> QED BY <1>1, <2>1, <2>2, Zenon DEF CallRight
<1>4. /\ history \subseteq history' /\ history' \subseteq DOMAIN sigs /\ sigs' = sigs
      /\ skipped \subseteq skipped' /\ skipped' \subseteq DOMAIN sigs /\ begun' \in 0..MaxHistory
  BY CallOf, Zenon
<1> QED BY <1>1, <1>2, <1>3, <1>4, OwnStepKeeps, Zenon

LEMMA ReadLatestKeeps == ASSUME HistoryInv, NEW c \in HistoryCalls, ReadLatest(c) PROVE HistoryInv'
<1> DEFINE asksFor == {s \in DOMAIN sigs : s > calls[c].state.newest}
<1>1. /\ calls' = [calls EXCEPT ![c].batch = NewestOf(asksFor),
                                ![c].stage = IF asksFor = {} THEN "read" ELSE "details"]
      /\ skipped' = IF calls[c].state.newest = Null THEN skipped ELSE skipped \cup (asksFor \ NewestOf(asksFor))
      /\ UNCHANGED <<sigs, history, state, begun>>
  BY Zenon DEF ReadLatest
<1>2. calls[c].older = FALSE
  BY CallOf, HistoryFields, Zenon DEF ReadLatest
<1>3. calls[c].state \in SyncState /\ WindowRight(calls[c].state, sigs, history \cup skipped) /\ sigs \in Seq(BOOLEAN)
  BY CallOf, HistoryFields, Zenon DEF CallRight
<1>4. NewestOf(asksFor) \subseteq asksFor /\ asksFor \subseteq DOMAIN sigs
  BY DEF NewestOf
<1>5. skipped \subseteq skipped' /\ skipped' \subseteq DOMAIN sigs
  BY <1>1, <1>4, CallOf, Zenon
<1>6. NewestOf(asksFor) \in SUBSET Nat
  BY <1>3, <1>4
<1>7. CASE asksFor # {}
  <2>1. calls' = [calls EXCEPT ![c].batch = NewestOf(asksFor), ![c].stage = "details"]
    BY <1>1, <1>7, Zenon
  <2>2. calls[c].state.newest # Null => asksFor \ NewestOf(asksFor) \subseteq skipped'
    BY <1>1, Zenon
  <2> DEFINE st == calls[c].state
  <2>3. Covers(FALSE, st, NewestOf(asksFor), sigs, skipped')
    BY <1>3, <1>5, <1>7, <2>2, LatestCovers, Zenon
  <2>4. Covers(calls[c].older, calls[c].state, NewestOf(asksFor), sigs, skipped')
    BY <1>2, <2>3, Zenon
  <2> HIDE DEF asksFor
  <2> QED BY <1>1, <1>5, <1>6, <2>1, <2>4, BatchStarts, Zenon
<1>8. CASE asksFor = {}
  <2> HIDE DEF asksFor
  <2>1. NewestOf(asksFor) = {} /\ skipped' = skipped
    BY <1>1, <1>4, <1>8, Zenon
  <2>2. calls' = [calls EXCEPT ![c].batch = {}, ![c].stage = "read"]
    BY <1>1, <1>8, <2>1, Zenon
  <2> QED BY <1>1, <2>1, <2>2, EmptyBatch, Zenon
<1> QED BY <1>7, <1>8, Zenon

LEMMA ReadOlderKeeps == ASSUME HistoryInv, NEW c \in HistoryCalls, ReadOlder(c) PROVE HistoryInv'
<1> DEFINE st == calls[c].state
           before == IF st.oldest = Null THEN Len(sigs) + 1 ELSE st.oldest
           asksFor == {s \in DOMAIN sigs : s < before}
<1>1. /\ calls' = [calls EXCEPT ![c].batch = NewestOf(asksFor),
                                ![c].stage = IF asksFor = {} THEN "save" ELSE "details"]
      /\ UNCHANGED <<sigs, history, state, begun, skipped>>
  BY Zenon DEF ReadOlder
<1>2. calls[c].older = TRUE
  BY CallOf, HistoryFields, Zenon DEF ReadOlder
<1>3. st \in SyncState /\ WindowRight(st, sigs, history \cup skipped) /\ sigs \in Seq(BOOLEAN)
  BY CallOf, HistoryFields, Zenon DEF CallRight
<1>4. NewestOf(asksFor) \subseteq asksFor /\ asksFor \subseteq DOMAIN sigs
  BY DEF NewestOf
<1>5. NewestOf(asksFor) \in SUBSET Nat
  BY <1>3, <1>4
<1>6. skipped \subseteq skipped' /\ skipped' \subseteq DOMAIN sigs
  BY <1>1, CallOf, Zenon
<1>7. CASE asksFor # {}
  <2>1. Covers(TRUE, st, NewestOf(asksFor), sigs, skipped')
    BY <1>3, <1>7, OlderCovers, Zenon
  <2>2. Covers(calls[c].older, calls[c].state, NewestOf(asksFor), sigs, skipped')
    BY <1>2, <2>1, Zenon
  <2>3. calls' = [calls EXCEPT ![c].batch = NewestOf(asksFor), ![c].stage = "details"]
    BY <1>1, <1>7, Zenon
  <2> HIDE DEF asksFor
  <2> QED BY <1>1, <1>5, <1>6, <2>2, <2>3, BatchStarts, Zenon
<1>8. CASE asksFor = {}
  <2> HIDE DEF asksFor, before, st
  <2>1. NewestOf(asksFor) = {}
    BY <1>4, <1>8, Zenon
  <2>2. calls' = [calls EXCEPT ![c].batch = {}, ![c].stage = "save"]
    BY <1>1, <1>8, <2>1, Zenon
  <2> QED BY <1>1, <2>2, EmptyBatch, Zenon
<1> QED BY <1>7, <1>8, Zenon
LEMMA GetTransactionsKeeps == ASSUME HistoryInv, NEW c \in HistoryCalls, GetTransactions(c) PROVE HistoryInv'
<1> DEFINE k == calls[c]
<1>1. PICK missing \in {{}} \cup {{s} : s \in k.batch} :
        /\ calls' = [calls EXCEPT ![c].rows = {s \in k.batch \ missing : sigs[s]}, ![c].stage = "upsert"]
        /\ skipped' = skipped \cup missing
  BY Zenon DEF GetTransactions
<1>2. UNCHANGED <<sigs, history, state, begun>> /\ k.stage = "details"
  BY Zenon DEF GetTransactions
<1>3. k \in HistoryCall /\ CallRight(k, sigs, history, skipped) /\ sigs \in Seq(BOOLEAN)
  BY CallOf, Zenon
<1>4. k.batch \subseteq DOMAIN sigs
  BY <1>2, <1>3 DEF CallRight, Covers
<1> DEFINE R == {s \in k.batch \ missing : sigs[s]}
           q == [k EXCEPT !.rows = R, !.stage = "upsert"]
<1>5. missing \subseteq k.batch /\ R \subseteq k.batch /\ \A s \in k.batch : sigs[s] => s \in R \cup missing
  BY <1>1, Zenon
<1>6. calls' = [calls EXCEPT ![c].rows = R, ![c].stage = "upsert"]
  BY <1>1, Zenon
<1> HIDE DEF R
<1>7. calls' = [calls EXCEPT ![c] = q]
  BY <1>6
<1>8. /\ q \in HistoryCall /\ q.stage = "upsert" /\ q.older = k.older
      /\ q.state = k.state /\ q.batch = k.batch /\ q.rows = R
  <2>1. R \in SUBSET Nat /\ "upsert" \in HistoryStages
    BY <1>3, <1>4, <1>5 DEF HistoryStages
  <2> HIDE DEF k
  <2> QED BY <1>3, <2>1 DEF HistoryCall
<1> HIDE DEF q, k
<1>9. skipped \subseteq skipped' /\ skipped' \subseteq DOMAIN sigs
  BY <1>1, <1>4, <1>5, CallOf, Zenon
<1>10. CallRight(k, sigs, history, skipped')
  <2>1. Grows(sigs, sigs, history, history, skipped, skipped')
    BY <1>3, <1>9 DEF Grows
  <2> QED BY <1>3, <2>1, CallStays, Zenon
<1>11. CallRight(q, sigs, history', skipped')
  <2>1. WindowRight(q.state, sigs, history' \cup skipped')
    BY <1>2, <1>8, <1>10, Zenon DEF CallRight
  <2>2. q.batch # {} => Covers(q.older, q.state, q.batch, sigs, skipped')
    <3>1. k.batch # {} => Covers(k.older, k.state, k.batch, sigs, skipped')
      BY <1>2, <1>10 DEF CallRight
    <3> QED BY <1>8, <3>1, Zenon
  <2>3. \A s \in q.batch : sigs[s] => s \in q.rows \cup skipped'
    BY <1>1, <1>5, <1>8, Zenon
  <2>4. q.rows \subseteq DOMAIN sigs /\ q.stage \notin {"save", "write"}
    BY <1>4, <1>5, <1>8
  <2> QED BY <2>1, <2>2, <2>3, <2>4, Zenon DEF CallRight
<1> QED BY <1>2, <1>7, <1>8, <1>9, <1>11, CallOf, OwnStepKeeps, Zenon

LEMMA UpsertRecordsKeeps == ASSUME HistoryInv, NEW c \in HistoryCalls, UpsertRecords(c) PROVE HistoryInv'
<1> DEFINE k == calls[c]
           q == [k EXCEPT !.stage = "save"]
<1>1. /\ history' = history \cup k.rows /\ k.stage = "upsert"
      /\ calls' = [calls EXCEPT ![c].stage = "save"]
      /\ UNCHANGED <<sigs, state, begun, skipped>>
  BY Zenon DEF UpsertRecords
<1>2. k \in HistoryCall /\ CallRight(k, sigs, history, skipped) /\ sigs \in Seq(BOOLEAN)
  BY CallOf, Zenon
<1>3. calls' = [calls EXCEPT ![c] = q]
  BY <1>1
<1>4. /\ q \in HistoryCall /\ q.stage = "save" /\ q.older = k.older
      /\ q.state = k.state /\ q.batch = k.batch /\ q.rows = k.rows
  <2>1. "save" \in HistoryStages
    BY DEF HistoryStages
  <2> HIDE DEF k
  <2> QED BY <1>2, <2>1 DEF HistoryCall
<1> HIDE DEF q, k
<1>5. history \subseteq history' /\ history' \subseteq DOMAIN sigs
  <2>1. k.rows \subseteq DOMAIN sigs
    BY <1>2, Zenon DEF CallRight
  <2> QED BY <1>1, <2>1, CallOf, Zenon
<1>6. CallRight(k, sigs, history', skipped')
  <2>1. Grows(sigs, sigs, history, history', skipped, skipped')
    BY <1>1, <1>2, <1>5 DEF Grows
  <2> QED BY <1>2, <2>1, CallStays, Zenon
<1>7. CallRight(q, sigs, history', skipped')
  <2>1. WindowRight(q.state, sigs, history' \cup skipped') /\ q.rows \subseteq DOMAIN sigs
    BY <1>4, <1>6, Zenon DEF CallRight
  <2>2. q.batch # {} => Covers(q.older, q.state, q.batch, sigs, skipped')
    <3>1. k.batch # {} => Covers(k.older, k.state, k.batch, sigs, skipped')
      BY <1>1, <1>6 DEF CallRight
    <3> QED BY <1>4, <3>1, Zenon
  <2>3. \A s \in k.batch : sigs[s] => s \in k.rows \cup skipped
    BY <1>1, <1>2, Zenon DEF CallRight
  <2>4. \A s \in q.batch : sigs[s] => s \in history' \cup skipped'
    BY <1>1, <1>4, <2>3, Zenon
  <2>5. q.stage # "upsert"
    BY <1>4
  <2> QED BY <2>1, <2>2, <2>4, <2>5, Zenon DEF CallRight
<1> QED BY <1>1, <1>3, <1>4, <1>5, <1>7, CallOf, OwnStepKeeps, Zenon

(* The state that is written claims the caller's window and its batch,     *)
(* which are both done.                                                    *)
LEMMA NextStateRight ==
  ASSUME NEW c \in HistoryCalls, calls[c] \in HistoryCall, calls[c].batch # {}
  PROVE  LET k == calls[c] IN
         /\ NextState(c) \in [newest : {NextNewest(k.older, k.state, k.batch)}, 
                              oldest : {NextOldest(k.older, k.state, k.batch)},
                              reached : BOOLEAN, made : BOOLEAN]
<1> DEFINE k == calls[c]
           new == [newest : {NextNewest(k.older, k.state, k.batch)},
                   oldest : {NextOldest(k.older, k.state, k.batch)},
                   reached : BOOLEAN, made : BOOLEAN]
<1>1. k.state \in SyncState /\ k.older \in BOOLEAN
  BY HistoryFields
<1>2. CASE k.older
  <2> DEFINE high == IF k.state.newest = Null THEN Max(k.batch) ELSE k.state.newest
             low == Min(k.batch)
  <2>1. NextState(c) = [k.state EXCEPT !.newest = high, !.oldest = low, !.reached = FALSE]
    BY <1>2 DEF NextState
  <2>2. high = NextNewest(k.older, k.state, k.batch) /\ low = NextOldest(k.older, k.state, k.batch)
    BY <1>2, Zenon DEF NextNewest, NextOldest
  <2> HIDE DEF high, low, k
  <2>3. [k.state EXCEPT !.newest = high, !.oldest = low, !.reached = FALSE]
          \in [newest : {high}, oldest : {low}, reached : BOOLEAN, made : BOOLEAN]
    BY <1>1 DEF SyncState
  <2> QED BY <2>1, <2>2, <2>3, Zenon DEF k
<1>3. CASE ~k.older
  <2> DEFINE high == Max(k.batch)
             low == IF k.state.oldest = Null THEN Min(k.batch) ELSE k.state.oldest
  <2>1. NextState(c) = [k.state EXCEPT !.newest = high, !.oldest = low]
    BY <1>3 DEF NextState
  <2>2. high = NextNewest(k.older, k.state, k.batch) /\ low = NextOldest(k.older, k.state, k.batch)
    BY <1>3, Zenon DEF NextNewest, NextOldest
  <2> HIDE DEF high, low, k
  <2>3. [k.state EXCEPT !.newest = high, !.oldest = low]
          \in [newest : {high}, oldest : {low}, reached : BOOLEAN, made : BOOLEAN]
    BY <1>1 DEF SyncState
  <2> QED BY <2>1, <2>2, <2>3, Zenon DEF k
<1> QED BY <1>2, <1>3, Zenon

(* What is saved is right, and so is the row once its columns are written. *)
LEMMA NextStateKeeps ==
  ASSUME HistoryInv, NEW c \in HistoryCalls, calls[c].stage = "write"
  PROVE  NextState(c) \in SyncState /\ WindowRight(NextState(c), sigs, history \cup skipped)
<1>0. CASE calls[c].batch = {}
  <2> DEFINE st == calls[c].state
             new == [st EXCEPT !.reached = TRUE]
  <2>1. NextState(c) = new
    BY <1>0 DEF NextState
  <2>2. st \in SyncState /\ WindowRight(st, sigs, history \cup skipped)
    BY CallOf, HistoryFields, Zenon DEF CallRight
  <2> HIDE DEF st
  <2>3. new \in SyncState /\ new.newest = st.newest /\ new.oldest = st.oldest
    BY <2>2 DEF SyncState
  <2> HIDE DEF new
  <2>4. WindowRight(new, sigs, history \cup skipped)
    BY <2>2, <2>3, Zenon DEF WindowRight
  <2> QED BY <2>1, <2>3, <2>4, Zenon
<1>b. CASE calls[c].batch # {}
  <2> DEFINE k == calls[c]
             high == NextNewest(k.older, k.state, k.batch)
             low == NextOldest(k.older, k.state, k.batch)
  <2>1. k.stage = "write" /\ k.batch # {}
    BY <1>b
  <2>2. k \in HistoryCall /\ CallRight(k, sigs, history, skipped) /\ sigs \in Seq(BOOLEAN) /\ k.state \in SyncState
    BY CallOf, HistoryFields, Zenon
  <2>3. NextState(c) \in [newest : {high}, oldest : {low}, reached : BOOLEAN, made : BOOLEAN]
    BY <2>1, <2>2, NextStateRight, Zenon
  <2>4. Covers(k.older, k.state, k.batch, sigs, skipped) /\ WindowRight(k.state, sigs, history \cup skipped)
    BY <2>1, <2>2 DEF CallRight
  <2>5. high \in 1..Len(sigs) /\ low \in 1..Len(sigs)
    BY <2>2, <2>4, NextOnChain, Zenon
  <2>6. \A s \in k.batch : sigs[s] => s \in history \cup skipped
    BY <2>1, <2>2, Zenon DEF CallRight
  <2>7. PICK n \in [newest : {high}, oldest : {low}, reached : BOOLEAN, made : BOOLEAN] : n = NextState(c)
    BY <2>3, Zenon
  <2> HIDE DEF k
  <2>8. n.newest = high /\ n.oldest = low
    <3> HIDE DEF high, low
    <3> QED OBVIOUS
  <2>9. n \in SyncState
    <3> HIDE DEF high, low
    <3> QED BY <2>5 DEF SyncState
  <2>10. WindowRight(n, sigs, history \cup skipped)
    BY <2>2, <2>4, <2>6, <2>8, BatchIsClaimed, Zenon
  <2> QED BY <2>7, <2>9, <2>10, Zenon
<1> QED BY <1>0, <1>b

LEMMA SaveSyncStateKeeps == ASSUME HistoryInv, NEW c \in HistoryCalls, SaveSyncState(c) PROVE HistoryInv'
<1> DEFINE k == calls[c]
           q == [k EXCEPT !.row = state, !.stage = "write"]
<1>1. /\ k.stage = "save" /\ calls' = [calls EXCEPT ![c].row = state, ![c].stage = "write"]
      /\ UNCHANGED <<sigs, history, state, begun, skipped>>
  BY Zenon DEF SaveSyncState
<1>2. k \in HistoryCall /\ CallRight(k, sigs, history, skipped) /\ state \in SyncState /\ "write" \in HistoryStages
  BY CallOf DEF HistoryStages
<1>3. calls' = [calls EXCEPT ![c] = q]
  BY <1>1
<1> HIDE DEF k
<1>4. /\ q \in HistoryCall /\ q.stage = "write" /\ q.older = k.older
      /\ q.state = k.state /\ q.batch = k.batch /\ q.rows = k.rows
  BY <1>2 DEF HistoryCall
<1> HIDE DEF q
<1>5. k.batch # {} => Covers(k.older, k.state, k.batch, sigs, skipped)
  BY <1>1, <1>2 DEF CallRight
<1>6. \A s \in k.batch : sigs[s] => s \in history \cup skipped
  BY <1>1, <1>2 DEF CallRight
<1>7. q.stage # "upsert" /\ history' = history /\ skipped' = skipped
  BY <1>1, <1>4
<1>8. CallRight(q, sigs, history', skipped')
  BY <1>2, <1>4, <1>5, <1>6, <1>7, Zenon DEF CallRight
<1> QED BY <1>1, <1>3, <1>4, <1>8, CallOf, OwnStepKeeps, Zenon

(* With no other save since the row was selected, the columns that did not *)
(* differ are those of the saved state.                                    *)
LEMMA UpdateColumnsKeeps ==
  ASSUME HistoryInv, NEW c \in HistoryCalls, UpdateColumns(c), ~joined' PROVE HistoryInv'
<1>1. /\ calls[c].stage = "write" /\ calls' = [calls EXCEPT ![c].stage = "read"]
      /\ state' = Updated(c) /\ UNCHANGED <<sigs, history, begun, skipped>>
  BY DEF UpdateColumns
<1>2. state = calls[c].row
  BY Zenon DEF UpdateColumns
<1> DEFINE next == NextState(c)
<1>3. next \in SyncState /\ WindowRight(next, sigs, history \cup skipped)
  BY <1>1, NextStateKeeps
<1>4. state \in SyncState
  BY CallOf
<1>5. Updated(c) = [newest |-> next.newest, oldest |-> next.oldest, reached |-> next.reached, made |-> state.made]
  BY <1>2, Zenon DEF Updated
<1> HIDE DEF next
<1>6. PICK new : new = Updated(c)
  OBVIOUS
<1>7. new \in SyncState /\ new.newest = next.newest /\ new.oldest = next.oldest
  BY <1>3, <1>4, <1>5, <1>6 DEF SyncState
<1>8. WindowRight(new, sigs, history \cup skipped)
  BY <1>3, <1>7, Zenon DEF WindowRight
<1>9. state' \in SyncState /\ WindowRight(state', sigs, history' \cup skipped')
  BY <1>1, <1>6, <1>7, <1>8, Zenon
<1> QED BY <1>1, <1>9, StageMoves, Zenon

(* Until two saves join.                                                   *)
HistoryHolds == ~joined => HistoryInv

LEMMA HistoryHoldsStep == HistoryHolds /\ [StakingStep]_stakingVars => HistoryHolds'
<1> SUFFICES ASSUME HistoryHolds, [StakingStep]_stakingVars, ~joined' PROVE HistoryInv'
  BY DEF HistoryHolds
<1>1. ~joined
  BY Zenon DEF StakingStep, stakingVars, NewTransaction, GetHistory, GetSyncState, CreateSyncState, CountHistory,
               ReadLatest, ReadOlder, GetTransactions, Fails, UpsertRecords, SaveSyncState, UpdateColumns,
               ReadHistoryPage
<1>2. HistoryInv
  BY <1>1, Zenon DEF HistoryHolds
<1>3. CASE UNCHANGED stakingVars
  BY <1>2, <1>3 DEF stakingVars, HistoryInv, HistoryTables
<1>4. CASE NewTransaction
  BY <1>2, <1>4, NewTransactionKeeps
<1>5. ASSUME NEW c \in HistoryCalls, Fails(c) \/ ReadHistoryPage(c) PROVE HistoryInv'
  BY <1>2, <1>5, RequestEnds, Zenon DEF Fails, ReadHistoryPage
<1> QED
  BY <1>2, <1>3, <1>4, <1>5, GetHistoryKeeps, GetSyncStateKeeps, CreateSyncStateKeeps, CountHistoryKeeps, ReadLatestKeeps,
     ReadOlderKeeps, GetTransactionsKeeps, UpsertRecordsKeeps, SaveSyncStateKeeps, UpdateColumnsKeeps, Zenon
  DEF StakingStep

StakingSpec == StakingInit /\ [][StakingStep]_stakingVars

LEMMA HistoryHoldsAlways == StakingSpec => []HistoryHolds
<1>1. StakingInit => HistoryHolds
  BY HistoryInit0 DEF HistoryHolds
<1> QED BY <1>1, HistoryHoldsStep, PTL DEF StakingSpec

-------------------------------------------------------------------------------
(* The types, joined or not.                                               *)
BoundedSync == [newest : 0..MaxSigs, oldest : 0..MaxSigs, reached : BOOLEAN, made : BOOLEAN]
BoundedCall == [stage : HistoryStages, older : BOOLEAN, state : BoundedSync,
                batch : SUBSET (1..MaxSigs), rows : SUBSET (1..MaxSigs), row : BoundedSync]

HistoryTyped ==
  /\ sigs \in Seq(BOOLEAN) /\ Len(sigs) <= MaxSigs
  /\ history \cup skipped \subseteq 1..MaxSigs
  /\ begun \in 0..MaxHistory
  /\ state \in BoundedSync
  /\ calls \in [HistoryCalls -> BoundedCall]

JoinedTyped == joined \in BOOLEAN

LEMMA NobodyTyped == NoState \in BoundedSync /\ NoCall \in BoundedCall
<1>1. NoState \in BoundedSync
  BY HistoryAssumption DEF NoState, BoundedSync, Null
<1> QED BY <1>1 DEF NoCall, BoundedCall, HistoryStages

(* A request of that type takes the place of another.                      *)
LEMMA CallTyped ==
  ASSUME HistoryTyped, NEW c \in HistoryCalls, NEW q \in BoundedCall, calls' = [calls EXCEPT ![c] = q],
         UNCHANGED sigs, history' \cup skipped' \subseteq 1..MaxSigs, begun' \in 0..MaxHistory,
         state' \in BoundedSync
  PROVE  HistoryTyped'
BY DEF HistoryTyped

LEMMA NextTyped ==
  ASSUME HistoryTyped, NEW c \in HistoryCalls PROVE NextState(c) \in BoundedSync
<1> DEFINE st == calls[c].state
           B == calls[c].batch
<1>1. st \in BoundedSync /\ B \in SUBSET (1..MaxSigs) /\ MaxSigs \in Nat
  BY HistoryAssumption DEF HistoryTyped, BoundedCall
<1>2. CASE B = {}
  <2>1. NextState(c) = [st EXCEPT !.reached = TRUE]
    BY <1>2 DEF NextState
  <2> HIDE DEF st
  <2> QED BY <1>1, <2>1 DEF BoundedSync
<1>3. CASE B # {}
  <2> DEFINE high == Max(B)
             low == Min(B)
  <2>1. Max(B) \in B /\ Min(B) \in B
    BY <1>1, <1>3, MaxMinIn
  <2>2. high \in 0..MaxSigs /\ low \in 0..MaxSigs
    BY <1>1, <2>1
  <2>3. NextState(c) = IF calls[c].older
                       THEN [st EXCEPT !.newest = IF @ = Null THEN high ELSE @, !.oldest = low, !.reached = FALSE]
                       ELSE [st EXCEPT !.newest = high, !.oldest = IF @ = Null THEN low ELSE @]
    BY <1>3 DEF NextState
  <2> HIDE DEF st, high, low
  <2>4. /\ [st EXCEPT !.newest = IF @ = Null THEN high ELSE @, !.oldest = low, !.reached = FALSE] \in BoundedSync
        /\ [st EXCEPT !.newest = high, !.oldest = IF @ = Null THEN low ELSE @] \in BoundedSync
    BY <1>1, <2>2 DEF BoundedSync
  <2> QED BY <2>3, <2>4
<1> QED BY <1>2, <1>3

LEMMA HistoryTypedStep == HistoryTyped /\ [StakingStep]_stakingVars => HistoryTyped'
<1> SUFFICES ASSUME HistoryTyped, [StakingStep]_stakingVars PROVE HistoryTyped'
  OBVIOUS
<1>a. \A c \in HistoryCalls : calls[c] \in BoundedCall
  BY DEF HistoryTyped
<1>b. \A S \in SUBSET (1..MaxSigs) : NewestOf(S) \in SUBSET (1..MaxSigs)
  BY DEF NewestOf
<1>c. DOMAIN sigs \subseteq 1..MaxSigs
  BY HistoryAssumption DEF HistoryTyped
<1>1. CASE UNCHANGED stakingVars
  BY <1>1 DEF stakingVars, HistoryTyped
<1>2. CASE NewTransaction
  <2>1. PICK b \in BOOLEAN : sigs' = Append(sigs, b)
    BY <1>2 DEF NewTransaction
  <2>2. Len(sigs) < MaxSigs /\ UNCHANGED <<history, state, calls, begun, skipped>>
    BY <1>2 DEF NewTransaction
  <2> QED BY <2>1, <2>2, HistoryAssumption DEF HistoryTyped
<1>3. ASSUME NEW c \in HistoryCalls, Fails(c) \/ ReadHistoryPage(c) PROVE HistoryTyped'
  BY <1>3, NobodyTyped, CallTyped DEF Fails, ReadHistoryPage, HistoryTyped
<1>4. ASSUME NEW c \in HistoryCalls, GetHistory(c) PROVE HistoryTyped'
  <2>1. PICK older \in BOOLEAN : calls' = [calls EXCEPT ![c] = [NoCall EXCEPT !.stage = "state", !.older = older]]
    BY <1>4 DEF GetHistory
  <2>2. [NoCall EXCEPT !.stage = "state", !.older = older] \in BoundedCall
    BY NobodyTyped DEF BoundedCall, HistoryStages
  <2>3. begun' \in 0..MaxHistory /\ UNCHANGED <<sigs, history, state, skipped>>
    BY <1>4, HistoryAssumption DEF GetHistory, HistoryTyped
  <2> QED BY <2>1, <2>2, <2>3, CallTyped DEF HistoryTyped
<1>5. ASSUME NEW c \in HistoryCalls, GetSyncState(c) PROVE HistoryTyped'
  <2>1. PICK g \in {"create", "count", "backfill"} : calls' = [calls EXCEPT ![c].state = state, ![c].stage = g]
    BY <1>5 DEF GetSyncState, Wanted
  <2>2. [calls[c] EXCEPT !.state = state, !.stage = g] \in BoundedCall
    BY <1>a DEF BoundedCall, HistoryStages, HistoryTyped
  <2>3. UNCHANGED <<sigs, history, state, begun, skipped>>
    BY <1>5 DEF GetSyncState
  <2> QED BY <2>1, <2>2, <2>3 DEF HistoryTyped
<1>6. ASSUME NEW c \in HistoryCalls, CreateSyncState(c) PROVE HistoryTyped'
  <2>1. CASE state.made
    BY <1>6, <2>1, NobodyTyped, CallTyped DEF CreateSyncState, HistoryTyped
  <2>2. CASE ~state.made
    <3>1. state' \in BoundedSync
      BY <1>6, <2>2, NobodyTyped DEF CreateSyncState, BoundedSync
    <3>2. PICK g \in {"count", "backfill"} : calls' = [calls EXCEPT ![c].state = state', ![c].stage = g]
      BY <1>6, <2>2, Zenon DEF CreateSyncState, Wanted
    <3>3. [calls[c] EXCEPT !.state = state', !.stage = g] \in BoundedCall
      BY <1>a, <3>1 DEF BoundedCall, HistoryStages
    <3>4. UNCHANGED <<sigs, history, begun, skipped>>
      BY <1>6 DEF CreateSyncState
    <3> QED BY <3>1, <3>2, <3>3, <3>4 DEF HistoryTyped
  <2> QED BY <2>1, <2>2
<1>7. ASSUME NEW c \in HistoryCalls, NEW g \in HistoryStages, calls' = [calls EXCEPT ![c].stage = g],
             UNCHANGED sigs, history' \cup skipped' \subseteq 1..MaxSigs, begun' = begun, state' \in BoundedSync
      PROVE  HistoryTyped'
  <2>1. [calls[c] EXCEPT !.stage = g] \in BoundedCall
    BY <1>a DEF BoundedCall
  <2> QED BY <1>7, <2>1 DEF HistoryTyped
<1>8. ASSUME NEW c \in HistoryCalls, CountHistory(c) PROVE HistoryTyped'
  <2>1. PICK g \in {"read", "backfill"} : calls' = [calls EXCEPT ![c].stage = g]
    BY <1>8 DEF CountHistory
  <2>2. g \in HistoryStages /\ UNCHANGED <<sigs, history, state, begun, skipped>>
    BY <1>8 DEF CountHistory, HistoryStages
  <2> QED BY <1>7, <2>1, <2>2 DEF HistoryTyped
<1>9. ASSUME NEW c \in HistoryCalls, NEW B \in SUBSET (1..MaxSigs), NEW g \in HistoryStages,
             calls' = [calls EXCEPT ![c].batch = B, ![c].stage = g],
             UNCHANGED <<sigs, history, begun, state>>, skipped' \subseteq 1..MaxSigs
      PROVE  HistoryTyped'
  <2>1. [calls[c] EXCEPT !.batch = B, !.stage = g] \in BoundedCall
    BY <1>a DEF BoundedCall
  <2> QED BY <1>9, <2>1 DEF HistoryTyped
<1>10. ASSUME NEW c \in HistoryCalls, ReadLatest(c) PROVE HistoryTyped'
  <2> DEFINE asksFor == {s \in DOMAIN sigs : s > calls[c].state.newest}
  <2>1. asksFor \in SUBSET (1..MaxSigs) /\ NewestOf(asksFor) \in SUBSET (1..MaxSigs)
    BY <1>b, <1>c
  <2>2. PICK g \in {"read", "details"} : calls' = [calls EXCEPT ![c].batch = NewestOf(asksFor), ![c].stage = g]
    BY <1>10 DEF ReadLatest
  <2>3. skipped' = skipped \/ skipped' = skipped \cup (asksFor \ NewestOf(asksFor))
    BY <1>10 DEF ReadLatest
  <2>4. g \in HistoryStages /\ UNCHANGED <<sigs, history, begun, state>>
    BY <1>10 DEF ReadLatest, HistoryStages
  <2> HIDE DEF asksFor
  <2>5. skipped' \subseteq 1..MaxSigs
    BY <2>1, <2>3 DEF HistoryTyped
  <2> QED BY <1>9, <2>1, <2>2, <2>4, <2>5
<1>11. ASSUME NEW c \in HistoryCalls, ReadOlder(c) PROVE HistoryTyped'
  <2> DEFINE before == IF calls[c].state.oldest = Null THEN Len(sigs) + 1 ELSE calls[c].state.oldest
             asksFor == {s \in DOMAIN sigs : s < before}
  <2>1. NewestOf(asksFor) \in SUBSET (1..MaxSigs)
    BY <1>b, <1>c
  <2>2. PICK g \in {"save", "details"} : calls' = [calls EXCEPT ![c].batch = NewestOf(asksFor), ![c].stage = g]
    BY <1>11 DEF ReadOlder
  <2>3. g \in HistoryStages /\ UNCHANGED <<sigs, history, begun, state, skipped>>
    BY <1>11 DEF ReadOlder, HistoryStages
  <2> HIDE DEF asksFor
  <2>4. skipped' \subseteq 1..MaxSigs
    BY <2>3 DEF HistoryTyped
  <2> QED BY <1>9, <2>1, <2>2, <2>3, <2>4
<1>12. ASSUME NEW c \in HistoryCalls, GetTransactions(c) PROVE HistoryTyped'
  <2> DEFINE B == calls[c].batch
  <2>1. B \in SUBSET (1..MaxSigs)
    BY <1>a DEF BoundedCall
  <2>2. PICK missing \in {{}} \cup {{s} : s \in B} :
          /\ calls' = [calls EXCEPT ![c].rows = {s \in B \ missing : sigs[s]}, ![c].stage = "upsert"]
          /\ skipped' = skipped \cup missing
    BY <1>12 DEF GetTransactions
  <2>3. UNCHANGED <<sigs, history, state, begun>>
    BY <1>12 DEF GetTransactions
  <2> DEFINE R == {s \in B \ missing : sigs[s]}
  <2>4. R \in SUBSET (1..MaxSigs) /\ missing \in SUBSET (1..MaxSigs)
    BY <2>1
  <2>5. calls' = [calls EXCEPT ![c].rows = R, ![c].stage = "upsert"]
    BY <2>2
  <2> HIDE DEF R
  <2>6. [calls[c] EXCEPT !.rows = R, !.stage = "upsert"] \in BoundedCall
    BY <1>a, <2>4 DEF BoundedCall, HistoryStages
  <2> QED BY <2>2, <2>3, <2>4, <2>5, <2>6 DEF HistoryTyped
<1>13. ASSUME NEW c \in HistoryCalls, UpsertRecords(c) PROVE HistoryTyped'
  <2>1. calls[c].rows \in SUBSET (1..MaxSigs) /\ "save" \in HistoryStages
    BY <1>a DEF BoundedCall, HistoryStages
  <2>2. history' = history \cup calls[c].rows /\ UNCHANGED <<sigs, state, begun, skipped>>
        /\ calls' = [calls EXCEPT ![c].stage = "save"]
    BY <1>13 DEF UpsertRecords
  <2> QED BY <1>7, <2>1, <2>2 DEF HistoryTyped
<1>14. ASSUME NEW c \in HistoryCalls, SaveSyncState(c) PROVE HistoryTyped'
  <2>1. [calls[c] EXCEPT !.row = state, !.stage = "write"] \in BoundedCall
    BY <1>a DEF BoundedCall, HistoryStages, HistoryTyped
  <2>2. calls' = [calls EXCEPT ![c].row = state, ![c].stage = "write"] /\ UNCHANGED <<sigs, history, state, begun, skipped>>
    BY <1>14 DEF SaveSyncState
  <2> QED BY <2>1, <2>2 DEF HistoryTyped
<1>15. ASSUME NEW c \in HistoryCalls, UpdateColumns(c) PROVE HistoryTyped'
  <2> DEFINE next == NextState(c)
             row == calls[c].row
  <2>1. next \in BoundedSync /\ row \in BoundedSync /\ state \in BoundedSync
    BY <1>a, NextTyped DEF BoundedCall, HistoryTyped
  <2>2. Updated(c) = [newest  |-> IF row.newest # next.newest THEN next.newest ELSE state.newest,
                      oldest  |-> IF row.oldest # next.oldest THEN next.oldest ELSE state.oldest,
                      reached |-> IF row.reached # next.reached THEN next.reached ELSE state.reached,
                      made    |-> state.made]
    BY DEF Updated
  <2> HIDE DEF next, row
  <2>3. Updated(c) \in BoundedSync
    BY <2>1, <2>2 DEF BoundedSync
  <2>4. "read" \in HistoryStages /\ calls' = [calls EXCEPT ![c].stage = "read"] /\ state' = Updated(c)
        /\ UNCHANGED <<sigs, history, begun, skipped>>
    BY <1>15 DEF UpdateColumns, HistoryStages
  <2> QED BY <1>7, <2>3, <2>4 DEF HistoryTyped
<1> QED
  BY <1>1, <1>2, <1>3, <1>4, <1>5, <1>6, <1>8, <1>10, <1>11, <1>12, <1>13, <1>14, <1>15, Zenon DEF StakingStep

LEMMA JoinedTypedStep == JoinedTyped /\ [StakingStep]_stakingVars => JoinedTyped'
BY Zenon DEF JoinedTyped, StakingStep, stakingVars, NewTransaction, GetHistory, GetSyncState, CreateSyncState,
             CountHistory, ReadLatest, ReadOlder, GetTransactions, Fails, UpsertRecords, SaveSyncState,
             UpdateColumns, ReadHistoryPage

(* The signatures, the stored rows and the calls that sync the staking     *)
(* history of a wallet have their types.                                   *)
THEOREM StakingTypes == StakingSpec => []StakingTypeOK
<1>1. StakingInit => HistoryTyped /\ JoinedTyped
  <2> SUFFICES ASSUME StakingInit PROVE HistoryTyped /\ JoinedTyped
    OBVIOUS
  <2>1. PICK n \in {0, 2} : sigs = [i \in 1..n |-> TRUE]
    BY DEF StakingInit
  <2>2. sigs \in Seq(BOOLEAN) /\ Len(sigs) <= MaxSigs
    BY <2>1, HistoryAssumption
  <2>3. /\ history = {} /\ state = NoState /\ calls = [c \in HistoryCalls |-> NoCall] /\ begun = 0 /\ skipped = {}
        /\ joined = FALSE
    BY DEF StakingInit
  <2>4. HistoryTyped
    BY <2>2, <2>3, NobodyTyped, HistoryAssumption DEF HistoryTyped
  <2> QED BY <2>3, <2>4 DEF JoinedTyped
<1>2. HistoryTyped /\ JoinedTyped => StakingTypeOK
  <2> SUFFICES ASSUME HistoryTyped, JoinedTyped PROVE StakingTypeOK
    OBVIOUS
  <2>1. state.newest \in 0..MaxSigs /\ state.oldest \in 0..MaxSigs
    BY DEF HistoryTyped, BoundedSync
  <2>2. \A c \in HistoryCalls : calls[c].stage \in HistoryStages
    BY DEF HistoryTyped, BoundedCall
  <2> QED BY <2>1, <2>2, Zenon DEF HistoryTyped, JoinedTyped, HistoryStages, StakingTypeOK
<1> QED BY <1>1, <1>2, HistoryTypedStep, JoinedTypedStep, PTL DEF StakingSpec

(* Inside the window of the sync state every transaction of the staking    *)
(* program is stored or was passed over by its batch, for any number of    *)
(* overlapping requests, batch size and signatures, unless a save wrote    *)
(* between the two statements of another.                                  *)
THEOREM WindowIsAlwaysStored == StakingSpec => []WindowIsStored
<1>1. HistoryHolds => WindowIsStored
  <2> SUFFICES ASSUME HistoryInv, NEW s \in DOMAIN sigs, sigs[s], state.oldest # Null,
                      s \in state.oldest..state.newest
               PROVE  s \in history \cup skipped
    BY DEF WindowIsStored, HistoryHolds
  <2>1. InWindow(s, state.oldest, state.newest)
    BY DEF InWindow
  <2> QED BY <2>1 DEF HistoryInv, WindowRight
<1> QED BY <1>1, HistoryHoldsAlways, PTL

(***************************************************************************)
(* StakingActions.  A stake on the chain is on one page of the positions,  *)
(* for any pools, amounts, pages and number of transactions, executed in   *)
(* any order and however late.                                             *)
(***************************************************************************)
ActionsSpec == ActionsInit /\ [][ActionsStep]_actionVars

StakeAddress == {"none", "native", "unstk"} \X Nat
StakeAccount == [activation : 0..MaxEpoch, deactivation : 0..Never, lamports : Int]

(* A transaction that opens an account has its row, which is never gone.   *)
TxOK(tx, b, R) ==
  /\ tx.amount \in Nat /\ tx.block \in Nat /\ tx.block <= b
  /\ tx.kind \in {"fallback", "native"} => tx.address \in R

PoolOK == pool \in [total : Nat, supply : Nat, available : Int]
BoundsOK == epoch \in 1..MaxEpoch /\ block \in 1..MaxBlock /\ builds \in 0..MaxBuilds
RowsOK == rows \in Seq(StakeAddress) /\ IsInjective(rows)
StakesOK ==
  /\ DOMAIN stakes \subseteq Range(rows)
  /\ \A a \in DOMAIN stakes : stakes[a] \in StakeAccount
BuiltOK == \A tx \in built : TxOK(tx, block, Range(rows))

ActionsInv == PoolOK /\ BoundsOK /\ RowsOK /\ StakesOK /\ BuiltOK

(***************************************************************************)
(* Arithmetic                                                              *)
(***************************************************************************)
LEMMA Division ==
  ASSUME NEW a \in Nat, NEW p \in Nat \ {0}
  PROVE  a \div p \in Nat /\ p * (a \div p) <= a /\ a < p * (a \div p) + p
OBVIOUS

LEMMA Multiply ==
  ASSUME NEW a \in Nat, NEW b \in Nat, NEW p \in Nat, a <= b
  PROVE  a * p \in Nat /\ b * p \in Nat /\ a * p <= b * p
OBVIOUS

(* A part of a whole is worth no more than the whole.                      *)
LEMMA PartOfWhole ==
  ASSUME NEW t \in Nat, NEW s \in Nat \ {0}, NEW w \in Nat, t <= s
  PROVE  (t * w) \div s \in Nat /\ (t * w) \div s <= w
<1>1. t * w \in Nat /\ s * w \in Nat /\ t * w <= s * w
  BY Multiply
<1>2. (t * w) \div s \in Nat /\ s * ((t * w) \div s) <= t * w
  BY <1>1, Division
<1>3. PICK q \in Nat : q = (t * w) \div s
  BY <1>2
<1>4. s * q <= s * w
  BY <1>1, <1>2, <1>3
<1>5. ASSUME q > w PROVE FALSE
  <2>1. s * (w + 1) <= s * q
    BY <1>5
  <2> QED BY <2>1, <1>4
<1> QED BY <1>3, <1>5

LEMMA PoolAmounts ==
  ASSUME PoolOK, NEW n \in Nat
  PROVE  /\ LamportsToPoolTokens(n) \in Nat /\ PoolTokensToLamports(n) \in Nat
         /\ n <= pool.supply => PoolTokensToLamports(n) <= pool.total
<1>1. pool.total \in Nat /\ pool.supply \in Nat
  BY DEF PoolOK
<1>2. LamportsToPoolTokens(n) \in Nat
  <2>1. n * pool.supply \in Nat
    BY <1>1
  <2>2. pool.total # 0 => (n * pool.supply) \div pool.total \in Nat
    BY <1>1, <2>1, Division
  <2> QED BY <2>2 DEF LamportsToPoolTokens
<1>3. PoolTokensToLamports(n) \in Nat
  <2>1. n * pool.total \in Nat
    BY <1>1
  <2>2. pool.supply # 0 => (n * pool.total) \div pool.supply \in Nat
    BY <1>1, <2>1, Division
  <2> QED BY <2>2 DEF PoolTokensToLamports
<1>4. ASSUME n <= pool.supply PROVE PoolTokensToLamports(n) <= pool.total
  <2>1. pool.supply # 0 => (n * pool.total) \div pool.supply <= pool.total
    BY <1>1, <1>4, PartOfWhole
  <2> QED BY <1>1, <2>1 DEF PoolTokensToLamports
<1> QED BY <1>2, <1>3, <1>4

(***************************************************************************)
(* The invariant                                                           *)
(***************************************************************************)
LEMMA ActionsInitInv == ActionsInit => ActionsInv
<1> SUFFICES ASSUME ActionsInit PROVE ActionsInv
  OBVIOUS
<1>1. PoolOK /\ BoundsOK /\ BuiltOK
  BY ActionsAssumption DEF ActionsInit, PoolOK, BoundsOK, BuiltOK
<1>2. RowsOK
  BY DEF ActionsInit, RowsOK, IsInjective
<1>3. StakesOK
  BY DEF ActionsInit, StakesOK, None
<1> QED BY <1>1, <1>2, <1>3 DEF ActionsInv

(* A transaction is built and no row is written.                           *)
LEMMA BuildKeeps ==
  ASSUME ActionsInv, NEW tx, Build(tx), TxOK(tx, block, Range(rows)),
         UNCHANGED <<pool, validators, epoch, block, rows, stakes>>
  PROVE  ActionsInv'
<1>1. BuiltOK'
  BY DEF ActionsInv, BuiltOK, Build
<1>2. BoundsOK'
  BY ActionsAssumption DEF ActionsInv, BoundsOK, Build
<1> QED BY <1>1, <1>2 DEF ActionsInv, PoolOK, RowsOK, StakesOK

(* A transaction is built and its row is written before.                   *)
LEMMA TrackKeeps ==
  ASSUME ActionsInv, NEW tx, NEW a \in StakeAddress, Build(tx), Track(a),
         TxOK(tx, block, {a}), UNCHANGED <<pool, validators, epoch, block, stakes>>
  PROVE  ActionsInv'
<1>1. /\ rows \in Seq(StakeAddress) /\ IsInjective(rows)
      /\ a \notin Range(rows) /\ rows' = Append(rows, a)
  BY DEF ActionsInv, RowsOK, Track
<1>2. rows' \in Seq(StakeAddress)
  BY <1>1
<1>3. /\ DOMAIN rows' = 1..Len(rows) + 1
      /\ \A i \in 1..Len(rows) : rows'[i] = rows[i]
      /\ rows'[Len(rows) + 1] = a
      /\ DOMAIN rows = 1..Len(rows) /\ Len(rows) \in Nat
  BY <1>1
<1>4. IsInjective(rows')
  <2>1. \A i \in 1..Len(rows) : rows[i] # a
    BY <1>1, <1>3 DEF Range
  <2> SUFFICES ASSUME NEW i \in DOMAIN rows', NEW j \in DOMAIN rows', rows'[i] = rows'[j]
               PROVE  i = j
    BY DEF IsInjective
  <2>2. CASE i \in 1..Len(rows) /\ j \in 1..Len(rows)
    BY <1>1, <1>3, <2>2 DEF IsInjective
  <2>3. CASE i = Len(rows) + 1 /\ j \in 1..Len(rows)
    BY <1>3, <2>1, <2>3
  <2>4. CASE i \in 1..Len(rows) /\ j = Len(rows) + 1
    BY <1>3, <2>1, <2>4
  <2> QED BY <1>3, <2>2, <2>3, <2>4
<1>5. Range(rows') = Range(rows) \cup {a}
  BY <1>3 DEF Range
<1>6. RowsOK'
  BY <1>2, <1>4 DEF RowsOK
<1>7. StakesOK'
  BY <1>5 DEF ActionsInv, StakesOK
<1>8. BuiltOK'
  BY <1>5 DEF ActionsInv, BuiltOK, Build, TxOK
<1>9. BoundsOK'
  BY ActionsAssumption DEF ActionsInv, BoundsOK, Build
<1> QED BY <1>6, <1>7, <1>8, <1>9 DEF ActionsInv, PoolOK

LEMMA BuildStepKeeps ==
  ASSUME ActionsInv,
         \/ BuildStake \/ BuildUnstake \/ BuildFallback \/ BuildNativeStake
         \/ BuildUnstakeNative \/ BuildWithdraw
  PROVE  ActionsInv'
<1>0. block \in Nat /\ builds \in Nat /\ PoolOK
  BY DEF ActionsInv, BoundsOK
<1>1. CASE BuildStake
  <2>1. PICK amount \in Lamports : Build(Tx("stake", NoAddress, amount, 0))
    BY <1>1 DEF BuildStake
  <2>2. TxOK(Tx("stake", NoAddress, amount, 0), block, Range(rows))
    BY <1>0, ActionsAssumption DEF TxOK, Tx
  <2> QED BY <1>1, <2>1, <2>2, BuildKeeps DEF BuildStake
<1>2. CASE BuildUnstake
  <2>1. PICK amount \in Lamports : Build(Tx("unstake", NoAddress, LamportsToPoolTokens(amount), 0))
    BY <1>2 DEF BuildUnstake
  <2>2. LamportsToPoolTokens(amount) \in Nat
    BY <1>0, ActionsAssumption, PoolAmounts
  <2>3. TxOK(Tx("unstake", NoAddress, LamportsToPoolTokens(amount), 0), block, Range(rows))
    BY <1>0, <2>2 DEF TxOK, Tx
  <2> QED BY <1>2, <2>1, <2>3, BuildKeeps DEF BuildUnstake
<1>3. CASE BuildFallback
  <2>1. PICK amount \in Lamports :
          LET tokens == LamportsToPoolTokens(amount)
          IN  /\ tokens > 0 /\ amount > pool.available /\ pool.available >= 0 /\ WithdrawableFrom # {}
              /\ Build(Tx("fallback", Destination, tokens, SelectFallbackValidator(tokens)))
              /\ Track(Destination)
    BY <1>3, Zenon DEF BuildFallback
  <2> DEFINE tokens == LamportsToPoolTokens(amount)
             tx == Tx("fallback", Destination, tokens, SelectFallbackValidator(tokens))
  <2>2. Build(tx) /\ Track(Destination)
    BY <2>1, Zenon
  <2>3. tokens \in Nat
    BY <1>0, ActionsAssumption, PoolAmounts
  <2>4. TxOK(tx, block, {Destination})
    BY <1>0, <2>3 DEF TxOK, Tx
  <2>5. Destination \in StakeAddress
    BY <1>0 DEF Destination, StakeAddress
  <2> HIDE DEF tx
  <2> QED BY <1>3, <2>2, <2>4, <2>5, TrackKeeps DEF BuildFallback
<1>4. CASE BuildNativeStake
  <2>1. PICK amount \in Lamports :
          Build(Tx("native", <<"native", builds>>, amount, 0)) /\ Track(<<"native", builds>>)
    BY <1>4 DEF BuildNativeStake
  <2>2. TxOK(Tx("native", <<"native", builds>>, amount, 0), block, {<<"native", builds>>})
    BY <1>0, ActionsAssumption DEF TxOK, Tx
  <2>3. <<"native", builds>> \in StakeAddress
    BY <1>0 DEF StakeAddress
  <2> QED BY <1>4, <2>1, <2>2, <2>3, TrackKeeps DEF BuildNativeStake
<1>5. CASE BuildUnstakeNative
  <2>1. PICK a \in Range(rows) : Build(Tx("deactivate", a, 0, 0))
    BY <1>5 DEF BuildUnstakeNative
  <2>2. TxOK(Tx("deactivate", a, 0, 0), block, Range(rows))
    BY <1>0 DEF TxOK, Tx
  <2> QED BY <1>5, <2>1, <2>2, BuildKeeps DEF BuildUnstakeNative
<1>6. CASE BuildWithdraw
  <2>1. PICK a \in DOMAIN stakes : \E amount \in Lamports \cup {stakes[a].lamports} :
          amount > 0 /\ Build(Tx("withdraw", a, amount, 0))
    BY <1>6 DEF BuildWithdraw
  <2>2. PICK amount \in Lamports \cup {stakes[a].lamports} : amount > 0 /\ Build(Tx("withdraw", a, amount, 0))
    BY <2>1
  <2>3. amount \in Nat
    <3>1. stakes[a].lamports \in Int
      BY DEF ActionsInv, StakesOK, StakeAccount
    <3> QED BY <2>2, <3>1, ActionsAssumption
  <2>4. TxOK(Tx("withdraw", a, amount, 0), block, Range(rows))
    BY <1>0, <2>3 DEF TxOK, Tx
  <2> QED BY <1>6, <2>2, <2>4, BuildKeeps DEF BuildWithdraw
<1> QED BY <1>1, <1>2, <1>3, <1>4, <1>5, <1>6

(* The program opens only accounts that have a row and never spends more   *)
(* than the pool has.                                                      *)
LEMMA OpenedOK ==
  ASSUME StakesOK, NEW a \in Range(rows), NEW opened \in StakeAccount,
         stakes' = Opened(a, opened), rows' = rows
  PROVE  StakesOK'
BY DEF StakesOK, Opened

LEMMA ExecuteOK ==
  ASSUME ActionsInv, NEW tx \in built, Executes(tx), rows' = rows
  PROVE  PoolOK' /\ StakesOK'
<1>1. /\ tx.amount \in Nat /\ epoch \in 1..MaxEpoch /\ PoolOK /\ StakesOK
      /\ MaxEpoch \in Nat /\ Never \in Nat /\ epoch \in 0..Never
      /\ tx.kind \in {"fallback", "native"} => tx.address \in Range(rows)
  BY ActionsAssumption DEF ActionsInv, BuiltOK, TxOK, BoundsOK, Never
<1>2. /\ pool.total \in Nat /\ pool.supply \in Nat /\ pool.available \in Int
      /\ LamportsToPoolTokens(tx.amount) \in Nat /\ PoolTokensToLamports(tx.amount) \in Nat
      /\ tx.amount <= pool.supply => PoolTokensToLamports(tx.amount) <= pool.total
  BY <1>1, PoolAmounts DEF PoolOK
<1>3. CASE tx.kind = "stake"
  <2>1. /\ pool' = [pool EXCEPT !.total = @ + tx.amount,
                                !.supply = @ + LamportsToPoolTokens(tx.amount),
                                !.available = @ + tx.amount]
        /\ stakes' = stakes
    BY <1>3 DEF Executes
  <2>2. PICK t \in Nat, s \in Nat, v \in Int :
          /\ t = pool.total + tx.amount /\ s = pool.supply + LamportsToPoolTokens(tx.amount)
          /\ v = pool.available + tx.amount
    BY <1>1, <1>2
  <2>3. pool' = [total |-> t, supply |-> s, available |-> v]
    BY <1>1, <2>1, <2>2 DEF PoolOK
  <2>4. PoolOK'
    BY <2>3 DEF PoolOK
  <2> QED BY <1>1, <2>1, <2>4 DEF StakesOK
<1>4. CASE tx.kind = "unstake"
  <2>1. /\ PoolTokensToLamports(tx.amount) <= pool.available /\ tx.amount <= pool.supply
        /\ pool' = [[pool EXCEPT !.total = @ - PoolTokensToLamports(tx.amount),
                                 !.supply = @ - tx.amount]
                      EXCEPT !.available = @ - PoolTokensToLamports(tx.amount)]
        /\ stakes' = stakes
    BY <1>4 DEF Executes
  <2>2. PICK t \in Nat, s \in Nat, v \in Int :
          /\ t = pool.total - PoolTokensToLamports(tx.amount) /\ s = pool.supply - tx.amount
          /\ v = pool.available - PoolTokensToLamports(tx.amount)
    BY <1>1, <1>2, <2>1
  <2>3. pool' = [total |-> t, supply |-> s, available |-> v]
    BY <1>1, <2>1, <2>2 DEF PoolOK
  <2>4. PoolOK'
    BY <2>3 DEF PoolOK
  <2> QED BY <1>1, <2>1, <2>4 DEF StakesOK
<1>5. CASE tx.kind = "fallback"
  <2>1. /\ tx.amount <= pool.supply
        /\ pool' = [pool EXCEPT !.total = @ - PoolTokensToLamports(tx.amount),
                                !.supply = @ - tx.amount]
        /\ stakes' = Opened(tx.address, Account(0, PoolTokensToLamports(tx.amount)))
    BY <1>5 DEF Executes
  <2>2. Account(0, PoolTokensToLamports(tx.amount)) \in StakeAccount
    BY <1>1, <1>2 DEF Account, StakeAccount
  <2>3. StakesOK'
    BY <1>1, <1>5, <2>1, <2>2, OpenedOK
  <2>4. PICK t \in Nat, s \in Nat :
          t = pool.total - PoolTokensToLamports(tx.amount) /\ s = pool.supply - tx.amount
    BY <1>1, <1>2, <2>1
  <2>5. pool' = [total |-> t, supply |-> s, available |-> pool.available]
    BY <1>1, <2>1, <2>4 DEF PoolOK
  <2>6. PoolOK'
    BY <1>2, <2>5 DEF PoolOK
  <2> QED BY <2>3, <2>6
<1>6. CASE tx.kind = "native"
  <2>1. stakes' = Opened(tx.address, Account(epoch, tx.amount)) /\ pool' = pool
    BY <1>6 DEF Executes
  <2>2. Account(epoch, tx.amount) \in StakeAccount
    BY <1>1 DEF Account, StakeAccount
  <2>3. StakesOK'
    BY <1>1, <1>6, <2>1, <2>2, OpenedOK
  <2> QED BY <1>1, <2>1, <2>3 DEF PoolOK
<1>7. CASE tx.kind = "deactivate"
  <2>1. /\ tx.address \in DOMAIN stakes /\ pool' = pool
        /\ stakes' = [stakes EXCEPT ![tx.address].deactivation = epoch]
    BY <1>7 DEF Executes
  <2>2. DOMAIN stakes' = DOMAIN stakes
    BY <2>1
  <2>3. ASSUME NEW a \in DOMAIN stakes PROVE stakes'[a] \in StakeAccount
    BY <1>1, <2>1 DEF StakesOK, StakeAccount
  <2> QED BY <1>1, <2>1, <2>2, <2>3 DEF PoolOK, StakesOK
<1>8. CASE tx.kind \notin {"stake", "unstake", "fallback", "native", "deactivate"}
  <2>1. /\ tx.address \in DOMAIN stakes /\ pool' = pool
        /\ \/ stakes' = [a \in DOMAIN stakes \ {tx.address} |-> stakes[a]]
           \/ stakes' = [stakes EXCEPT ![tx.address].lamports = @ - tx.amount]
    BY <1>8 DEF Executes
  <2>2. CASE stakes' = [a \in DOMAIN stakes \ {tx.address} |-> stakes[a]]
    BY <1>1, <2>1, <2>2 DEF PoolOK, StakesOK
  <2>3. CASE stakes' = [stakes EXCEPT ![tx.address].lamports = @ - tx.amount]
    <3>1. DOMAIN stakes' = DOMAIN stakes
      BY <2>3
    <3>2. ASSUME NEW a \in DOMAIN stakes PROVE stakes'[a] \in StakeAccount
      BY <1>1, <2>3 DEF StakesOK, StakeAccount
    <3> QED BY <1>1, <2>1, <3>1, <3>2 DEF PoolOK, StakesOK
  <2> QED BY <2>1, <2>2, <2>3
<1> QED BY <1>3, <1>4, <1>5, <1>6, <1>7, <1>8

LEMMA ActionsStepInv == ActionsInv /\ [ActionsStep]_actionVars => ActionsInv'
<1> SUFFICES ASSUME ActionsInv, [ActionsStep]_actionVars PROVE ActionsInv'
  OBVIOUS
<1>1. CASE ExecuteTransaction
  <2>1. PICK tx \in built : Executes(tx) /\ built' = built \ {tx}
    BY <1>1 DEF ExecuteTransaction
  <2>2. UNCHANGED <<epoch, block, rows, builds>>
    BY <1>1 DEF ExecuteTransaction
  <2>3. PoolOK' /\ StakesOK'
    BY <2>1, <2>2, ExecuteOK
  <2> QED BY <2>1, <2>2, <2>3 DEF ActionsInv, BoundsOK, RowsOK, BuiltOK
<1>2. CASE Refused
  BY <1>2 DEF Refused, ActionsInv, PoolOK, StakesOK, BoundsOK, RowsOK, BuiltOK
<1>3. CASE NextBlock
  <2>1. BuiltOK'
    BY <1>3 DEF NextBlock, ActionsInv, BuiltOK, BoundsOK, TxOK
  <2>2. BoundsOK'
    BY <1>3, ActionsAssumption DEF NextBlock, ActionsInv, BoundsOK
  <2> QED BY <1>3, <2>1, <2>2 DEF NextBlock, ActionsInv, PoolOK, StakesOK, RowsOK
<1>4. CASE NextEpoch
  <2>1. BoundsOK'
    BY <1>4, ActionsAssumption DEF NextEpoch, ActionsInv, BoundsOK
  <2>2. PoolOK'
    BY <1>4 DEF NextEpoch, ActionsInv, PoolOK
  <2> QED BY <1>4, <2>1, <2>2 DEF NextEpoch, ActionsInv, BuiltOK, StakesOK, RowsOK
<1>5. CASE UNCHANGED actionVars
  BY <1>5 DEF actionVars, ActionsInv, PoolOK, StakesOK, BoundsOK, RowsOK, BuiltOK
<1> QED BY <1>1, <1>2, <1>3, <1>4, <1>5, BuildStepKeeps DEF ActionsStep

(* The pool, the rows, the stakes and the transactions built have their    *)
(* types, each stake has a row and each transaction that opens one has it  *)
(* too.                                                                    *)
THEOREM ActionsInductive == ActionsSpec => []ActionsInv
BY ActionsInitInv, ActionsStepInv, PTL DEF ActionsSpec

(* The pool, the epoch, the rows, the stakes and the transactions built    *)
(* have their types.                                                       *)
THEOREM ActionsTypes == ActionsSpec => []ActionsTypeOK
<1>1. ActionsInv => ActionsTypeOK
  BY DEF ActionsInv, PoolOK, BoundsOK, RowsOK, StakesOK, BuiltOK, TxOK, StakeAccount, ActionsTypeOK
<1> QED BY <1>1, ActionsInductive, PTL

(***************************************************************************)
(* The pages                                                               *)
(***************************************************************************)

(* Page n has the rows from (n - 1) * NativePage on, the newest first.     *)
LEMMA ItemsOf ==
  ASSUME ActionsInv, NEW n \in Nat \ {0}, NEW a
  PROVE  a \in NativePositions(n).items <=>
           /\ a \in DOMAIN stakes
           /\ \E i \in 1..Len(rows) :
                /\ a = rows[Len(rows) - i + 1]
                /\ (n - 1) * NativePage < i /\ i <= n * NativePage
<1> DEFINE L == Len(rows)
           latest == Reverse(rows)
           from == (n - 1) * NativePage + 1
           to == Min({n * NativePage, Len(latest)})
           slice == SubSeq(latest, from, to)
<1>1. rows \in Seq(StakeAddress) /\ L \in Nat /\ NativePage \in Nat
  BY ActionsAssumption DEF ActionsInv, RowsOK
<1>2. /\ latest \in Seq(StakeAddress) /\ Len(latest) = L
      /\ \A i \in 1..L : latest[i] = rows[L - i + 1]
  BY <1>1 DEF Reverse
<1>3. (n - 1) * NativePage \in Nat /\ n * NativePage \in Nat
  <2>1. n - 1 \in Nat
    OBVIOUS
  <2> QED BY <1>1, <2>1
<1>4. PICK p \in Nat, q \in Nat : p = (n - 1) * NativePage /\ q = n * NativePage
  BY <1>3
<1>5. to = IF q <= L THEN q ELSE L
  <2>1. \E x \in {q, L} : \A y \in {q, L} : x <= y
    BY <1>1, <1>4
  <2>2. Min({q, L}) \in {q, L} /\ \A y \in {q, L} : Min({q, L}) <= y
    BY <2>1, Zenon DEF Min
  <2>3. Min({q, L}) = IF q <= L THEN q ELSE L
    BY <1>1, <2>2
  <2> QED BY <1>2, <1>4, <2>3
<1>6. from = p + 1
  BY <1>4
<1>9. NativePositions(n).items = Range(slice) \cap DOMAIN stakes
  BY DEF NativePositions
<1> HIDE DEF from, to, latest
<1>7. Range(slice) = {latest[i] : i \in from..to}
  <2>0. PICK l \in Nat : l = L
    BY <1>1
  <2>1. from \in Nat \ {0} /\ to \in Nat /\ to <= Len(latest) /\ latest \in Seq(StakeAddress)
    <3>1. to = IF q <= l THEN q ELSE l
      BY <1>5, <2>0
    <3>2. to \in Nat /\ to <= l
      BY <3>1
    <3>3. Len(latest) = l /\ latest \in Seq(StakeAddress)
      BY <1>2, <2>0
    <3>4. from \in Nat \ {0}
      BY <1>6
    <3> QED BY <3>2, <3>3, <3>4
  <2>2. slice = [i \in 1..to - from + 1 |-> latest[from + i - 1]]
    BY <1>2, <2>1
  <2>3. DOMAIN slice = 1..to - from + 1 /\ \A i \in DOMAIN slice : slice[i] = latest[from + i - 1]
    BY <2>2
  <2>4. ASSUME NEW x \in Range(slice) PROVE \E i \in from..to : x = latest[i]
    BY <2>1, <2>3, <2>4 DEF Range
  <2>5. ASSUME NEW i \in from..to PROVE latest[i] \in Range(slice)
    <3>1. i - from + 1 \in DOMAIN slice /\ from + (i - from + 1) - 1 = i
      BY <2>1, <2>3
    <3> QED BY <2>3, <3>1 DEF Range
  <2> QED BY <2>4, <2>5
<1> HIDE DEF slice
<1>8. \A i \in 1..L : i \in from..to <=> p < i /\ i <= q
  BY <1>1, <1>4, <1>5, <1>6
<1>10. \A i \in from..to : i \in 1..L
  BY <1>1, <1>4, <1>5, <1>6
<1>11. a \in Range(slice) <=> \E i \in 1..L : a = latest[i] /\ p < i /\ i <= q
  BY <1>7, <1>8, <1>10
<1> QED BY <1>2, <1>4, <1>9, <1>11

(* Whatever the wallet signs of what was built, in any order and however   *)
(* late, a stake on the chain is on one page of the positions, for any     *)
(* pools, amounts, page size and number of transactions.                   *)
THEOREM StakesAreAlwaysListed == ActionsSpec => []StakesAreListed
<1>1. ASSUME ActionsInv PROVE StakesAreListed
  <2> DEFINE L == Len(rows)
             pages == 1..(L \div NativePage + 1)
             On(a) == {n \in pages : a \in NativePositions(n).items}
  <2> SUFFICES ASSUME NEW a \in DOMAIN stakes PROVE Cardinality(On(a)) = 1
    BY DEF StakesAreListed
  <2>1. rows \in Seq(StakeAddress) /\ L \in Nat /\ IsInjective(rows) /\ a \in Range(rows)
    BY <1>1 DEF ActionsInv, RowsOK, StakesOK
  <2>2. PICK k \in 1..L : rows[k] = a
    BY <2>1 DEF Range
  <2>3. PICK P \in Nat \ {0} : P = NativePage
    BY ActionsAssumption
  <2> DEFINE i == L - k + 1
             m == (i - 1) \div P + 1
  <2>4. i \in 1..L /\ rows[L - i + 1] = a
    BY <2>1, <2>2
  <2>5. \A j \in 1..L : rows[L - j + 1] = a => j = i
    <3> SUFFICES ASSUME NEW j \in 1..L, rows[L - j + 1] = a PROVE j = i
      OBVIOUS
    <3>1. L - j + 1 \in DOMAIN rows /\ k \in DOMAIN rows
      BY <2>1
    <3>2. L - j + 1 = k
      BY <2>1, <2>2, <3>1 DEF IsInjective
    <3> QED BY <2>1, <2>2, <3>2
  <2> HIDE DEF i
  <2>6. i - 1 \in Nat
    BY <2>4
  <2>7. i \in Nat /\ m \in Nat \ {0} /\ (m - 1) * P < i /\ i <= m * P
    <3>1. PICK d \in Nat : d = (i - 1) \div P /\ P * d <= i - 1 /\ i - 1 < P * d + P
      BY <2>3, <2>6, Division
    <3>2. (d + 1) * P = P * d + P /\ d * P = P * d
      BY <2>3
    <3>3. m = d + 1 /\ m - 1 = d
      BY <3>1
    <3>4. PICK c \in Nat : c = P * d
      BY <2>3
    <3>5. m * P = c + P /\ (m - 1) * P = c
      BY <3>2, <3>3, <3>4
    <3>6. c <= i - 1 /\ i - 1 < c + P
      BY <3>1, <3>4
    <3>7. m \in Nat \ {0} /\ i \in Nat
      BY <3>3, <2>4
    <3> HIDE DEF m
    <3>8. c < i /\ i <= c + P
      BY <3>6, <3>7, <2>3
    <3> QED BY <3>5, <3>7, <3>8
  <2> HIDE DEF m
  <2>8. m \in pages
    <3>1. PICK e \in Nat : e = L \div P /\ L < P * e + P
      BY <2>1, <2>3, Division
    <3>2. ASSUME m > e + 1 PROVE FALSE
      <4>1. e + 1 \in Nat /\ m - 1 \in Nat /\ e + 1 <= m - 1
        BY <2>7, <3>2
      <4>2. (e + 1) * P <= (m - 1) * P
        BY <2>3, <4>1, Multiply
      <4>3. (e + 1) * P = P * e + P
        BY <2>3
      <4> QED BY <2>3, <2>4, <2>7, <3>1, <4>2, <4>3
    <3> QED BY <2>3, <2>7, <3>1, <3>2
  <2>9. m \in On(a)
    <3>1. a \in NativePositions(m).items
      BY <1>1, <2>3, <2>4, <2>7, ItemsOf
    <3> QED BY <2>8, <3>1
  <2>10. ASSUME NEW n \in On(a) PROVE n = m
    <3>0. L \div P \in Nat
      BY <2>1, <2>3, Division
    <3>1. n \in Nat \ {0} /\ a \in NativePositions(n).items
      BY <2>3, <3>0
    <3>2. PICK j \in 1..L : a = rows[L - j + 1] /\ (n - 1) * P < j /\ j <= n * P
      BY <1>1, <2>3, <3>1, ItemsOf
    <3>3. (n - 1) * P < i /\ i <= n * P
      BY <2>5, <3>2
    <3>4. ASSUME NEW x \in Nat \ {0}, NEW y \in Nat \ {0}, x < y, i <= x * P, (y - 1) * P < i
          PROVE  FALSE
      <4>1. y - 1 \in Nat /\ x <= y - 1
        BY <3>4
      <4>2. x * P \in Nat /\ (y - 1) * P \in Nat /\ x * P <= (y - 1) * P
        BY <2>3, <4>1, Multiply
      <4> QED BY <2>4, <3>4, <4>2
    <3>5. ~(n < m) /\ ~(m < n)
      BY <2>7, <3>1, <3>3, <3>4
    <3> QED BY <2>7, <3>1, <3>5
  <2>11. On(a) = {m}
    BY <2>9, <2>10
  <2> HIDE DEF On
  <2> QED BY <2>11, FS_Singleton
<1> QED BY <1>1, ActionsInductive, PTL

(***************************************************************************)
(* TradeHistory.  What a complete sync has stored, and whose trades are    *)
(* counted, for any wallets, transactions and pages.                       *)
(***************************************************************************)
WalletPages == {"wallet", "page", "load"}
HistoryTx == [wallets : SUBSET Holders, kind : Kinds, traders : SUBSET Holders]
FetchState == [left : Seq(Holders), known : SUBSET Nat, before : Nat, pages : 0..MaxPages,
               stage : WalletPages, top : Nat, whole : BOOLEAN]

HasRow(s, table) == \E r \in table : r.sig = s
SignedBy(w, table) == {r.sig : r \in {q \in table : q.signer = w}}

(* A row of a signature is the only one, and is of a transaction.          *)
RowsRight(table, trans) ==
  /\ \A r \in table : r.sig \in DOMAIN trans /\ r.signer \in Holders
  /\ \A r, o \in table : r.sig = o.sig => r = o

CachesRight(cache, table) == \A w \in Holders : cache[w] = NotCached \/ cache[w] \subseteq SignedBy(w, table)

(* The trades of the wallets already done are of those wallets, in their   *)
(* order.                                                                  *)
TradesRight(found, table) ==
  \A i \in DOMAIN found : i \in 1..Cardinality(Holders) /\ found[i] \subseteq SignedBy(Order[i], table)

InTurn(f, found) ==
  \/ f.left = <<>> /\ Len(found) \in {0, Cardinality(Holders)}
  \/ /\ f.left # <<>> /\ Len(found) + Len(f.left) = Cardinality(Holders)
     /\ \A i \in 1..Len(f.left) : f.left[i] = Order[Len(found) + i]

(* What a sync wants: the swaps and transfers of the wallet up to the      *)
(* newest at its first page.                                               *)
Wants(w, s, trans, f) == w \in trans[s].wallets /\ IsSwap(w, trans[s]) /\ s <= f.top

(* Everything behind the cursor is stored, while pages are still fetched;  *)
(* after the last page, everything newer than what was known.              *)
SyncRight(f, trans, table) ==
  /\ f.top <= Len(trans) /\ f.before <= MaxTx + 1 /\ (f.stage = "wallet" => f.pages = 0)
  /\ f.left # <<>> /\ f.stage = "page" =>
       /\ f.pages < MaxPages /\ (f.pages = 0 => f.before = MaxTx + 1)
       /\ f.whole => \A s \in DOMAIN trans : Wants(Head(f.left), s, trans, f) /\ s >= f.before => HasRow(s, table)
  /\ f.left # <<>> /\ f.stage = "load" /\ f.whole =>
       \A s \in DOMAIN trans :
         Wants(Head(f.left), s, trans, f) /\ s >= Cutoff /\ (\A k \in f.known : k < s) => HasRow(s, table)

TradeTables ==
  /\ txs \in Seq(HistoryTx) /\ Len(txs) <= MaxTx
  /\ swaps \in [Holders -> SUBSET (0..MaxTx)]
  /\ fetch \in FetchState /\ trades \in Seq(SUBSET Nat)
  /\ asides \in 0..MaxAsides

TradeInv ==
  /\ TradeTables
  /\ RowsRight(stored, txs) /\ CachesRight(swaps, stored) /\ TradesRight(trades, stored)
  /\ InTurn(fetch, trades) /\ SyncRight(fetch, txs, stored)

-------------------------------------------------------------------------------
(* Every wallet has one place in the order.                                *)
LEMMA OrderIsOnce ==
  /\ Order \in [1..Cardinality(Holders) -> Holders] /\ Cardinality(Holders) \in Nat
  /\ Order \in Seq(Holders) /\ Len(Order) = Cardinality(Holders)
  /\ \A i, j \in 1..Cardinality(Holders) : Order[i] = Order[j] => i = j
<1> DEFINE n == Cardinality(Holders)
<1>1. n \in Nat /\ ExistsBijection(1..n, Holders)
  BY TradesAssumption, FS_CardinalityType
<1>2. \E f \in [1..n -> Holders] : IsInjective(f)
  BY <1>1, Zenon DEF ExistsBijection, Bijection, Injection
<1>3. Order \in [1..n -> Holders] /\ IsInjective(Order)
  BY <1>2, Zenon DEF Order, SetToSeq
<1>4. \A i, j \in 1..n : Order[i] = Order[j] => i = j
  BY <1>3, Zenon DEF IsInjective
<1> HIDE DEF n
<1>5. Order \in Seq(Holders) /\ Len(Order) = n
  <2> DEFINE f == Order
  <2>1. f \in [1..n -> Holders]
    BY <1>3
  <2> HIDE DEF f
  <2>2. f \in Seq(Holders) /\ Len(f) = n
    BY <1>1, <2>1
  <2> QED BY <2>2 DEF f
<1> QED BY <1>1, <1>3, <1>4, <1>5 DEF n

LEMMA FetchFields ==
  ASSUME NEW f \in FetchState
  PROVE  /\ f.left \in Seq(Holders) /\ f.known \in SUBSET Nat /\ f.before \in Nat /\ f.pages \in 0..MaxPages
         /\ f.stage \in WalletPages /\ f.top \in Nat /\ f.whole \in BOOLEAN
BY DEF FetchState

LEMMA SignedGrows ==
  ASSUME NEW table, NEW more, table \subseteq more, NEW w
  PROVE  SignedBy(w, table) \subseteq SignedBy(w, more)
BY DEF SignedBy

(* Rows added where no signature has one: what was right of the table still *)
(* is.                                                                     *)
LEMMA InsertKeeps ==
  ASSUME TradeInv, NEW table,
         \A r \in table : r.sig \in DOMAIN txs /\ r.signer \in Holders,
         \A r, o \in table : r.sig = o.sig => r = o
  PROVE  /\ stored \subseteq InsertIgnore(table) /\ RowsRight(InsertIgnore(table), txs)
         /\ \A r \in table : HasRow(r.sig, InsertIgnore(table))
<1>1. \A r \in table : HasRow(r.sig, InsertIgnore(table))
  BY Zenon DEF InsertIgnore, HasRow
<1>2. RowsRight(InsertIgnore(table), txs)
  BY Zenon DEF TradeInv, RowsRight, InsertIgnore
<1> QED BY <1>1, <1>2, Zenon DEF InsertIgnore

LEMMA MoreRows ==
  ASSUME TradeInv, NEW more, stored \subseteq more
  PROVE  /\ CachesRight(swaps, more) /\ TradesRight(trades, more) /\ SyncRight(fetch, txs, more)
<1>1. \A w : SignedBy(w, stored) \subseteq SignedBy(w, more)
  BY SignedGrows
<1>2. CachesRight(swaps, more)
  BY <1>1, Zenon DEF TradeInv, CachesRight
<1>3. TradesRight(trades, more)
  BY <1>1, Zenon DEF TradeInv, TradesRight
<1>4. \A s : HasRow(s, stored) => HasRow(s, more)
  BY Zenon DEF HasRow
<1>5. SyncRight(fetch, txs, more)
  BY <1>4, Zenon DEF TradeInv, SyncRight
<1> QED BY <1>2, <1>3, <1>5
(* A page is the newest of what is before the cursor: nothing of it is     *)
(* left out between the page and the cursor.                               *)
LEMMA PageIsNewest ==
  ASSUME txs \in Seq(HistoryTx), NEW w, NEW before \in Nat
  PROVE  LET mine == {s \in DOMAIN txs : w \in txs[s].wallets /\ s < before}
         IN  /\ Page(w, before) \subseteq mine /\ (mine # {} => Page(w, before) # {})
             /\ \A s \in mine : \A t \in Page(w, before) : t <= s => s \in Page(w, before)
<1> DEFINE mine == {s \in DOMAIN txs : w \in txs[s].wallets /\ s < before}
           Above(s) == {t \in mine : t > s}
<1>1. Page(w, before) = {s \in mine : Cardinality(Above(s)) < PageSize}
  BY DEF Page
<1>2. mine \in SUBSET (1..Len(txs)) /\ Len(txs) \in Nat
  OBVIOUS
<1> HIDE DEF mine
<1>3. IsFiniteSet(mine)
  <2>1. IsFiniteSet(1..Len(txs))
    BY <1>2, FS_Interval
  <2> QED BY <1>2, <2>1, FS_Subset
<1>4. \A s : IsFiniteSet(Above(s))
  BY <1>3, FS_Subset
<1>5. ASSUME mine # {} PROVE Page(w, before) # {}
  <2>1. \E m \in mine : \A y \in mine : m >= y
    BY <1>2, <1>5, GreatestOf, Zenon
  <2>2. PICK m \in mine : \A y \in mine : m >= y
    BY <2>1, Zenon
  <2>3. Above(m) = {}
    <3>1. ASSUME NEW y \in mine PROVE ~(y > m)
      <4>1. y \in Nat /\ m \in Nat /\ m >= y
        BY <1>2, <2>2
      <4> QED BY <4>1
    <3> QED BY <3>1, Zenon
  <2>4. Cardinality(Above(m)) = 0
    BY <2>3, FS_EmptySet
  <2> QED BY <1>1, <2>2, <2>4, TradesAssumption
<1>6. ASSUME NEW s \in mine, NEW t \in Page(w, before), t <= s
      PROVE  s \in Page(w, before)
  <2>1. t \in mine /\ Cardinality(Above(t)) < PageSize
    BY <1>1
  <2>2. Above(s) \subseteq Above(t)
    <3>1. ASSUME NEW y \in mine, y > s PROVE y > t
      <4>1. y \in Nat /\ s \in Nat /\ t \in Nat
        BY <1>2, <2>1
      <4> QED BY <1>6, <3>1, <4>1
    <3> QED BY <3>1, Zenon
  <2>3. Cardinality(Above(s)) <= Cardinality(Above(t))
    BY <1>4, <2>2, FS_Subset
  <2>4. Cardinality(Above(s)) \in Nat /\ Cardinality(Above(t)) \in Nat
    BY <1>4, FS_CardinalityType
  <2>5. Cardinality(Above(s)) < PageSize
    BY <2>1, <2>3, <2>4, TradesAssumption
  <2> QED BY <1>1, <2>5
<1>7. Page(w, before) \subseteq mine
  BY <1>1
<1> QED BY <1>5, <1>6, <1>7, Zenon DEF mine

LEMMA SavedKeeps ==
  ASSUME TradeInv, NEW w \in Holders, NEW batch, batch \subseteq DOMAIN txs
  PROVE  /\ stored \subseteq Saved(w, batch) /\ RowsRight(Saved(w, batch), txs)
         /\ \A s \in batch : IsSwap(w, txs[s]) => HasRow(s, Saved(w, batch))
<1> DEFINE table == {TradeRow(w, s) : s \in {t \in batch : IsSwap(w, txs[t])}}
<1>1. \A s : TradeRow(w, s).sig = s /\ TradeRow(w, s).signer = w
  BY DEF TradeRow
<1>2. \A r \in table : r.sig \in batch /\ r.signer = w /\ r = TradeRow(w, r.sig)
  BY <1>1, Zenon
<1>3. \A s \in batch : IsSwap(w, txs[s]) => TradeRow(w, s) \in table
  BY Zenon
<1>4. Saved(w, batch) = InsertIgnore(table)
  BY Zenon DEF Saved
<1> HIDE DEF table
<1>5. \A r \in table : r.sig \in DOMAIN txs /\ r.signer \in Holders
  BY <1>2, Zenon
<1>6. \A r, o \in table : r.sig = o.sig => r = o
  BY <1>2, Zenon
<1>7. /\ stored \subseteq InsertIgnore(table) /\ RowsRight(InsertIgnore(table), txs)
      /\ \A r \in table : HasRow(r.sig, InsertIgnore(table))
  BY <1>5, <1>6, InsertKeeps, Zenon
<1> QED BY <1>1, <1>3, <1>4, <1>7, Zenon

-------------------------------------------------------------------------------
LEMMA NoFetchFields ==
  /\ NoFetch \in FetchState /\ NoFetch.left = <<>> /\ NoFetch.stage = "wallet"
  /\ NoFetch.top = 0 /\ NoFetch.before = 0 /\ NoFetch.pages = 0
<1>1. 0 \in 0..MaxPages /\ <<>> \in Seq(Holders)
  BY TradesAssumption
<1> QED BY <1>1 DEF NoFetch, FetchState, WalletPages

(* Between two wallets nothing is claimed of the sync.                     *)
LEMMA RestIsRight ==
  ASSUME NEW f \in FetchState, f.stage = "wallet" \/ f.left = <<>>, f.top = 0, f.before = 0, f.pages = 0,
         NEW trans \in Seq(HistoryTx), NEW table
  PROVE  SyncRight(f, trans, table)
BY TradesAssumption DEF SyncRight

LEMMA TradeInit0 == HistoryInit => TradeInv
<1> SUFFICES ASSUME HistoryInit PROVE TradeInv
  OBVIOUS
<1>1. /\ txs = <<>> /\ stored = {} /\ swaps = [w \in Holders |-> NotCached]
      /\ fetch = NoFetch /\ trades = <<>> /\ asides = 0
  BY DEF HistoryInit
<1>2. TradeTables
  <2>1. /\ txs \in Seq(HistoryTx) /\ Len(txs) = 0 /\ trades \in Seq(SUBSET Nat)
        /\ swaps \in [Holders -> SUBSET (0..MaxTx)]
    BY <1>1, TradesAssumption DEF NotCached
  <2> QED BY <1>1, <2>1, NoFetchFields, TradesAssumption DEF TradeTables
<1>3. RowsRight(stored, txs) /\ CachesRight(swaps, stored)
  BY <1>1 DEF RowsRight, CachesRight
<1>4. TradesRight(trades, stored) /\ InTurn(fetch, trades)
  BY <1>1, NoFetchFields DEF TradesRight, InTurn
<1>5. SyncRight(fetch, txs, stored)
  BY <1>1, <1>2, NoFetchFields, RestIsRight, Zenon DEF TradeTables
<1> QED BY <1>2, <1>3, <1>4, <1>5 DEF TradeInv

LEMMA LandKeeps == ASSUME TradeInv, Land PROVE TradeInv'
<1>1. PICK ws \in SUBSET Holders \ {{}}, kind \in Kinds : \E traders \in SUBSET ws :
        txs' = Append(txs, [wallets |-> ws, kind |-> kind, traders |-> traders])
  BY DEF Land
<1>0. PICK traders \in SUBSET ws : txs' = Append(txs, [wallets |-> ws, kind |-> kind, traders |-> traders])
  BY <1>1
<1>2. UNCHANGED <<stored, swaps, fetch, trades, asides>> /\ Len(txs) < MaxTx
  BY DEF Land
<1>3. [wallets |-> ws, kind |-> kind, traders |-> traders] \in HistoryTx
  BY DEF HistoryTx
<1>4. /\ txs' \in Seq(HistoryTx) /\ Len(txs') = Len(txs) + 1 /\ Len(txs) \in Nat
      /\ \A s \in DOMAIN txs : txs'[s] = txs[s]
      /\ DOMAIN txs = 1..Len(txs) /\ DOMAIN txs' = 1..Len(txs')
  BY <1>0, <1>3 DEF TradeInv, TradeTables
<1>5. TradeTables'
  BY <1>2, <1>4, TradesAssumption DEF TradeInv, TradeTables
<1>6. DOMAIN txs \subseteq DOMAIN txs'
  BY <1>4
<1>7. RowsRight(stored', txs')
  BY <1>2, <1>6, Zenon DEF TradeInv, RowsRight
<1>8. SyncRight(fetch', txs', stored')
  <2>1. fetch \in FetchState /\ SyncRight(fetch, txs, stored)
    BY DEF TradeInv, TradeTables
  <2>2. fetch.top <= Len(txs') /\ fetch.top <= Len(txs)
    BY <1>4, <2>1, FetchFields DEF SyncRight
  <2>3. \A w, s : s \in DOMAIN txs' /\ Wants(w, s, txs', fetch) => s \in DOMAIN txs /\ Wants(w, s, txs, fetch)
    <3>1. SUFFICES ASSUME NEW w, NEW s \in DOMAIN txs', Wants(w, s, txs', fetch)
                   PROVE  s \in DOMAIN txs /\ Wants(w, s, txs, fetch)
      OBVIOUS
    <3>2. s <= fetch.top
      BY <3>1 DEF Wants
    <3>3. s \in DOMAIN txs
      BY <1>4, <2>1, <2>2, <3>2, FetchFields
    <3> QED BY <1>4, <3>1, <3>3, Zenon DEF Wants
  <2>4. SyncRight(fetch, txs', stored)
    BY <2>1, <2>2, <2>3, Zenon DEF SyncRight
  <2> QED BY <1>2, <2>4, Zenon
<1> QED BY <1>2, <1>5, <1>7, <1>8 DEF TradeInv

(* The pages stored, and the swaps streamed, outside the sync.             *)
LEMMA AsideKeeps == ASSUME TradeInv, Streamed \/ StorePage PROVE TradeInv'
<1>1. UNCHANGED <<txs, swaps, fetch, trades>> /\ asides < MaxAsides /\ asides' = asides + 1
  BY DEF Streamed, StorePage
<1>2. stored \subseteq stored' /\ RowsRight(stored', txs)
  <2>1. CASE Streamed
    <3>1. PICK s \in DOMAIN txs, w \in Holders :
            stored' = InsertIgnore({[sig |-> s, signer |-> w, type |-> "SWAP", transfers |-> FALSE]})
      BY <2>1 DEF Streamed
    <3> DEFINE table == {[sig |-> s, signer |-> w, type |-> "SWAP", transfers |-> FALSE]}
    <3>2. /\ \A r \in table : r.sig \in DOMAIN txs /\ r.signer \in Holders
          /\ \A r, o \in table : r.sig = o.sig => r = o
      OBVIOUS
    <3> HIDE DEF table
    <3>3. stored \subseteq InsertIgnore(table) /\ RowsRight(InsertIgnore(table), txs)
      BY <3>2, InsertKeeps, Zenon
    <3> QED BY <3>1, <3>3, Zenon DEF table
  <2>2. CASE StorePage
    <3>1. PICK w \in Holders, before \in 2..MaxTx + 1 : stored' = Saved(w, Page(w, before))
      BY <2>2 DEF StorePage
    <3>2. Page(w, before) \subseteq DOMAIN txs
      BY DEF Page
    <3> QED BY <3>1, <3>2, SavedKeeps, Zenon
  <2> QED BY <2>1, <2>2
<1>3. CachesRight(swaps, stored') /\ TradesRight(trades, stored') /\ SyncRight(fetch, txs, stored')
  BY <1>2, MoreRows, Zenon
<1>4. TradeTables'
  BY <1>1, TradesAssumption DEF TradeInv, TradeTables
<1>5. InTurn(fetch, trades)
  BY DEF TradeInv
<1> QED BY <1>1, <1>2, <1>3, <1>4, <1>5, Zenon DEF TradeInv
-------------------------------------------------------------------------------
(* The sync of one wallet.                                                 *)
LEMMA FetchAllKeeps == ASSUME TradeInv, FetchAllTrades PROVE TradeInv'
<1> DEFINE f == [NoFetch EXCEPT !.left = Order]
<1>1. fetch' = f /\ trades' = <<>> /\ UNCHANGED <<txs, stored, swaps, asides>>
  BY DEF FetchAllTrades
<1>2. f \in FetchState /\ f.left = Order /\ f.stage = "wallet" /\ f.top = 0 /\ f.before = 0 /\ f.pages = 0
  BY NoFetchFields, OrderIsOnce DEF FetchState
<1> HIDE DEF f
<1>3. TradeTables'
  <2>1. trades' \in Seq(SUBSET Nat)
    BY <1>1
  <2> QED BY <1>1, <1>2, <2>1, Zenon DEF TradeInv, TradeTables
<1>4. TradesRight(trades', stored')
  BY <1>1 DEF TradesRight
<1>5. InTurn(fetch', trades')
  <2> DEFINE o == Order
  <2>1. o \in Seq(Holders) /\ Len(o) = Cardinality(Holders) /\ Cardinality(Holders) \in Nat
    BY OrderIsOnce
  <2> HIDE DEF o
  <2>2. fetch'.left = o /\ Len(trades') = 0
    BY <1>1, <1>2 DEF o
  <2>3. \A i \in 1..Len(o) : o[i] = o[0 + i]
    BY <2>1
  <2>4. Len(trades') + Len(o) = Cardinality(Holders) /\ (o = <<>> => Len(trades') \in {0, Cardinality(Holders)})
    BY <2>1, <2>2
  <2>5. \A i \in 1..Len(o) : o[i] = Order[Len(trades') + i]
    BY <2>2, <2>3, Zenon DEF o
  <2> QED BY <2>2, <2>4, <2>5, Zenon DEF InTurn
<1>6. SyncRight(fetch', txs', stored')
  BY <1>1, <1>2, <1>3, RestIsRight, Zenon DEF TradeTables
<1> QED BY <1>1, <1>3, <1>4, <1>5, <1>6, Zenon DEF TradeInv

LEMMA WalletOf ==
  ASSUME TradeInv, fetch.left # <<>>
  PROVE  /\ fetch \in FetchState /\ Wallet \in Holders /\ Wallet = Order[Len(trades) + 1]
         /\ trades \in Seq(SUBSET Nat) /\ Len(trades) + 1 \in 1..Cardinality(Holders)
<1>1. fetch \in FetchState /\ trades \in Seq(SUBSET Nat)
  BY DEF TradeInv, TradeTables
<1>2. fetch.left \in Seq(Holders)
  BY <1>1, FetchFields
<1>3. Len(fetch.left) \in Nat \ {0} /\ Head(fetch.left) = fetch.left[1] /\ Head(fetch.left) \in Holders
  BY <1>2
<1>4. Len(trades) + Len(fetch.left) = Cardinality(Holders)
      /\ \A i \in 1..Len(fetch.left) : fetch.left[i] = Order[Len(trades) + i]
  BY DEF TradeInv, InTurn
<1>5. 1 \in 1..Len(fetch.left) /\ Len(trades) + 1 \in 1..Cardinality(Holders)
  BY <1>1, <1>3, <1>4, OrderIsOnce
<1> QED BY <1>1, <1>3, <1>4, <1>5, Zenon DEF Wallet

(* The trades of the wallet are those of its table: the next one follows.   *)
LEMMA TakeKeeps ==
  ASSUME TradeInv, fetch.left # <<>>, NEW found, found \subseteq SignedBy(Wallet, stored), Take(found),
         UNCHANGED <<txs, stored, asides>>,
         swaps' \in [Holders -> SUBSET (0..MaxTx)], CachesRight(swaps', stored)
  PROVE  TradeInv'
<1> DEFINE f == [NoFetch EXCEPT !.left = Tail(fetch.left)]
<1>1. fetch' = f /\ trades' = Append(trades, found)
  BY DEF Take
<1>2. /\ fetch \in FetchState /\ trades \in Seq(SUBSET Nat) /\ fetch.left \in Seq(Holders)
      /\ Wallet = Order[Len(trades) + 1] /\ Len(trades) + 1 \in 1..Cardinality(Holders)
  BY WalletOf, FetchFields
<1>3. Tail(fetch.left) \in Seq(Holders)
  <2>1. \A s \in Seq(Holders) : s # <<>> => Tail(s) \in Seq(Holders)
    OBVIOUS
  <2> QED BY <1>2, <2>1
<1>4. f \in FetchState /\ f.left = Tail(fetch.left) /\ f.stage = "wallet" /\ f.top = 0 /\ f.before = 0 /\ f.pages = 0
  BY <1>3, NoFetchFields DEF FetchState
<1> HIDE DEF f
<1>5. found \in SUBSET Nat
  <2>1. \A r \in stored : r.sig \in Nat
    BY DEF TradeInv, TradeTables, RowsRight
  <2> QED BY <2>1, Zenon DEF SignedBy
<1>6. /\ trades' \in Seq(SUBSET Nat) /\ Len(trades') = Len(trades) + 1 /\ Len(trades) \in Nat
      /\ trades'[Len(trades) + 1] = found /\ \A i \in DOMAIN trades : trades'[i] = trades[i]
      /\ \A i \in DOMAIN trades' : i \in DOMAIN trades \/ i = Len(trades) + 1
  BY <1>1, <1>2, <1>5
<1>7. TradeTables'
  BY <1>1, <1>4, <1>6, Zenon DEF TradeInv, TradeTables
<1>8. TradesRight(trades', stored')
  BY <1>2, <1>6, Zenon DEF TradeInv, TradesRight
<1>9. InTurn(fetch', trades')
  <2> DEFINE left == fetch.left
             rest == Tail(left)
  <2>1. Len(trades) + Len(left) = Cardinality(Holders) /\ left \in Seq(Holders) /\ left # <<>>
        /\ \A i \in 1..Len(left) : left[i] = Order[Len(trades) + i]
    BY <1>2 DEF TradeInv, InTurn
  <2> HIDE DEF left
  <2>2. Len(rest) = Len(left) - 1 /\ Len(left) \in Nat \ {0} /\ rest \in Seq(Holders)
        /\ \A i \in 1..Len(rest) : rest[i] = left[i + 1] /\ i + 1 \in 1..Len(left)
    BY <2>1
  <2> HIDE DEF rest
  <2>3. Len(trades') + Len(rest) = Cardinality(Holders)
    BY <1>6, <2>1, <2>2
  <2>4. ASSUME NEW i \in 1..Len(rest) PROVE rest[i] = Order[Len(trades') + i]
    <3>1. rest[i] = Order[Len(trades) + (i + 1)]
      BY <2>1, <2>2
    <3>2. Len(trades) + (i + 1) = Len(trades') + i
      BY <1>6, <2>2
    <3> QED BY <3>1, <3>2
  <2>5. rest = <<>> => Len(trades') = Cardinality(Holders)
    <3>1. rest = <<>> => Len(rest) = 0
      OBVIOUS
    <3>2. Len(trades') \in Nat
      BY <1>6
    <3>3. Len(rest) = 0 => Len(trades') = Cardinality(Holders)
      BY <2>3, <3>2
    <3> QED BY <3>1, <3>3, Zenon
  <2>6. fetch'.left = rest
    BY <1>1, <1>4 DEF left, rest
  <2> QED BY <2>3, <2>4, <2>5, <2>6 DEF InTurn
<1>10. SyncRight(fetch', txs', stored')
  BY <1>1, <1>4, <1>7, RestIsRight, Zenon DEF TradeTables
<1>11. RowsRight(stored', txs') /\ CachesRight(swaps', stored')
  BY Zenon DEF TradeInv
<1> QED BY <1>7, <1>8, <1>9, <1>10, <1>11 DEF TradeInv

LEMMA CacheHitKeeps == ASSUME TradeInv, CacheHit PROVE TradeInv'
<1>1. fetch.left # <<>> /\ swaps[Wallet] # NotCached /\ Take(swaps[Wallet]) /\ UNCHANGED <<txs, stored, swaps, asides>>
  BY DEF CacheHit, Working
<1>2. swaps[Wallet] \subseteq SignedBy(Wallet, stored)
  BY <1>1, WalletOf, Zenon DEF TradeInv, CachesRight
<1>3. swaps' \in [Holders -> SUBSET (0..MaxTx)] /\ CachesRight(swaps', stored)
  BY <1>1, Zenon DEF TradeInv, TradeTables
<1> QED BY <1>1, <1>2, <1>3, TakeKeeps, Zenon

LEMMA LoadKeeps == ASSUME TradeInv, Load PROVE TradeInv'
<1> DEFINE all == {r.sig : r \in {q \in stored : q.signer = Wallet /\ q.type = "SWAP" /\ q.sig >= Cutoff}}
           found == {s \in all : Cardinality({t \in all : t > s}) < LoadLimit}
<1>1. /\ fetch.left # <<>> /\ UNCHANGED <<txs, stored, asides>>
      /\ swaps' = [swaps EXCEPT ![Wallet] = found] /\ Take(found)
  BY DEF Load, Working
<1>2. found \subseteq SignedBy(Wallet, stored)
  BY Zenon DEF SignedBy
<1>3. found \in SUBSET (0..MaxTx)
  <2>1. \A r \in stored : r.sig \in 0..MaxTx
    BY TradesAssumption DEF TradeInv, TradeTables, RowsRight
  <2> QED BY <2>1, Zenon
<1> HIDE DEF found
<1>4. swaps' \in [Holders -> SUBSET (0..MaxTx)]
  BY <1>1, <1>3, WalletOf, Zenon DEF TradeInv, TradeTables
<1>5. CachesRight(swaps', stored)
  <2>1. \A w \in Holders : (swaps'[w] = found /\ w = Wallet) \/ swaps'[w] = swaps[w]
    BY <1>1, Zenon DEF TradeInv, TradeTables
  <2> QED BY <1>2, <2>1, Zenon DEF TradeInv, CachesRight
<1> QED BY <1>1, <1>2, <1>4, <1>5, TakeKeeps, Zenon

LEMMA ExpiryKeeps == ASSUME TradeInv, SwapsExpire PROVE TradeInv'
<1>1. PICK w \in Holders : swaps' = [swaps EXCEPT ![w] = NotCached]
  BY DEF SwapsExpire
<1>2. UNCHANGED <<txs, stored, fetch, trades, asides>>
  BY DEF SwapsExpire
<1>3. swaps' \in [Holders -> SUBSET (0..MaxTx)]
  BY <1>1, TradesAssumption DEF TradeInv, TradeTables, NotCached
<1>4. CachesRight(swaps', stored)
  BY <1>1, Zenon DEF TradeInv, TradeTables, CachesRight
<1>5. TradeTables'
  BY <1>2, <1>3 DEF TradeInv, TradeTables
<1> QED BY <1>2, <1>4, <1>5, Zenon DEF TradeInv

LEMMA ReadKnownKeeps == ASSUME TradeInv, ReadKnown PROVE TradeInv'
<1> DEFINE known == {r.sig : r \in {q \in stored : q.signer = Wallet}}
           f == [fetch EXCEPT !.known = known, !.before = MaxTx + 1, !.stage = "page"]
<1>1. fetch.left # <<>> /\ fetch.stage = "wallet" /\ fetch' = f /\ UNCHANGED <<txs, stored, swaps, trades, asides>>
  BY DEF ReadKnown, Working
<1>2. known \in SUBSET Nat
  <2>1. \A r \in stored : r.sig \in Nat
    BY DEF TradeInv, TradeTables, RowsRight
  <2> QED BY <2>1, Zenon
<1> HIDE DEF known
<1>3. fetch \in FetchState
  BY DEF TradeInv, TradeTables
<1>4. /\ f \in FetchState /\ f.left = fetch.left /\ f.before = MaxTx + 1 /\ f.stage = "page"
      /\ f.top = fetch.top /\ f.pages = fetch.pages
  <2>1. MaxTx + 1 \in Nat /\ "page" \in WalletPages
    BY TradesAssumption DEF WalletPages
  <2> QED BY <1>2, <1>3, <2>1 DEF FetchState
<1> HIDE DEF f
<1>5. TradeTables'
  BY <1>1, <1>4 DEF TradeInv, TradeTables
<1>6. InTurn(fetch', trades')
  BY <1>1, <1>4, Zenon DEF TradeInv, InTurn
<1>7. SyncRight(fetch', txs', stored')
  <2>1. fetch.top <= Len(txs) /\ fetch.pages = 0
    BY <1>1 DEF TradeInv, SyncRight
  <2>2. \A s \in DOMAIN txs : ~(s >= f.before)
    BY <1>4, TradesAssumption DEF TradeInv, TradeTables
  <2>3. f.top <= Len(txs) /\ f.before <= MaxTx + 1 /\ f.pages < MaxPages /\ f.stage # "wallet" /\ f.stage # "load"
    BY <1>4, <2>1, TradesAssumption
  <2>4. SyncRight(f, txs, stored)
    BY <1>4, <2>2, <2>3, Zenon DEF SyncRight
  <2> QED BY <1>1, <2>4, Zenon
<1> QED BY <1>1, <1>5, <1>6, <1>7, Zenon DEF TradeInv

LEMMA PageFailsKeeps == ASSUME TradeInv, PageFails PROVE TradeInv'
<1> DEFINE f == [fetch EXCEPT !.pages = @ + 1, !.stage = "load", !.whole = FALSE]
<1>1. fetch.left # <<>> /\ fetch.stage = "page" /\ fetch' = f /\ UNCHANGED <<txs, stored, swaps, trades, asides>>
  BY DEF PageFails, Working
<1>2. fetch \in FetchState /\ fetch.pages < MaxPages
  BY <1>1 DEF TradeInv, TradeTables, SyncRight
<1>3. /\ f \in FetchState /\ f.left = fetch.left /\ f.before = fetch.before /\ f.stage = "load"
      /\ f.top = fetch.top
  <2>1. fetch.pages + 1 \in 0..MaxPages /\ "load" \in WalletPages
    BY <1>2, FetchFields, TradesAssumption DEF WalletPages
  <2> QED BY <1>2, <2>1 DEF FetchState
<1>4. ~f.whole
  BY <1>2, Zenon DEF FetchState
<1> HIDE DEF f
<1>5. TradeTables'
  BY <1>1, <1>3 DEF TradeInv, TradeTables
<1>6. InTurn(fetch', trades')
  BY <1>1, <1>3, Zenon DEF TradeInv, InTurn
<1>7. SyncRight(fetch', txs', stored')
  <2>1. f.stage # "wallet" /\ f.stage # "page"
    BY <1>3
  <2>2. SyncRight(f, txs, stored)
    BY <1>3, <1>4, <2>1, Zenon DEF TradeInv, SyncRight
  <2> QED BY <1>1, <2>2, Zenon
<1> QED BY <1>1, <1>5, <1>6, <1>7, Zenon DEF TradeInv

(* A page that does not end the sync stores all of its part of the chain;  *)
(* one that does has met what was known, or the oldest that is wanted.     *)
LEMMA FetchPageKeeps == ASSUME TradeInv, FetchPage PROVE TradeInv'
<1> DEFINE batch == Page(Wallet, fetch.before)
           end == batch = {} \/ \E s \in batch : s \in Known \/ s < Cutoff
<1>1. PICK kept \in BOOLEAN :
        /\ stored' = IF kept THEN Saved(Wallet, batch) ELSE stored
        /\ fetch' = [fetch EXCEPT
              !.pages = @ + 1,
              !.top = IF fetch.pages = 0 THEN Len(txs) ELSE @,
              !.before = IF end THEN @ ELSE Min(batch),
              !.stage = IF end \/ fetch.pages + 1 = MaxPages THEN "load" ELSE "page",
              !.whole = @ /\ kept /\ (end \/ fetch.pages + 1 < MaxPages)]
  BY Zenon DEF FetchPage
<1>2. fetch.left # <<>> /\ fetch.stage = "page" /\ UNCHANGED <<txs, swaps, trades, asides>>
  BY DEF FetchPage, Working
<1>3. /\ fetch \in FetchState /\ fetch.pages < MaxPages /\ fetch.pages \in Nat /\ fetch.before \in Nat
      /\ fetch.top \in Nat /\ fetch.top <= Len(txs) /\ fetch.before <= MaxTx + 1
      /\ (fetch.pages = 0 => fetch.before = MaxTx + 1) /\ txs \in Seq(HistoryTx) /\ Len(txs) <= MaxTx
  BY <1>2, FetchFields, TradesAssumption DEF TradeInv, TradeTables, SyncRight
<1>4. Wallet \in Holders /\ Wallet = Head(fetch.left)
  BY <1>2, WalletOf, Zenon DEF Wallet
<1>5. /\ batch \subseteq {s \in DOMAIN txs : Wallet \in txs[s].wallets /\ s < fetch.before}
      /\ \A s \in DOMAIN txs : Wallet \in txs[s].wallets /\ s < fetch.before => batch # {}
      /\ \A s \in DOMAIN txs : Wallet \in txs[s].wallets /\ s < fetch.before =>
           \A t \in batch : t <= s => s \in batch
  BY <1>3, PageIsNewest, Zenon
<1>6. batch \in SUBSET (1..Len(txs)) /\ Len(txs) \in Nat
  BY <1>3, <1>5
<1>7. end => batch = {} \/ \E s \in batch : s \in fetch.known \/ s < Cutoff
  BY Zenon DEF Known
<1>8. ~end => batch # {}
  BY Zenon
<1> HIDE DEF end
<1> DEFINE pages == fetch.pages + 1
           top == IF fetch.pages = 0 THEN Len(txs) ELSE fetch.top
           before == IF end THEN fetch.before ELSE Min(batch)
           stage == IF end \/ fetch.pages + 1 = MaxPages THEN "load" ELSE "page"
           whole == fetch.whole /\ kept /\ (end \/ fetch.pages + 1 < MaxPages)
           f == [fetch EXCEPT !.pages = pages, !.top = top, !.before = before, !.stage = stage, !.whole = whole]
<1>9. fetch' = f
  BY <1>1, Zenon
<1> HIDE DEF f, pages, top, before, stage, whole
<1>10. ~end => Min(batch) \in batch
  BY <1>6, <1>8, MaxMinIn
<1> HIDE DEF batch
<1>11. pages \in 0..MaxPages /\ top \in Nat /\ top <= Len(txs) /\ fetch.top <= top
  BY <1>3, <1>6, TradesAssumption DEF pages, top
<1>12. before \in Nat /\ before <= MaxTx + 1 /\ (end => before = fetch.before)
  <2>1. CASE end
    BY <1>3, <2>1, Zenon DEF before
  <2>2. CASE ~end
    <3> DEFINE m == Min(batch)
    <3>1. m \in batch /\ before = m
      BY <1>10, <2>2, Zenon DEF before
    <3> HIDE DEF m
    <3>2. m \in Nat /\ m <= MaxTx + 1
      BY <1>3, <1>6, <3>1, TradesAssumption
    <3> QED BY <2>2, <3>1, <3>2, Zenon
  <2> QED BY <2>1, <2>2, Zenon
<1>13. /\ stage \in {"load", "page"} /\ (stage = "page" => ~end /\ pages # MaxPages)
       /\ (whole => fetch.whole /\ kept /\ (stage = "load" => end))
  <2>1. fetch.pages + 1 < MaxPages => fetch.pages + 1 # MaxPages
    BY <1>3, TradesAssumption
  <2>2. stage \in {"load", "page"} /\ (stage = "page" => ~end /\ pages # MaxPages)
    BY DEF stage, pages
  <2>3. stage = "load" => end \/ fetch.pages + 1 = MaxPages
    BY DEF stage
  <2> QED BY <2>1, <2>2, <2>3, Zenon DEF whole
<1>14. whole \in BOOLEAN
  BY Zenon DEF whole
<1>15. f \in FetchState
  <2>1. stage \in WalletPages
    BY <1>13 DEF WalletPages
  <2> QED BY <1>3, <1>11, <1>12, <1>14, <2>1 DEF FetchState, f
<1>16. /\ f.left = fetch.left /\ f.known = fetch.known /\ f.pages = pages /\ f.top = top
       /\ f.before = before /\ f.stage = stage
  BY <1>3 DEF FetchState, f
<1>17. f.whole <=> whole
  BY <1>3, Zenon DEF FetchState, f
<1>18. stored \subseteq stored' /\ RowsRight(stored', txs)
  <2>1. batch \subseteq DOMAIN txs
    BY <1>5
  <2> QED BY <1>1, <1>4, <2>1, SavedKeeps, Zenon DEF TradeInv, batch
<1>19. kept => \A s \in batch : IsSwap(Wallet, txs[s]) => HasRow(s, stored')
  <2>1. batch \subseteq DOMAIN txs
    BY <1>5
  <2> QED BY <1>1, <1>4, <2>1, SavedKeeps, Zenon DEF batch
<1>20. CachesRight(swaps, stored') /\ TradesRight(trades, stored')
  BY <1>18, MoreRows, Zenon
<1>21. ASSUME f.whole, NEW s \in DOMAIN txs, Wants(Wallet, s, txs, f), s >= fetch.before
       PROVE  HasRow(s, stored')
  <2>1. fetch.pages # 0
    <3>1. s \in 1..Len(txs)
      BY <1>3
    <3> QED BY <1>3, <1>6, <1>21, <3>1, TradesAssumption
  <2>2. Wants(Wallet, s, txs, fetch)
    BY <1>16, <1>21, <2>1 DEF Wants, top
  <2>3. HasRow(s, stored)
    <3>1. fetch.whole
      BY <1>13, <1>17, <1>21, Zenon
    <3>2. SyncRight(fetch, txs, stored)
      BY DEF TradeInv
    <3> QED BY <1>2, <1>4, <1>21, <2>2, <3>1, <3>2, Zenon DEF SyncRight
  <2> QED BY <1>18, <2>3, Zenon DEF HasRow
<1>22. ASSUME f.whole, NEW s \in batch, Wants(Wallet, s, txs, f) PROVE HasRow(s, stored')
  <2>1. kept
    BY <1>13, <1>17, <1>22, Zenon
  <2> QED BY <1>19, <1>22, <2>1, Zenon DEF Wants
<1>23. SyncRight(f, txs, stored')
  <2>1. f.top <= Len(txs) /\ f.before <= MaxTx + 1 /\ f.stage # "wallet"
    BY <1>11, <1>12, <1>13, <1>16
  <2>2. ASSUME f.stage = "page" PROVE f.pages < MaxPages /\ f.pages # 0
    BY <1>11, <1>13, <1>16, <1>3, <2>2, TradesAssumption DEF pages
  <2>3. ASSUME f.stage = "page", f.whole, NEW s \in DOMAIN txs, Wants(Wallet, s, txs, f), s >= f.before
        PROVE  HasRow(s, stored')
    <3>1. f.before = Min(batch) /\ Min(batch) \in batch
      BY <1>10, <1>13, <1>16, <2>3 DEF before
    <3>2. CASE s >= fetch.before
      BY <1>21, <2>3, <3>2, Zenon
    <3>3. CASE s < fetch.before
      <4>1. Min(batch) <= s /\ Wallet \in txs[s].wallets
        <5>1. f.before <= s /\ f.before \in Nat /\ s \in Nat
          BY <1>3, <1>12, <1>16, <2>3
        <5> QED BY <2>3, <3>1, <5>1, Zenon DEF Wants
      <4>2. s \in batch
        BY <1>5, <3>1, <3>3, <4>1, Zenon
      <4> QED BY <1>22, <2>3, <4>2, Zenon
    <3>4. s \in Nat
      BY <1>3
    <3> QED BY <1>3, <3>2, <3>3, <3>4
  <2>4. ASSUME f.stage = "load", f.whole, NEW s \in DOMAIN txs, Wants(Wallet, s, txs, f), s >= Cutoff,
               \A k \in f.known : k < s
        PROVE  HasRow(s, stored')
    <3>1. end
      BY <1>13, <1>16, <1>17, <2>4, Zenon
    <3>2. CASE s >= fetch.before
      BY <1>21, <2>4, <3>2, Zenon
    <3>3. CASE s < fetch.before
      <4>1. Wallet \in txs[s].wallets
        BY <2>4 DEF Wants
      <4>2. batch # {}
        BY <1>5, <3>3, <4>1, Zenon
      <4>3. PICK t \in batch : t \in fetch.known \/ t < Cutoff
        BY <1>7, <3>1, <4>2, Zenon DEF end
      <4>4. t <= s
        <5>1. s \in Nat /\ t \in Nat
          BY <1>3, <1>6
        <5>2. CASE t \in fetch.known
          <6>1. t < s
            BY <1>16, <2>4, <5>2, Zenon
          <6> QED BY <5>1, <6>1
        <5>3. CASE t < Cutoff
          BY <2>4, <5>1, <5>3, TradesAssumption
        <5> QED BY <4>3, <5>2, <5>3
      <4>5. s \in batch
        BY <1>5, <3>3, <4>1, <4>4, Zenon
      <4> QED BY <1>22, <2>4, <4>5, Zenon
    <3>4. s \in Nat
      BY <1>3
    <3> QED BY <1>3, <3>2, <3>3, <3>4
  <2> QED BY <1>4, <1>16, <2>1, <2>2, <2>3, <2>4, Zenon DEF SyncRight
<1>24. TradeTables'
  BY <1>2, <1>9, <1>15, Zenon DEF TradeInv, TradeTables
<1>25. InTurn(fetch', trades')
  BY <1>2, <1>9, <1>16, Zenon DEF TradeInv, InTurn
<1> QED BY <1>2, <1>9, <1>18, <1>20, <1>23, <1>24, <1>25, Zenon DEF TradeInv

LEMMA TradeInvStep == TradeInv /\ [HistoryStep]_historyVars => TradeInv'
<1> SUFFICES ASSUME TradeInv, [HistoryStep]_historyVars PROVE TradeInv'
  OBVIOUS
<1>1. CASE UNCHANGED historyVars
  BY <1>1 DEF historyVars, TradeInv, TradeTables
<1>2. CASE HistoryStep
  BY <1>2, LandKeeps, AsideKeeps, FetchAllKeeps, CacheHitKeeps, ReadKnownKeeps, FetchPageKeeps, PageFailsKeeps,
     LoadKeeps, ExpiryKeeps, Zenon DEF HistoryStep
<1> QED BY <1>1, <1>2

TradesSpec == HistoryInit /\ [][HistoryStep]_historyVars

LEMMA TradeInvAlways == TradesSpec => []TradeInv
BY TradeInit0, TradeInvStep, PTL DEF TradesSpec

(* The caches, the rows and the call that reads the trade history have     *)
(* their types.                                                            *)
THEOREM TradeTypes == TradesSpec => []HistoryTypeOK
<1>1. TradeInv => HistoryTypeOK
  <2> SUFFICES ASSUME TradeInv PROVE HistoryTypeOK
    OBVIOUS
  <2>1. fetch.pages \in 0..MaxPages /\ fetch.stage \in {"wallet", "page", "load"}
    BY FetchFields DEF TradeInv, TradeTables, WalletPages
  <2>2. Len(trades) + Len(fetch.left) \in {0, Cardinality(Holders)}
    <3>1. Len(trades) \in Nat
      BY DEF TradeInv, TradeTables
    <3>2. fetch.left = <<>> => Len(fetch.left) = 0
      OBVIOUS
    <3> QED BY <3>1, <3>2 DEF TradeInv, InTurn
  <2> QED BY <2>1, <2>2 DEF TradeInv, TradeTables, RowsRight, HistoryTypeOK
<1> QED BY <1>1, TradeInvAlways, PTL

(* The trades of two wallets of a user share no transaction, and a sync    *)
(* that met neither an error nor the limit of pages has stored all it      *)
(* wants that is newer than what it knew, for any wallets, transactions    *)
(* and pages.                                                              *)
THEOREM HistoryIsAlwaysWhole == TradesSpec => []HistoryIsWhole
<1>1. TradeInv => HistoryIsWhole
  <2> SUFFICES ASSUME TradeInv PROVE HistoryIsWhole
    OBVIOUS
  <2>1. ASSUME NEW i \in DOMAIN trades, NEW j \in DOMAIN trades, NEW x \in trades[i] \cap trades[j]
        PROVE  i = j
    <3>1. /\ i \in 1..Cardinality(Holders) /\ x \in SignedBy(Order[i], stored)
          /\ j \in 1..Cardinality(Holders) /\ x \in SignedBy(Order[j], stored)
      BY Zenon DEF TradeInv, TradesRight
    <3>2. PICK r \in stored : r.sig = x /\ r.signer = Order[i]
      BY <3>1 DEF SignedBy
    <3>3. PICK o \in stored : o.sig = x /\ o.signer = Order[j]
      BY <3>1 DEF SignedBy
    <3>4. r = o
      BY <3>2, <3>3, Zenon DEF TradeInv, RowsRight
    <3>5. Order[i] = Order[j]
      BY <3>2, <3>3, <3>4, Zenon
    <3> QED BY <3>1, <3>5, OrderIsOnce, Zenon
  <2>2. \A i, j \in DOMAIN trades : i # j => trades[i] \cap trades[j] = {}
    BY <2>1, Zenon
  <2>3. ASSUME Working("load"), fetch.whole, NEW s \in DOMAIN txs,
               Wallet \in txs[s].wallets, IsSwap(Wallet, txs[s]), s >= Cutoff,
               s <= fetch.top, \A k \in fetch.known : k < s
        PROVE  \E r \in stored : r.sig = s
    <3>1. fetch.left # <<>> /\ fetch.stage = "load"
      BY <2>3, Zenon DEF Working
    <3>2. Wants(Head(fetch.left), s, txs, fetch)
      BY <2>3, Zenon DEF Wants, Wallet
    <3>3. HasRow(s, stored)
      BY <2>3, <3>1, <3>2, Zenon DEF TradeInv, SyncRight
    <3> QED BY <3>3, Zenon DEF HasRow
  <2> QED BY <2>2, <2>3, Zenon DEF HistoryIsWhole
<1> QED BY <1>1, TradeInvAlways, PTL

(***************************************************************************)
(* PortfolioPnl.  Cost, proceeds and profit add up and the endpoints       *)
(* agree, for any swaps, prices and days.                                  *)
(***************************************************************************)
(* One value of a function is replaced or added.                           *)
LEMMA SumWith ==
  ASSUME NEW f, IsFiniteSet(DOMAIN f), \A x \in DOMAIN f : f[x] \in Int, NEW m, NEW v \in Int
  PROVE  SumFunction(With(f, m, v)) = SumFunction(f) - Of(f, m, 0) + v
<1> DEFINE w == With(f, m, v)
           R == DOMAIN f \ {m}
<1>1. /\ DOMAIN w = DOMAIN f \cup {m} /\ w[m] = v /\ \A x \in R : w[x] = f[x]
  BY DEF With
<1>2. IsFiniteSet(R) /\ m \notin R /\ DOMAIN w = R \cup {m}
  BY <1>1, FS_Subset
<1>3. TotalOf(w, R) = TotalOf(f, R)
  BY <1>1, <1>2, TotalSame
<1>4. \A x \in R \cup {m} : w[x] \in Int
  BY <1>1
<1> HIDE DEF w
<1>5. TotalOf(w, R) \in Int /\ TotalOf(w, R \cup {m}) = v + TotalOf(w, R)
  BY <1>1, <1>2, <1>4, TotalMore
<1>6. SumFunction(w) = TotalOf(w, DOMAIN w) /\ SumFunction(f) = TotalOf(f, DOMAIN f)
  BY DEF SumFunction, TotalOf
<1>7. CASE m \in DOMAIN f
  <2>1. DOMAIN f = R \cup {m} /\ \A x \in R \cup {m} : f[x] \in Int
    BY <1>7
  <2> HIDE DEF R
  <2>2. TotalOf(f, R \cup {m}) = f[m] + TotalOf(f, R)
    BY <1>2, <2>1, TotalMore
  <2>3. f[m] \in Int /\ Of(f, m, 0) = f[m]
    BY <1>7 DEF Of
  <2>4. SumFunction(f) = f[m] + TotalOf(f, R)
    BY <1>6, <2>1, <2>2
  <2>5. SumFunction(w) = v + TotalOf(f, R)
    BY <1>2, <1>3, <1>5, <1>6
  <2> QED BY <1>3, <1>5, <2>3, <2>4, <2>5 DEF w
<1>8. CASE m \notin DOMAIN f
  <2>1. DOMAIN f = R /\ Of(f, m, 0) = 0
    BY <1>8 DEF Of
  <2> HIDE DEF R
  <2>2. SumFunction(w) = v + TotalOf(f, R) /\ SumFunction(f) = TotalOf(f, R)
    BY <1>2, <1>3, <1>5, <1>6, <2>1
  <2> QED BY <1>3, <1>5, <2>1, <2>2 DEF w
<1> QED BY <1>7, <1>8

(***************************************************************************)
(* One swap                                                                *)
(***************************************************************************)
PnlRecord == [pnl : Int, investment : Nat, bought : Nat, spent : Nat]
Lot == [bought : Nat, spent : Nat]
ReadRecord == [isBuy : BOOLEAN, mint : STRING, sol : Nat \ {0}, tokens : Nat \ {0}]

LEMMA Quotient ==
  ASSUME NEW a \in Nat, NEW p \in Nat \ {0}
  PROVE  a \div p \in Nat /\ p * (a \div p) <= a /\ a < p * (a \div p) + p
OBVIOUS

(* The cost of a part of a lot is at most what the lot cost.               *)
LEMMA CostIs ==
  ASSUME NEW r \in ReadRecord, NEW lot, lot.bought \in Nat, lot.spent \in Nat
  PROVE  /\ Cost(r, lot) \in Nat
         /\ r.tokens <= lot.bought => Cost(r, lot) <= lot.spent
<1>1. PICK k \in Nat \ {0}, b \in Nat, s \in Nat : k = r.tokens /\ b = lot.bought /\ s = lot.spent
  BY DEF ReadRecord
<1>2. CASE b = 0
  BY <1>1, <1>2 DEF Cost
<1>3. CASE b # 0
  <2>1. Cost(r, lot) = (k * s) \div b
    BY <1>1, <1>3 DEF Cost
  <2>2. k * s \in Nat
    BY <1>1
  <2>3. PICK q \in Nat : q = (k * s) \div b /\ b * q <= k * s
    BY <1>3, <2>2, Quotient
  <2>4. ASSUME k <= b PROVE q <= s
    <3>1. k * s <= b * s /\ b * s \in Nat
      BY <2>4
    <3>2. ASSUME q > s PROVE FALSE
      <4>1. q >= s + 1
        BY <3>2
      <4>2. b * q >= b * (s + 1) /\ b * (s + 1) = b * s + b
        BY <4>1
      <4> QED BY <1>3, <2>2, <2>3, <3>1, <4>2
    <3> QED BY <3>2
  <2> QED BY <1>1, <2>1, <2>3, <2>4
<1> QED BY <1>2, <1>3

PnlTransfer == [mint : STRING, amount : Nat, from : BOOLEAN, to : BOOLEAN]
Recorded == [day : Nat, price : Nat]

LEMMA FirstIs ==
  ASSUME NEW swap \in Swaps, NEW side, NEW t \in FirstTransfer(swap.transfers, side)
  PROVE  t.mint \in STRING /\ t.amount \in Nat
<1>1. swap.transfers \in Seq(PnlTransfer)
  BY PnlAssumption DEF PnlTransfer
<1> DEFINE ts == swap.transfers
           some == {i \in DOMAIN ts : ts[i][side]}
<1>2. some # {} /\ t = ts[Min(some)]
  BY DEF FirstTransfer
<1>3. Len(ts) \in Nat /\ some \in SUBSET (1..Len(ts))
  BY <1>1
<1>4. Min(some) \in some
  <2> HIDE DEF some
  <2> QED BY <1>2, <1>3, MaxMinIn
<1>5. t \in PnlTransfer
  <2>1. PICK i \in 1..Len(ts) : i = Min(some)
    BY <1>3, <1>4
  <2>2. t = ts[i]
    BY <1>2, <2>1
  <2> HIDE DEF some
  <2> QED BY <1>1, <2>2
<1> QED BY <1>5 DEF PnlTransfer

LEMMA ReadingIs ==
  ASSUME NEW swap \in Swaps, NEW r \in Reading(swap.transfers)
  PROVE  r \in ReadRecord
<1>1. PICK out \in FirstTransfer(swap.transfers, "from"), in \in FirstTransfer(swap.transfers, "to") :
        /\ r = [isBuy |-> in.mint # Sol,
                mint |-> IF in.mint # Sol THEN in.mint ELSE out.mint,
                sol |-> IF in.mint # Sol THEN out.amount ELSE in.amount,
                tokens |-> IF in.mint # Sol THEN in.amount ELSE out.amount]
        /\ r.sol # 0 /\ r.tokens # 0
  BY DEF Reading
<1>2. out.amount \in Nat /\ in.amount \in Nat /\ out.mint \in STRING /\ in.mint \in STRING
  BY FirstIs
<1> QED BY <1>1, <1>2 DEF ReadRecord

LEMMA BuyIs ==
  ASSUME NEW r \in ReadRecord, NEW old \in PnlRecord, r.isBuy
  PROVE  /\ Record(r, old) \in PnlRecord
         /\ Record(r, old).bought = old.bought + r.tokens
         /\ Record(r, old).spent = old.spent + r.sol
         /\ Record(r, old).investment = old.investment + r.sol
         /\ Record(r, old).pnl = old.pnl
<1>1. /\ old.pnl \in Int /\ old.investment \in Nat /\ old.bought \in Nat /\ old.spent \in Nat
      /\ r.sol \in Nat /\ r.tokens \in Nat
  BY DEF PnlRecord, ReadRecord
<1>2. Record(r, old) = [pnl |-> old.pnl, investment |-> old.investment + r.sol,
                        bought |-> old.bought + r.tokens, spent |-> old.spent + r.sol]
  BY DEF Record, More, PnlRecord
<1>3. /\ old.investment + r.sol \in Nat /\ old.bought + r.tokens \in Nat
      /\ old.spent + r.sol \in Nat
  BY <1>1
<1> QED BY <1>1, <1>2, <1>3 DEF PnlRecord

LEMMA SaleIs ==
  ASSUME NEW r \in ReadRecord, NEW old \in PnlRecord, ~r.isBuy
  PROVE  /\ Record(r, old) \in PnlRecord
         /\ old.bought > 0 =>
              /\ Record(r, old).bought = AtLeast0(old.bought - r.tokens)
              /\ Record(r, old).spent = AtLeast0(old.spent - Cost(r, old))
              /\ Record(r, old).investment = old.investment
              /\ Record(r, old).pnl = old.pnl + r.sol - Cost(r, old)
<1>1. /\ old.pnl \in Int /\ old.investment \in Nat /\ old.bought \in Nat /\ old.spent \in Nat
      /\ r.sol \in Nat /\ r.tokens \in Nat
  BY DEF PnlRecord, ReadRecord
<1>2. PICK c \in Nat : c = Cost(r, old)
  BY <1>1, CostIs
<1>3. \A n \in Int : AtLeast0(n) \in Nat
  BY DEF AtLeast0
<1>5. CASE old.bought > 0
  <2>1. PICK b \in Nat, s \in Nat : b = AtLeast0(old.bought - r.tokens) /\ s = AtLeast0(old.spent - c)
    BY <1>1, <1>3
  <2>2. Left(r, old) = [old EXCEPT !.bought = b, !.spent = s]
    BY <1>2, <2>1 DEF Left, PnlRecord
  <2>3. Record(r, old) = [[old EXCEPT !.bought = b, !.spent = s] EXCEPT !.pnl = @ + r.sol - c]
    BY <1>2, <1>5, <2>2 DEF Record
  <2>4. Record(r, old) = [pnl |-> old.pnl + r.sol - c, investment |-> old.investment, bought |-> b, spent |-> s]
    BY <2>3 DEF PnlRecord
  <2>5. old.pnl + r.sol - c \in Int
    BY <1>1
  <2> QED BY <1>1, <1>2, <2>1, <2>4, <2>5 DEF PnlRecord
<1>6. CASE ~(old.bought > 0)
  BY <1>6 DEF Record
<1> QED BY <1>5, <1>6

(* A lot that runs out has cost all it was bought for.                     *)
LEMMA LotRunsOut ==
  ASSUME NEW r \in ReadRecord, NEW old \in PnlRecord, old.bought = 0 => old.spent = 0
  PROVE  Record(r, old).bought = 0 => Record(r, old).spent = 0
<1>1. PICK b \in Nat, s \in Nat, k \in Nat \ {0}, c \in Nat, n \in Nat :
        b = old.bought /\ s = old.spent /\ k = r.tokens /\ c = Cost(r, old) /\ n = r.sol
  BY CostIs DEF PnlRecord, ReadRecord
<1>2. CASE r.isBuy
  BY <1>1, <1>2, BuyIs
<1>3. CASE ~r.isBuy /\ b = 0
  <2>1. Record(r, old) = old
    BY <1>1, <1>3 DEF Record
  <2> QED BY <2>1
<1>4. CASE ~r.isBuy /\ b # 0
  <2>1. Record(r, old).bought = AtLeast0(b - k) /\ Record(r, old).spent = AtLeast0(s - c)
    BY <1>1, <1>4, SaleIs
  <2>2. ASSUME k >= b PROVE c >= s
    <3>1. c = (k * s) \div b
      BY <1>1, <1>4 DEF Cost
    <3>2. k * s \in Nat /\ b * s \in Nat /\ b * s <= k * s
      BY <2>2
    <3>3. k * s < b * c + b
      BY <1>4, <3>1, <3>2, Quotient
    <3>4. ASSUME c < s PROVE FALSE
      <4>1. b * (c + 1) <= b * s /\ b * (c + 1) = b * c + b
        BY <3>4
      <4> QED BY <3>2, <3>3, <4>1
    <3> QED BY <3>4
  <2> QED BY <2>1, <2>2 DEF AtLeast0
<1> QED BY <1>2, <1>3, <1>4

(* The lot of the chart changes as that of the record does.                *)
LEMMA LotIs ==
  ASSUME NEW r \in ReadRecord, NEW old \in PnlRecord, NEW lot \in Lot,
         lot.bought = old.bought, lot.spent = old.spent, r.isBuy \/ old.bought > 0
  PROVE  /\ Cost(r, lot) = Cost(r, old)
         /\ r.isBuy => /\ More(r, lot) \in Lot
                       /\ More(r, lot).bought = Record(r, old).bought
                       /\ More(r, lot).spent = Record(r, old).spent
         /\ ~r.isBuy => /\ Left(r, lot) \in Lot
                        /\ Left(r, lot).bought = Record(r, old).bought
                        /\ Left(r, lot).spent = Record(r, old).spent
<1>1. Cost(r, lot) = Cost(r, old) /\ Cost(r, lot) \in Nat
  BY CostIs DEF Cost, Lot
<1>2. \A n \in Int : AtLeast0(n) \in Nat
  BY DEF AtLeast0
<1>3. ASSUME r.isBuy
      PROVE  /\ More(r, lot) \in Lot
             /\ More(r, lot).bought = Record(r, old).bought
             /\ More(r, lot).spent = Record(r, old).spent
  <2>1. PICK b \in Nat, s \in Nat : b = lot.bought + r.tokens /\ s = lot.spent + r.sol
    BY DEF Lot, ReadRecord
  <2>2. More(r, lot) = [lot EXCEPT !.bought = b, !.spent = s]
    BY <2>1 DEF More, Lot
  <2>3. More(r, lot) \in Lot /\ More(r, lot).bought = b /\ More(r, lot).spent = s
    BY <2>2 DEF Lot
  <2>4. Record(r, old).bought = old.bought + r.tokens /\ Record(r, old).spent = old.spent + r.sol
    BY <1>3, BuyIs
  <2> QED BY <2>1, <2>3, <2>4
<1>4. ASSUME ~r.isBuy
      PROVE  /\ Left(r, lot) \in Lot
             /\ Left(r, lot).bought = Record(r, old).bought
             /\ Left(r, lot).spent = Record(r, old).spent
  <2>1. PICK b \in Nat, s \in Nat :
          b = AtLeast0(lot.bought - r.tokens) /\ s = AtLeast0(lot.spent - Cost(r, lot))
    BY <1>1, <1>2 DEF Lot, ReadRecord
  <2>2. Left(r, lot) = [lot EXCEPT !.bought = b, !.spent = s]
    BY <2>1 DEF Left, Lot
  <2>3. Left(r, lot) \in Lot /\ Left(r, lot).bought = b /\ Left(r, lot).spent = s
    BY <2>2 DEF Lot
  <2>4. Record(r, old).bought = b /\ Record(r, old).spent = s
    BY <1>1, <1>4, <2>1, SaleIs
  <2> QED BY <2>3, <2>4
<1> QED BY <1>1, <1>3, <1>4

(***************************************************************************)
(* The invariant                                                           *)
(***************************************************************************)
PnlSpec == PnlInit /\ [][PnlStep]_pnlVars

Earned(map) == [m \in DOMAIN map |-> map[m].pnl]

(* A lot without tokens costs nothing.                                     *)
Priced(rec) == rec.bought = 0 => rec.spent = 0

MapOK(map) == IsFiniteSet(DOMAIN map) /\ \A m \in DOMAIN map : map[m] \in PnlRecord /\ Priced(map[m])

ReceivedOK(got, map) == DOMAIN got \subseteq DOMAIN map /\ \A m \in DOMAIN got : got[m] \in Nat

(* What was earned, received and still is in the lots makes up the sums.   *)
CostsOK(got, map) ==
  \A m \in DOMAIN map : map[m].pnl = Of(got, m, 0) - map[m].investment + map[m].spent

(* The chart holds the same lots and the same profit.                      *)
ChartOK(lots, sum, map) ==
  /\ DOMAIN lots = DOMAIN map
  /\ \A m \in DOMAIN map : lots[m] \in Lot /\ lots[m].bought = map[m].bought /\ lots[m].spent = map[m].spent
  /\ sum = SumFunction(Earned(map))

PricesOK(chart) ==
  IsFiniteSet(DOMAIN chart) /\ DOMAIN chart \subseteq Nat /\ chart \in [DOMAIN chart -> Nat]

PnlInv ==
  /\ MapOK(pnlMap) /\ ReceivedOK(received, pnlMap) /\ PricesOK(priceChart)
  /\ covered => CostsOK(received, pnlMap)
  /\ covered /\ comparable => ChartOK(runningHoldings, cumulativePnlSol, pnlMap)

LEMMA PricesInit == ASSUME NEW events \in SolPrices PROVE PricesOK(DailyClose(events))
<1> DEFINE positive == {i \in DOMAIN events : events[i].price > 0}
           days == {events[i].day : i \in positive}
           lastOf(d) == {i \in positive : events[i].day = d}
<1>1. events \in Seq(Recorded) /\ Len(events) \in Nat /\ DOMAIN events = 1..Len(events)
  <2>1. events \in Seq(Recorded)
    BY PnlAssumption DEF Recorded
  <2> QED BY <2>1
<1>2. positive \in SUBSET (1..Len(events)) /\ IsFiniteSet(positive)
  <2>1. positive \in SUBSET (1..Len(events))
    BY <1>1
  <2>2. IsFiniteSet(1..Len(events))
    BY <1>1, FS_Interval
  <2> HIDE DEF positive
  <2> QED BY <2>1, <2>2, FS_Subset
<1>3. IsFiniteSet(days)
  <2> DEFINE f == [i \in positive |-> events[i].day]
  <2>1. f \in Surjection(positive, days)
    BY DEF Surjection
  <2> HIDE DEF f, positive, days
  <2> QED BY <1>2, <2>1, FS_Surjection
<1>4. ASSUME NEW d \in days PROVE events[Max(lastOf(d))].price \in Nat
  <2>1. lastOf(d) # {} /\ lastOf(d) \in SUBSET (1..Len(events))
    BY <1>2
  <2> HIDE DEF lastOf
  <2>2. Max(lastOf(d)) \in 1..Len(events)
    BY <1>1, <2>1, MaxMinIn
  <2>3. PICK i \in 1..Len(events) : i = Max(lastOf(d))
    BY <2>2
  <2>4. events[i] \in Recorded
    BY <1>1
  <2> QED BY <2>3, <2>4 DEF Recorded
<1>5. DailyClose(events) = [d \in days |-> events[Max(lastOf(d))].price]
  BY DEF DailyClose
<1>6. days \subseteq Nat
  <2>1. \A i \in 1..Len(events) : events[i] \in Recorded
    BY <1>1
  <2> QED BY <1>2, <2>1 DEF Recorded
<1> HIDE DEF days, lastOf
<1> QED BY <1>3, <1>4, <1>5, <1>6 DEF PricesOK

LEMMA SumNone == ASSUME NEW f, DOMAIN f = {} PROVE SumFunction(f) = 0
BY TotalNone DEF SumFunction, TotalOf

LEMMA PnlInitInv == PnlInit => PnlInv
<1> SUFFICES ASSUME PnlInit PROVE PnlInv
  OBVIOUS
<1>1. pnlMap = Empty /\ received = Empty /\ runningHoldings = Empty /\ cumulativePnlSol = 0 /\ DOMAIN Empty = {}
  BY DEF PnlInit, Empty
<1>2. PricesOK(priceChart)
  BY PricesInit DEF PnlInit
<1>3. SumFunction(Earned(pnlMap)) = 0
  BY <1>1, SumNone DEF Earned
<1>4. IsFiniteSet(DOMAIN pnlMap)
  BY <1>1, FS_EmptySet
<1> QED BY <1>1, <1>2, <1>3, <1>4 DEF PnlInv, MapOK, ReceivedOK, CostsOK, ChartOK

(* A swap that is read and described, seen by calculatePnl.                *)
LEMMA RecordsKeep ==
  ASSUME NEW map, NEW got, MapOK(map), ReceivedOK(got, map),
         NEW r \in ReadRecord,
         NEW old, old = Of(map, r.mint, NoRecord),
         NEW newMap, newMap = With(map, r.mint, Record(r, old)),
         NEW newGot, newGot = IF r.isBuy THEN got ELSE With(got, r.mint, Of(got, r.mint, 0) + r.sol)
  PROVE  /\ old \in PnlRecord /\ MapOK(newMap) /\ ReceivedOK(newGot, newMap)
         /\ (r.isBuy \/ r.tokens <= old.bought) /\ CostsOK(got, map) => CostsOK(newGot, newMap)
<1> DEFINE m == r.mint
           rec == Record(r, old)
<1>1. NoRecord \in PnlRecord /\ Priced(NoRecord)
  BY DEF NoRecord, PnlRecord, Priced
<1>2. old \in PnlRecord /\ Priced(old)
  BY <1>1 DEF Of, MapOK
<1>3. rec \in PnlRecord /\ Priced(rec)
  <2>1. rec \in PnlRecord
    BY <1>2, BuyIs, SaleIs
  <2>2. Priced(rec)
    BY <1>2, LotRunsOut DEF Priced
  <2> QED BY <2>1, <2>2
<1>a. newMap = With(map, m, rec)
  OBVIOUS
<1> HIDE DEF rec
<1>4. DOMAIN newMap = DOMAIN map \cup {m} /\ newMap[m] = rec /\ \A k \in DOMAIN map : k # m => newMap[k] = map[k]
  <2> HIDE DEF m
  <2> QED BY <1>a DEF With
<1>5. MapOK(newMap)
  <2>1. IsFiniteSet(DOMAIN newMap)
    BY <1>4, FS_AddElement DEF MapOK
  <2> QED BY <1>3, <1>4, <2>1 DEF MapOK
<1>6. Of(got, m, 0) \in Nat
  BY DEF Of, ReceivedOK
<1> DEFINE more == With(got, m, Of(got, m, 0) + r.sol)
<1>8. newGot = IF r.isBuy THEN got ELSE more
  OBVIOUS
<1>7. PICK n \in Nat : n = Of(got, m, 0) + r.sol /\ DOMAIN more = DOMAIN got \cup {m} /\ more[m] = n
                    /\ \A k \in DOMAIN got : k # m => more[k] = got[k]
  <2>1. PICK n \in Nat : n = Of(got, m, 0) + r.sol
    BY <1>6 DEF ReadRecord
  <2>2. more = With(got, m, n)
    BY <2>1
  <2> HIDE DEF more, m
  <2> QED BY <2>1, <2>2 DEF With
<1> HIDE DEF more
<1>9. ReceivedOK(newGot, newMap)
  BY <1>4, <1>6, <1>7, <1>8 DEF ReceivedOK
<1>10. /\ Of(newGot, m, 0) = IF r.isBuy THEN Of(got, m, 0) ELSE Of(got, m, 0) + r.sol
       /\ \A k : k # m => Of(newGot, k, 0) = Of(got, k, 0)
  BY <1>7, <1>8 DEF Of
<1>11. ASSUME r.isBuy \/ r.tokens <= old.bought, CostsOK(got, map)
       PROVE  CostsOK(newGot, newMap)
  <2>1. old.pnl = Of(got, m, 0) - old.investment + old.spent
    <3>1. CASE m \in DOMAIN map
      BY <1>11, <3>1 DEF CostsOK, Of
    <3>2. CASE m \notin DOMAIN map
      BY <3>2 DEF Of, NoRecord, ReceivedOK
    <3> QED BY <3>1, <3>2
  <2>2. old.pnl \in Int /\ old.investment \in Nat /\ old.bought \in Nat /\ old.spent \in Nat
    BY <1>2 DEF PnlRecord
  <2>3. rec.pnl = Of(newGot, m, 0) - rec.investment + rec.spent
    <3>0. PICK x \in Nat, i \in Nat, s \in Nat, k \in Nat :
            /\ x = Of(got, m, 0) /\ i = old.investment /\ s = old.spent /\ k = r.sol
            /\ old.pnl = x - i + s
      BY <1>6, <2>1, <2>2 DEF ReadRecord
    <3>1. CASE r.isBuy
      <4>1. rec.pnl = old.pnl /\ rec.investment = old.investment + r.sol /\ rec.spent = old.spent + r.sol
        BY <1>2, <3>1, BuyIs DEF rec
      <4>2. Of(newGot, m, 0) = x
        BY <1>10, <3>0, <3>1
      <4> QED BY <3>0, <4>1, <4>2
    <3>2. CASE ~r.isBuy
      <4>1. r.tokens <= old.bought /\ old.bought > 0
        BY <1>11, <2>2, <3>2 DEF ReadRecord
      <4>2. PICK c \in Nat : c = Cost(r, old) /\ c <= old.spent
        BY <2>2, <4>1, CostIs
      <4>3. rec.pnl = old.pnl + r.sol - c /\ rec.investment = old.investment /\ rec.spent = AtLeast0(old.spent - c)
        BY <1>2, <3>2, <4>1, <4>2, SaleIs DEF rec
      <4>4. AtLeast0(old.spent - c) = old.spent - c
        BY <2>2, <4>2 DEF AtLeast0
      <4>5. Of(newGot, m, 0) = x + k
        BY <1>10, <3>0, <3>2
      <4> QED BY <3>0, <4>2, <4>3, <4>4, <4>5
    <3> QED BY <3>1, <3>2
  <2>4. ASSUME NEW k \in DOMAIN newMap, k # m
        PROVE  newMap[k].pnl = Of(newGot, k, 0) - newMap[k].investment + newMap[k].spent
    BY <1>4, <1>10, <1>11, <2>4 DEF CostsOK
  <2> QED BY <1>4, <2>3, <2>4 DEF CostsOK
<1> QED BY <1>2, <1>5, <1>9, <1>11

(* The same swap seen by the chart.                                        *)
LEMMA ChartKeeps ==
  ASSUME NEW map, MapOK(map), NEW lots, NEW sum, ChartOK(lots, sum, map),
         NEW r \in ReadRecord,
         NEW old \in PnlRecord, old = Of(map, r.mint, NoRecord), r.isBuy \/ r.tokens <= old.bought,
         NEW lot, lot = Of(lots, r.mint, NoHolding)
  PROVE  ChartOK(With(lots, r.mint, IF r.isBuy THEN More(r, lot) ELSE Left(r, lot)),
                 IF r.isBuy THEN sum ELSE sum + ChartGain(r, lot),
                 With(map, r.mint, Record(r, old)))
<1> DEFINE m == r.mint
           rec == Record(r, old)
           new == IF r.isBuy THEN More(r, lot) ELSE Left(r, lot)
           newMap == With(map, m, rec)
           newLots == With(lots, m, new)
           newSum == IF r.isBuy THEN sum ELSE sum + ChartGain(r, lot)
<1>1. lot \in Lot /\ lot.bought = old.bought /\ lot.spent = old.spent
  BY DEF Of, NoRecord, NoHolding, Lot, ChartOK
<1>2. old.bought \in Nat /\ old.pnl \in Int
  BY DEF PnlRecord
<1>3. r.isBuy \/ old.bought > 0
  BY <1>2 DEF ReadRecord
<1>4. new \in Lot /\ new.bought = rec.bought /\ new.spent = rec.spent /\ Cost(r, lot) = Cost(r, old)
  BY <1>1, <1>3, LotIs
<1>5. rec \in PnlRecord
  BY BuyIs, SaleIs
<1> HIDE DEF new, rec
<1>6. /\ DOMAIN newMap = DOMAIN map \cup {m} /\ newMap[m] = rec
      /\ \A k \in DOMAIN map : k # m => newMap[k] = map[k]
  <2> HIDE DEF m
  <2> QED BY DEF With
<1>7. /\ DOMAIN newLots = DOMAIN lots \cup {m} /\ newLots[m] = new
      /\ \A k \in DOMAIN lots : k # m => newLots[k] = lots[k]
  <2> HIDE DEF m
  <2> QED BY DEF With
<1>8. newSum = SumFunction(Earned(map)) - old.pnl + rec.pnl
  <2>1. PICK s \in Int : s = sum /\ s = SumFunction(Earned(map))
    <3>1. TotalOf(Earned(map), DOMAIN map) \in Int
      <4>1. \A k \in DOMAIN map : Earned(map)[k] \in Int
        BY DEF Earned, MapOK, PnlRecord
      <4> QED BY <4>1, TotalTyped DEF MapOK
    <3>2. DOMAIN Earned(map) = DOMAIN map
      BY DEF Earned
    <3> QED BY <3>1, <3>2 DEF SumFunction, TotalOf, ChartOK
  <2>2. CASE r.isBuy
    <3>1. rec.pnl = old.pnl
      BY <2>2, BuyIs DEF rec
    <3> QED BY <1>2, <2>1, <2>2, <3>1
  <2>3. CASE ~r.isBuy
    <3>1. rec.pnl = old.pnl + r.sol - Cost(r, old)
      BY <1>3, <2>3, SaleIs DEF rec
    <3>2. PICK c \in Nat : c = Cost(r, old)
      BY <1>2, CostIs DEF PnlRecord
    <3>3. PICK k \in Nat, x \in Int : k = r.sol /\ x = old.pnl
      BY <1>2 DEF ReadRecord
    <3>4. newSum = s + (k - c)
      BY <1>4, <2>1, <2>3, <3>2, <3>3 DEF ChartGain
    <3>5. rec.pnl = x + k - c
      BY <3>1, <3>2, <3>3
    <3> QED BY <2>1, <3>3, <3>4, <3>5
  <2> QED BY <2>2, <2>3
<1>9. SumFunction(Earned(newMap)) = SumFunction(Earned(map)) - old.pnl + rec.pnl
  <2>1. IsFiniteSet(DOMAIN Earned(map)) /\ \A k \in DOMAIN Earned(map) : Earned(map)[k] \in Int
    BY DEF Earned, MapOK, PnlRecord
  <2>2. rec.pnl \in Int
    BY <1>5 DEF PnlRecord
  <2>3. Of(Earned(map), m, 0) = old.pnl
    BY DEF Of, Earned, NoRecord
  <2>4. Earned(newMap) = With(Earned(map), m, rec.pnl)
    <3> HIDE DEF newMap, rec
    <3> QED BY <1>6 DEF Earned, With
  <2> HIDE DEF rec
  <2> QED BY <2>1, <2>2, <2>3, <2>4, SumWith
<1> HIDE DEF newMap, newLots, newSum, new, rec
<1>10. ChartOK(newLots, newSum, newMap)
  BY <1>4, <1>6, <1>7, <1>8, <1>9 DEF ChartOK
<1> QED BY <1>10 DEF newMap, newLots, newSum, new, rec

LEMMA ReplayKeeps == PnlInv /\ Replay => PnlInv'
<1> SUFFICES ASSUME PnlInv, Replay PROVE PnlInv'
  OBVIOUS
<1>1. PICK swap \in Swaps : CalculatePnl(swap) /\ ChartSwap(swap) /\ Observe(swap)
  BY DEF Replay
<1>2. UNCHANGED priceChart /\ (covered' => covered) /\ (comparable' => comparable)
  BY <1>1 DEF Replay, Observe
<1>3. CASE Reading(swap.transfers) = {}
  <2>1. UNCHANGED <<pnlMap, received, runningHoldings, cumulativePnlSol>>
    BY <1>1, <1>3 DEF CalculatePnl, ChartSwap, Observe
  <2> QED BY <1>2, <2>1 DEF PnlInv
<1>4. CASE Reading(swap.transfers) # {} /\ ~swap.described
  <2>1. UNCHANGED <<pnlMap, received>> /\ comparable' = FALSE
    BY <1>1, <1>4 DEF CalculatePnl, Observe
  <2> QED BY <1>2, <2>1 DEF PnlInv
<1>5. CASE Reading(swap.transfers) # {} /\ swap.described
  <2> DEFINE r == CHOOSE x \in Reading(swap.transfers) : TRUE
             old == Of(pnlMap, r.mint, NoRecord)
             lot == Of(runningHoldings, r.mint, NoHolding)
  <2>1. r \in Reading(swap.transfers) /\ r \in ReadRecord
    BY <1>5, ReadingIs
  <2>2. pnlMap' = With(pnlMap, r.mint, Record(r, old))
    BY <1>1, <1>5 DEF CalculatePnl
  <2>3. received' = IF r.isBuy THEN received ELSE With(received, r.mint, Of(received, r.mint, 0) + r.sol)
    BY <1>1, <1>5 DEF Observe
  <2>4. covered' => r.isBuy \/ r.tokens <= old.bought
    BY <1>1, <1>5, <2>1 DEF Observe
  <2>5. comparable' =>
          /\ cumulativePnlSol' = IF r.isBuy THEN cumulativePnlSol ELSE cumulativePnlSol + ChartGain(r, lot)
          /\ runningHoldings' = With(runningHoldings, r.mint, IF r.isBuy THEN More(r, lot) ELSE Left(r, lot))
    BY <1>1, <1>5 DEF ChartSwap, Observe
  <2> HIDE DEF r, old, lot
  <2>6. /\ old \in PnlRecord /\ MapOK(pnlMap') /\ ReceivedOK(received', pnlMap')
        /\ (r.isBuy \/ r.tokens <= old.bought) /\ CostsOK(received, pnlMap) => CostsOK(received', pnlMap')
    BY <2>1, <2>2, <2>3, RecordsKeep DEF PnlInv, old
  <2>7. ASSUME covered', comparable'
        PROVE  ChartOK(runningHoldings', cumulativePnlSol', pnlMap')
    <3>1. ChartOK(runningHoldings, cumulativePnlSol, pnlMap) /\ MapOK(pnlMap)
      BY <1>2, <2>7 DEF PnlInv
    <3> QED BY <2>1, <2>2, <2>4, <2>5, <2>6, <2>7, <3>1, ChartKeeps DEF old, lot
  <2> QED BY <1>2, <2>4, <2>6, <2>7 DEF PnlInv
<1> QED BY <1>3, <1>4, <1>5

LEMMA PnlStepInv == PnlInv /\ [PnlStep]_pnlVars => PnlInv'
<1> SUFFICES ASSUME PnlInv, [PnlStep]_pnlVars PROVE PnlInv'
  OBVIOUS
<1>1. CASE Replay
  BY <1>1, ReplayKeeps
<1>2. CASE StartOfChart
  BY <1>2 DEF PnlInv, StartOfChart
<1>3. CASE EndOfBucket
  BY <1>3 DEF PnlInv, EndOfBucket
<1>4. CASE UNCHANGED pnlVars
  BY <1>4 DEF PnlInv, pnlVars
<1> QED BY <1>1, <1>2, <1>3, <1>4 DEF PnlStep

(* The records of calculatePnl have their types and, while no sale         *)
(* exceeded its lot, its costs, proceeds and profit add up for each token; *)
(* while the chart saw the same swaps it holds the same lots and the same  *)
(* sum.                                                                    *)
THEOREM PnlInductive == PnlSpec => []PnlInv
BY PnlInitInv, PnlStepInv, PTL DEF PnlSpec

(***************************************************************************)
(* The types of PortfolioPnl.  The lots and the points have theirs         *)
(* whether or not the chart can be compared with the records.              *)
(***************************************************************************)
LotsOK(lots) == DOMAIN lots \subseteq STRING /\ \A m \in DOMAIN lots : lots[m] \in Lot

PointsOK(seq, d) == (\E S : seq \in Seq(S)) /\ Len(seq) = (IF d = 0 THEN 0 ELSE d - 1)

PnlCounts ==
  /\ LotsOK(runningHoldings)
  /\ day \in 0..LastDay /\ replayed \in 0..MaxSwaps /\ traded \subseteq 0..day
  /\ PointsOK(points, day) /\ PointsOK(earnedBy, day)

LEMMA LotMoves ==
  ASSUME NEW r \in ReadRecord, NEW lot \in Lot
  PROVE  More(r, lot) \in Lot /\ Left(r, lot) \in Lot
<1>1. /\ r.tokens \in Nat /\ r.sol \in Nat /\ lot.bought \in Nat /\ lot.spent \in Nat
      /\ lot = [bought |-> lot.bought, spent |-> lot.spent]
  BY DEF ReadRecord, Lot
<1>2. PICK c \in Nat : c = Cost(r, lot)
  BY <1>1, CostIs
<1>3. \A i \in Int : AtLeast0(i) \in Nat
  BY DEF AtLeast0
<1>4. PICK b \in Nat, s \in Nat, d \in Nat, e \in Nat :
        /\ b = AtLeast0(lot.bought - r.tokens) /\ s = AtLeast0(lot.spent - c)
        /\ d = lot.bought + r.tokens /\ e = lot.spent + r.sol
  BY <1>1, <1>2, <1>3
<1>5. Left(r, lot) = [lot EXCEPT !.bought = b, !.spent = s]
  BY <1>1, <1>2, <1>4 DEF Left
<1>6. More(r, lot) = [lot EXCEPT !.bought = d, !.spent = e]
  BY <1>1, <1>4 DEF More
<1> QED BY <1>5, <1>6 DEF Lot

LEMMA LotsMove ==
  ASSUME NEW lots, LotsOK(lots), NEW m \in STRING, NEW v \in Lot
  PROVE  LotsOK(With(lots, m, v))
BY DEF LotsOK, With

LEMMA PnlCountsInit == PnlInit => PnlCounts
<1> SUFFICES ASSUME PnlInit PROVE PnlCounts
  OBVIOUS
<1>1. LotsOK(runningHoldings)
  BY DEF PnlInit, Empty, LotsOK
<1>2. PointsOK(points, day) /\ PointsOK(earnedBy, day)
  <2>1. points = <<>> /\ earnedBy = <<>> /\ day = 0
    BY DEF PnlInit
  <2>2. <<>> \in Seq({}) /\ Len(<<>>) = 0
    OBVIOUS
  <2> QED BY <2>1, <2>2 DEF PointsOK
<1>3. day = 0 /\ replayed = 0 /\ traded = {}
  BY DEF PnlInit
<1> QED BY <1>1, <1>2, <1>3, PnlAssumption DEF PnlCounts

LEMMA PointAdded ==
  ASSUME NEW seq, NEW d \in Nat \ {0}, PointsOK(seq, d), NEW v
  PROVE  /\ PointsOK(Append(seq, v), d + 1) /\ Len(Append(seq, v)) = d
         /\ Append(seq, v)[d] = v /\ \A i \in 1..(d - 1) : Append(seq, v)[i] = seq[i]
<1>1. PICK S : seq \in Seq(S) /\ Len(seq) = d - 1
  BY DEF PointsOK
<1>2. seq \in Seq(S \cup {v})
  BY <1>1
<1>3. Append(seq, v) \in Seq(S \cup {v}) /\ Len(Append(seq, v)) = d
  BY <1>1, <1>2
<1> QED BY <1>1, <1>2, <1>3 DEF PointsOK

LEMMA PnlCountsStep == PnlCounts /\ [PnlStep]_pnlVars => PnlCounts'
<1> SUFFICES ASSUME PnlCounts, [PnlStep]_pnlVars PROVE PnlCounts'
  OBVIOUS
<1>1. CASE Replay
  <2>1. PICK swap \in Swaps : ChartSwap(swap)
    BY <1>1 DEF Replay
  <2>2. LotsOK(runningHoldings')
    <3>1. CASE UNCHANGED runningHoldings
      BY <3>1 DEF PnlCounts
    <3>2. CASE ~ UNCHANGED runningHoldings
      <4> DEFINE r == CHOOSE x \in Reading(swap.transfers) : TRUE
                 lot == Of(runningHoldings, r.mint, NoHolding)
      <4>1. Reading(swap.transfers) # {}
        BY <2>1, <3>2 DEF ChartSwap
      <4>2. r \in Reading(swap.transfers) /\ r \in ReadRecord
        BY <4>1, ReadingIs
      <4>3. runningHoldings' = With(runningHoldings, r.mint, IF r.isBuy THEN More(r, lot) ELSE Left(r, lot))
        BY <2>1, <3>2 DEF ChartSwap
      <4> HIDE DEF r
      <4>4. NoHolding \in Lot
        BY DEF NoHolding, Lot
      <4>5. lot \in Lot
        BY <4>4 DEF PnlCounts, LotsOK, Of
      <4>6. r.mint \in STRING
        BY <4>2 DEF ReadRecord
      <4> HIDE DEF lot
      <4> QED BY <4>2, <4>3, <4>5, <4>6, LotMoves, LotsMove DEF PnlCounts
    <3> QED BY <3>1, <3>2
  <2>3. replayed' \in 0..MaxSwaps
    BY <1>1, PnlAssumption DEF Replay, PnlCounts
  <2>4. traded' \subseteq 0..day' /\ UNCHANGED <<day, points, earnedBy>>
    BY <1>1, PnlAssumption DEF Replay, PnlCounts
  <2> QED BY <2>2, <2>3, <2>4 DEF PnlCounts
<1>2. CASE StartOfChart
  <2>1. day = 0 /\ day' = 1 /\ UNCHANGED <<runningHoldings, replayed, points, earnedBy, traded>>
    BY <1>2 DEF StartOfChart
  <2>2. PointsOK(points', day') /\ PointsOK(earnedBy', day')
    BY <2>1 DEF PnlCounts, PointsOK
  <2>3. traded' \subseteq 0..day'
    BY <2>1 DEF PnlCounts
  <2> QED BY <2>1, <2>2, <2>3, PnlAssumption DEF PnlCounts
<1>3. CASE EndOfBucket
  <2>2. PICK d \in 1..(LastDay - 1) : d = day /\ day' = d + 1
    BY <1>3 DEF EndOfBucket
  <2>3. PointsOK(points', day')
    <3>1. PICK v : points' = Append(points, v)
      BY <1>3 DEF EndOfBucket
    <3> QED BY <2>2, <3>1, PointAdded, PnlAssumption DEF PnlCounts
  <2>4. PointsOK(earnedBy', day')
    <3>1. PICK v : earnedBy' = Append(earnedBy, v)
      BY <1>3 DEF EndOfBucket
    <3> QED BY <2>2, <3>1, PointAdded, PnlAssumption DEF PnlCounts
  <2>5. day' \in 0..LastDay /\ traded' \subseteq 0..day'
    <3>1. UNCHANGED traded
      BY <1>3 DEF EndOfBucket
    <3> QED BY <2>2, <3>1, PnlAssumption DEF PnlCounts
  <2> QED BY <1>3, <2>3, <2>4, <2>5 DEF PnlCounts, EndOfBucket
<1>4. CASE UNCHANGED pnlVars
  BY <1>4 DEF PnlCounts, pnlVars
<1> QED BY <1>1, <1>2, <1>3, <1>4 DEF PnlStep

(* The records, the lots, the days of the chart and its points have their  *)
(* types, for any swaps and prices.                                        *)
THEOREM PnlTypes == PnlSpec => []PnlTypeOK
<1>1. PnlSpec => []PnlCounts
  BY PnlCountsInit, PnlCountsStep, PTL DEF PnlSpec
<1>2. PnlInv /\ PnlCounts => PnlTypeOK
  <2> SUFFICES ASSUME PnlInv, PnlCounts PROVE PnlTypeOK
    OBVIOUS
  <2>1. \A m \in DOMAIN pnlMap : pnlMap[m].bought >= 0 /\ pnlMap[m].spent >= 0 /\ pnlMap[m].investment >= 0
    BY DEF PnlInv, MapOK, PnlRecord
  <2>2. \A m \in DOMAIN runningHoldings : runningHoldings[m].bought >= 0 /\ runningHoldings[m].spent >= 0
    BY DEF PnlCounts, LotsOK, Lot
  <2> QED BY <2>1, <2>2 DEF PnlCounts, LotsOK, PointsOK, PnlTypeOK
<1> QED BY <1>1, <1>2, PnlInductive, PTL

(***************************************************************************)
(* The points of the chart.  What they are priced with stays the same once *)
(* the chart has a swap, and before it there is nothing to price.          *)
(***************************************************************************)
NearIn(chart, days, d) ==
  LET from == IF days \ {0} = {} THEN 1 ELSE Min(days \ {0})
      earlier == {e \in DOMAIN chart : from <= e /\ e <= d}
  IN  IF earlier = {} THEN 0 ELSE chart[Max(earlier)]

LEMMA NearIs == \A d : SolPriceNear(d) = NearIn(priceChart, traded, d)
BY DEF SolPriceNear, HistoryFrom, NearIn

LEMMA NearTyped ==
  ASSUME NEW chart, PricesOK(chart), NEW n \in Nat, NEW days \in SUBSET (0..n), NEW d \in Nat
  PROVE  NearIn(chart, days, d) \in Int
<1> DEFINE from == IF days \ {0} = {} THEN 1 ELSE Min(days \ {0})
           earlier == {e \in DOMAIN chart : from <= e /\ e <= d}
<1>1. from \in Nat \ {0}
  <2>1. CASE days \ {0} = {}
    BY <2>1
  <2>2. CASE days \ {0} # {}
    <3> DEFINE S == days \ {0}
    <3>1. S \in SUBSET (1..n) /\ S # {}
      BY <2>2
    <3>2. from = Min(S)
      BY <2>2
    <3> HIDE DEF S, from
    <3>3. Min(S) \in S
      BY <3>1, MaxMinIn
    <3>4. PICK k \in 1..n : k = Min(S)
      BY <3>1, <3>3
    <3>5. from = k /\ k \in Nat \ {0}
      BY <3>2, <3>4
    <3> QED BY <3>5, Zenon
  <2> QED BY <2>1, <2>2
<1> HIDE DEF from
<1>2. earlier \in SUBSET (1..d)
  BY <1>1 DEF PricesOK
<1>3. ASSUME earlier # {} PROVE chart[Max(earlier)] \in Nat
  <2>1. Max(earlier) \in earlier
    <3> HIDE DEF earlier
    <3> QED BY <1>2, <1>3, MaxMinIn
  <2> QED BY <2>1 DEF PricesOK
<1>4. NearIn(chart, days, d) = IF earlier = {} THEN 0 ELSE chart[Max(earlier)]
  BY DEF NearIn, from
<1> HIDE DEF earlier
<1> QED BY <1>3, <1>4

(* A later swap does not move the first one.                               *)
LEMMA NearStays ==
  ASSUME NEW chart, NEW n \in Nat, NEW days \in SUBSET (0..n), days \ {0} # {} \/ n = 0
  PROVE  \A d : NearIn(chart, days \cup {n}, d) = NearIn(chart, days, d)
<1>1. CASE n = 0
  <2>1. (days \cup {n}) \ {0} = days \ {0}
    BY <1>1
  <2> QED BY <2>1 DEF NearIn
<1>2. CASE n # 0
  <2> DEFINE S == days \ {0}
             T == (days \cup {n}) \ {0}
  <2>1. S # {} /\ T # {} /\ S \in SUBSET (1..n) /\ T \in SUBSET (1..n) /\ S \subseteq T /\ T \subseteq S \cup {n}
    BY <1>2
  <2> HIDE DEF S, T
  <2>2. Min(S) \in S /\ Min(T) \in T /\ (\A y \in S : Min(S) <= y) /\ (\A y \in T : Min(T) <= y)
    BY <2>1, MaxMinIn
  <2>3. PICK a \in 1..n, b \in 1..n : a = Min(S) /\ b = Min(T)
    BY <2>1, <2>2
  <2>4. a <= b /\ b <= a
    BY <2>1, <2>2, <2>3
  <2>5. Min(S) = Min(T)
    BY <2>3, <2>4
  <2> QED BY <2>1, <2>5 DEF NearIn, S, T
<1> QED BY <1>1, <1>2

(* One point: what was earned by then at the price near it, and nothing    *)
(* before the first swap of the chart.                                     *)
PointRight(point, earned, chart, days, i) ==
  /\ earned \in Int /\ point = earned * NearIn(chart, days, i)
  /\ days \ {0} = {} => earned = 0

PnlPoints ==
  /\ traded \ {0} = {} => cumulativePnlSol = 0
  /\ covered /\ comparable =>
       \A i \in 1..(day - 1) : PointRight(points[i], earnedBy[i], priceChart, traded, i)

LEMMA PointsStay ==
  ASSUME PnlInv, PnlCounts, PnlPoints, Replay PROVE PnlPoints'
<1>1. PICK swap \in Swaps : ChartSwap(swap) /\ Observe(swap)
  BY DEF Replay
<1>2. /\ UNCHANGED <<day, priceChart, points, earnedBy>> /\ (covered' => covered) /\ (comparable' => comparable)
      /\ traded' = traded \cup {day}
  BY <1>1 DEF Replay, Observe
<1>3. day \in Nat /\ traded \in SUBSET (0..day)
  BY PnlAssumption DEF PnlCounts
<1>4. ASSUME traded' \ {0} = {} PROVE cumulativePnlSol' = 0
  <2>1. day = 0 /\ traded \ {0} = {}
    BY <1>2, <1>3, <1>4
  <2> QED BY <1>1, <2>1 DEF ChartSwap, PnlPoints
<1>5. ASSUME covered', comparable', NEW i \in 1..(day - 1)
      PROVE  PointRight(points[i], earnedBy[i], priceChart, traded', i)
  <2>1. PointRight(points[i], earnedBy[i], priceChart, traded, i)
    BY <1>2, <1>5 DEF PnlPoints
  <2>2. traded' \ {0} # {} /\ traded' \in SUBSET (0..day) /\ i \in Nat
    BY <1>2, <1>3
  <2>3. CASE traded \ {0} # {}
    <3>1. NearIn(priceChart, traded', i) = NearIn(priceChart, traded, i)
      BY <1>2, <1>3, <2>3, NearStays
    <3> QED BY <2>1, <2>2, <3>1 DEF PointRight
  <2>4. CASE traded \ {0} = {}
    <3>1. PICK n \in Int, m \in Int : n = NearIn(priceChart, traded, i) /\ m = NearIn(priceChart, traded', i)
      BY <1>3, <2>2, NearTyped DEF PnlInv
    <3>2. earnedBy[i] = 0 /\ points[i] = 0 * n
      BY <2>1, <2>4, <3>1 DEF PointRight
    <3>3. points[i] = 0 * m
      BY <3>1, <3>2
    <3> QED BY <2>2, <3>1, <3>2, <3>3 DEF PointRight
  <2> QED BY <2>3, <2>4
<1>6. covered' /\ comparable' =>
        \A i \in 1..(day' - 1) : PointRight(points'[i], earnedBy'[i], priceChart', traded', i)
  BY <1>2, <1>5
<1> QED BY <1>4, <1>6 DEF PnlPoints

LEMMA PointsGrow ==
  ASSUME PnlInv, PnlCounts, PnlPoints, EndOfBucket PROVE PnlPoints'
<1>1. PICK d \in Nat \ {0} : d = day /\ day' = d + 1
  BY PnlAssumption DEF EndOfBucket
<1>2. /\ points' = Append(points, cumulativePnlSol * NearIn(priceChart, traded, d))
      /\ earnedBy' = Append(earnedBy, Earnings(pnlMap))
      /\ UNCHANGED <<cumulativePnlSol, priceChart, traded, covered, comparable>>
  BY <1>1, NearIs DEF EndOfBucket
<1>3. /\ points'[d] = cumulativePnlSol * NearIn(priceChart, traded, d) /\ earnedBy'[d] = Earnings(pnlMap)
      /\ \A i \in 1..(d - 1) : points'[i] = points[i] /\ earnedBy'[i] = earnedBy[i]
  BY <1>1, <1>2, PointAdded DEF PnlCounts
<1>4. ASSUME covered, comparable
      PROVE  PointRight(points'[d], earnedBy'[d], priceChart, traded, d)
  <2>1. cumulativePnlSol = Earnings(pnlMap)
    BY <1>4 DEF PnlInv, ChartOK, Earned, Earnings
  <2>2. Earnings(pnlMap) \in Int
    <3>1. \A m \in DOMAIN pnlMap : Earned(pnlMap)[m] \in Int
      BY DEF PnlInv, MapOK, PnlRecord, Earned
    <3>2. TotalOf(Earned(pnlMap), DOMAIN pnlMap) \in Int
      BY <3>1, TotalTyped DEF PnlInv, MapOK
    <3>3. DOMAIN Earned(pnlMap) = DOMAIN pnlMap /\ Earnings(pnlMap) = SumFunction(Earned(pnlMap))
      BY DEF Earned, Earnings
    <3> QED BY <3>2, <3>3 DEF SumFunction, TotalOf
  <2> QED BY <1>3, <2>1, <2>2 DEF PnlPoints, PointRight
<1>5. ASSUME covered, comparable, NEW i \in 1..d
      PROVE  PointRight(points'[i], earnedBy'[i], priceChart, traded, i)
  <2>1. CASE i = d
    BY <1>4, <1>5, <2>1
  <2>2. CASE i # d
    <3>1. i \in 1..(d - 1)
      BY <2>2
    <3>2. PointRight(points[i], earnedBy[i], priceChart, traded, i)
      BY <1>1, <1>5, <3>1 DEF PnlPoints
    <3> QED BY <1>3, <3>1, <3>2
  <2> QED BY <2>1, <2>2
<1>6. covered' /\ comparable' =>
        \A i \in 1..(day' - 1) : PointRight(points'[i], earnedBy'[i], priceChart', traded', i)
  <2>1. 1..(day' - 1) = 1..d
    BY <1>1
  <2> QED BY <1>2, <1>5, <2>1
<1>7. traded' \ {0} = {} => cumulativePnlSol' = 0
  BY <1>2 DEF PnlPoints
<1> QED BY <1>6, <1>7 DEF PnlPoints

LEMMA PnlPointsInit == PnlInit => PnlPoints
<1> SUFFICES ASSUME PnlInit PROVE PnlPoints
  OBVIOUS
<1>1. day = 0 /\ cumulativePnlSol = 0
  BY DEF PnlInit
<1>2. 1..(day - 1) = {}
  BY <1>1
<1> QED BY <1>1, <1>2 DEF PnlPoints

LEMMA PnlPointsStep == PnlInv /\ PnlCounts /\ PnlPoints /\ [PnlStep]_pnlVars => PnlPoints'
<1> SUFFICES ASSUME PnlInv, PnlCounts, PnlPoints, [PnlStep]_pnlVars PROVE PnlPoints'
  OBVIOUS
<1>1. CASE StartOfChart
  <2>1. day' = 1 /\ UNCHANGED <<traded, cumulativePnlSol>>
    BY <1>1 DEF StartOfChart
  <2>2. 1..(day' - 1) = {}
    BY <2>1
  <2> QED BY <2>1, <2>2 DEF PnlPoints
<1>2. CASE UNCHANGED pnlVars
  BY <1>2 DEF PnlPoints, pnlVars
<1> QED BY <1>1, <1>2, PointsStay, PointsGrow DEF PnlStep

(***************************************************************************)
(* The endpoints                                                           *)
(***************************************************************************)
(* The mean price of SOL is a number.                                      *)
LEMMA AverageIs == ASSUME PricesOK(priceChart), NEW p \in Int PROVE AverageSolPrice(p) \in Int
<1> DEFINE range == {d \in DOMAIN priceChart : \E a, b \in traded : a <= d /\ d <= b}
           f == [d \in range |-> priceChart[d]]
<1>1. IsFiniteSet(range)
  BY FS_Subset DEF PricesOK
<1>2. \A d \in range : f[d] \in Int
  BY DEF PricesOK
<1>3. DOMAIN f = range
  OBVIOUS
<1>4. AverageSolPrice(p) = IF range = {} THEN p ELSE SumFunction(f) \div Cardinality(range)
  BY DEF AverageSolPrice
<1> HIDE DEF range, f
<1>5. SumFunction(f) \in Int
  BY <1>1, <1>2, <1>3, TotalTyped DEF SumFunction, TotalOf
<1>6. range # {} => Cardinality(range) \in Nat \ {0}
  BY <1>1, Smaller, FS_EmptySet, FS_CardinalityType
<1> QED BY <1>4, <1>5, <1>6

Gains(p) == [m \in Traded |-> pnlMap[m].pnl * AverageSolPrice(p)]

LEMMA GainsAre ==
  ASSUME PnlInv, NEW p \in Int
  PROVE  /\ IsFiniteSet(Traded) /\ DOMAIN Gains(p) = Traded
         /\ \A m \in Traded : Gains(p)[m] \in Int /\ Gains(p)[m] = pnlMap[m].pnl * AverageSolPrice(p)
<1>1. PICK a \in Int : a = AverageSolPrice(p)
  BY AverageIs DEF PnlInv
<1>2. \A m \in Traded : pnlMap[m].pnl \in Int
  BY DEF PnlInv, MapOK, PnlRecord, Traded
<1>3. IsFiniteSet(Traded)
  BY DEF PnlInv, MapOK, Traded
<1> QED BY <1>1, <1>2, <1>3 DEF Gains

(* Who earned has a winner.                                                *)
LEMMA ProfitHasWinner ==
  ASSUME PnlInv, NEW p \in Int, NEW q \in Int, Overview(p, q).realized > 0
  PROVE  Performance(p).winners > 0
<1> DEFINE W == {m \in Traded : Gains(p)[m] > 0}
           n == [m \in Traded |-> Gains(p)[m] * (-1)]
<1>1. Overview(p, q).realized = SumFunction(Gains(p)) /\ Performance(p).winners = Cardinality(W)
  BY DEF Overview, Performance, Gains
<1>2. IsFiniteSet(Traded) /\ DOMAIN Gains(p) = Traded /\ \A m \in Traded : Gains(p)[m] \in Int
  BY GainsAre
<1>3. IsFiniteSet(W) /\ Cardinality(W) \in Nat
  BY <1>2, FS_Subset, FS_CardinalityType
<1>4. ASSUME W = {} PROVE FALSE
  <2>1. \A m \in Traded : n[m] \in Nat /\ n[m] = Gains(p)[m] * (-1)
    BY <1>2, <1>4
  <2> HIDE DEF n, W
  <2>2. TotalOf(n, Traded) \in Nat
    BY <1>2, <2>1, TotalNat
  <2>3. TotalOf(n, Traded) = TotalOf(Gains(p), Traded) * (-1)
    BY <1>2, <2>1, TotalTimes
  <2>4. TotalOf(Gains(p), Traded) \in Int
    BY <1>2, TotalTyped
  <2>5. SumFunction(Gains(p)) = TotalOf(Gains(p), Traded)
    BY <1>2 DEF SumFunction, TotalOf
  <2> QED BY <1>1, <2>2, <2>3, <2>4, <2>5
<1> HIDE DEF W
<1>5. Cardinality(W) # 0
  BY <1>3, <1>4, FS_EmptySet
<1> QED BY <1>1, <1>3, <1>5

(* The total of the overview, of a token and of all of them.               *)
LEMMA OverviewAddsUp ==
  ASSUME PnlInv, covered, NEW p \in 1..2, NEW q \in 1..2, AverageSolPrice(p) = p
  PROVE  Overview(p, q).total = NetWorth(p, q)
<1> DEFINE H == {m \in Traded : pnlMap[m].bought > 0}
           u == [m \in H |-> pnlMap[m].bought * q - pnlMap[m].spent * p]
           v == [m \in Traded |-> pnlMap[m].bought * q - pnlMap[m].spent * p]
           w == [m \in Traded |-> (Of(received, m, 0) - pnlMap[m].investment) * p + pnlMap[m].bought * q]
<1>0. p = 1 \/ p = 2
  OBVIOUS
<1>a. q = 1 \/ q = 2
  OBVIOUS
<1>1. IsFiniteSet(Traded) /\ DOMAIN Gains(p) = Traded
      /\ \A m \in Traded : Gains(p)[m] \in Int /\ Gains(p)[m] = pnlMap[m].pnl * p
  BY GainsAre
<1>2. ASSUME NEW m \in Traded
      PROVE  /\ v[m] \in Int /\ w[m] = Gains(p)[m] + v[m] /\ (m \notin H => v[m] = 0)
             /\ (m \in H => u[m] = v[m])
  <2>1. PICK b \in Nat, s \in Nat, i \in Nat, g \in Int, x \in Nat :
          /\ b = pnlMap[m].bought /\ s = pnlMap[m].spent /\ i = pnlMap[m].investment /\ g = pnlMap[m].pnl
          /\ x = Of(received, m, 0) /\ (b = 0 => s = 0)
    <3>1. pnlMap[m] \in PnlRecord /\ Priced(pnlMap[m])
      BY DEF PnlInv, MapOK, Traded
    <3>2. Of(received, m, 0) \in Nat
      BY DEF PnlInv, ReceivedOK, Of
    <3> QED BY <3>1, <3>2 DEF PnlRecord, Priced
  <2>2. g = x - i + s
    BY <2>1 DEF PnlInv, CostsOK, Traded
  <2>3. v[m] = b * q - s * p /\ w[m] = (x - i) * p + b * q /\ Gains(p)[m] = g * p
    BY <1>1, <2>1
  <2>4. v[m] \in Int /\ w[m] = Gains(p)[m] + v[m]
    <3> HIDE DEF v, w
    <3>1. CASE p = 1
      <4>1. CASE q = 1
        BY <2>2, <2>3, <3>1, <4>1
      <4>2. CASE q = 2
        BY <2>2, <2>3, <3>1, <4>2
      <4> QED BY <1>a, <4>1, <4>2
    <3>2. CASE p = 2
      <4>1. CASE q = 1
        BY <2>2, <2>3, <3>2, <4>1
      <4>2. CASE q = 2
        BY <2>2, <2>3, <3>2, <4>2
      <4> QED BY <1>a, <4>1, <4>2
    <3> QED BY <1>0, <3>1, <3>2
  <2>5. ASSUME m \notin H PROVE v[m] = 0
    <3>1. b = 0 /\ s = 0
      BY <2>1, <2>5
    <3> QED BY <2>3, <3>1
  <2> QED BY <2>4, <2>5
<1>3. H \in SUBSET Traded /\ IsFiniteSet(H)
  BY <1>1, FS_Subset
<1>4. /\ Overview(p, q).total = SumFunction(Gains(p)) + SumFunction(u) /\ NetWorth(p, q) = SumFunction(w)
      /\ DOMAIN u = H /\ DOMAIN w = Traded
  BY DEF Overview, NetWorth, Gains
<1> HIDE DEF H, u, v, w
<1>5. TotalOf(u, H) = TotalOf(v, H)
  BY <1>2, <1>3, TotalSame
<1>6. TotalOf(v, Traded) = TotalOf(v, H)
  <2>1. (\A m \in Traded : v[m] \in Int) /\ \A m \in Traded \ H : v[m] = 0
    BY <1>2
  <2> QED BY <1>1, <1>3, <2>1, TotalZeros
<1>7. TotalOf(w, Traded) = TotalOf(Gains(p), Traded) + TotalOf(v, Traded)
  BY <1>1, <1>2, TotalPlus
<1> QED BY <1>1, <1>4, <1>5, <1>6, <1>7 DEF SumFunction, TotalOf

LEMMA PnlAgrees == PnlInv /\ PnlCounts /\ PnlPoints => PnlIsConsistent
<1> SUFFICES ASSUME PnlInv, PnlCounts, PnlPoints PROVE PnlIsConsistent
  OBVIOUS
<1>1. covered => \A m \in Traded :
        pnlMap[m].pnl = Of(received, m, 0) - pnlMap[m].investment + pnlMap[m].spent
  BY DEF PnlInv, CostsOK, Traded
<1>2. covered => \A p, q \in 1..2 : AverageSolPrice(p) = p => Overview(p, q).total = NetWorth(p, q)
  BY OverviewAddsUp
<1>3. \A p, q \in 1..2 : Overview(p, q).realized > 0 => Performance(p).winners > 0
  <2>1. 1..2 \subseteq Int
    OBVIOUS
  <2> QED BY <2>1, ProfitHasWinner
<1>4. ASSUME covered, comparable, NEW i \in DOMAIN points
      PROVE  points[i] = earnedBy[i] * SolPriceNear(i)
  <2>1. DOMAIN points \subseteq 1..(day - 1)
    <3>1. PICK S : points \in Seq(S) /\ Len(points) = (IF day = 0 THEN 0 ELSE day - 1)
      BY DEF PnlCounts, PointsOK
    <3>2. day \in Nat
      BY PnlAssumption DEF PnlCounts
    <3> QED BY <3>1, <3>2
  <2> QED BY <1>4, <2>1, NearIs DEF PnlPoints, PointRight
<1> QED BY <1>1, <1>2, <1>3, <1>4, Zenon DEF PnlIsConsistent

(* What a token earned and what its lot still cost make up the difference  *)
(* of what was received and spent, the total of the overview is the net    *)
(* worth where the mean price of SOL is the current one, a profit has a    *)
(* winner, and each point of the chart is what calculatePnl had earned by  *)
(* then at the price near it, for any swaps, recorded prices and days.     *)
THEOREM PnlIsAlwaysConsistent == PnlSpec => []PnlIsConsistent
<1>1. PnlSpec => []PnlCounts
  BY PnlCountsInit, PnlCountsStep, PTL DEF PnlSpec
<1>2. PnlInit => PnlPoints
  BY PnlPointsInit
<1> QED BY <1>1, <1>2, PnlInductive, PnlPointsStep, PnlAgrees, PTL DEF PnlSpec

(***************************************************************************)
(* RollingStats.  The 24 hours of a mint are those of its swaps, for any   *)
(* swaps, length of the day and overlap of handlers.                       *)
(***************************************************************************)
(***************************************************************************)
(* What a swap leaves in the three sets                                    *)
(***************************************************************************)
RollSpec == RollInit /\ [][RollStep]_rollVars

RollPhases == RollKeys \cup {"done"}
Written == [key : RollPhases, at : 0..LastInstant]
RollMember == [at : 0..LastInstant, price : Nat, what : Int]

(* The swaps that have been stored under key, and those that have begun.   *)
Past(w, key) ==
  CASE key = "history" -> w.key # "history"
    [] key = "volume"  -> w.key \in {"txns", "done"}
    [] key = "txns"    -> w.key = "done"
Begun == {s \in StatSwaps : writing[s].key # "history"}

(* The instant the history was stored under is at most one earlier than    *)
(* that of the volume; until then it is the one that is known.             *)
Due(w) == IF w.key = "volume" THEN w.at + 1 ELSE w.at

RollTables ==
  /\ instant \in 0..LastInstant
  /\ zsets \in [RollKeys -> SUBSET RollMember] /\ \A k \in RollKeys : IsFiniteSet(zsets[k])
  /\ expiry \in [RollKeys -> 0..Forever]
  /\ writing \in [StatSwaps -> Written] /\ IsFiniteSet(Begun)
  /\ failed \subseteq StatSwaps

(* A key is not expired, and a handler at work is at most an instant old.  *)
RollTimes ==
  /\ \A k \in RollKeys : instant < expiry[k]
  /\ \A s \in StatSwaps : /\ writing[s].at <= instant
                          /\ writing[s].key \in {"volume", "txns"} => instant <= writing[s].at + 1

(* What a swap stored stays for a day.                                     *)
StoredLasts(s, w, now, sets, until) ==
  \A k \in {"volume", "txns"} : Past(w, k) =>
    w.at + Day < until[k] /\ (now < w.at + Day => MemberOf(s, k, w.at) \in sets[k])

HistoryLasts(w, now, sets, until) ==
  Past(w, "history") =>
    Due(w) + Day <= until["history"] /\ (now < Due(w) + Day => sets["history"] # {})

(* What is stored is of a swap and of the day before the last write.       *)
OfSwap(m, s, w, k) ==
  /\ Past(w, k)
  /\ IF k = "history" THEN m.price = s.price /\ m.at <= w.at ELSE m = MemberOf(s, k, w.at)

Origin(m, k) == \E s \in StatSwaps : OfSwap(m, s, writing[s], k)

RollInv ==
  /\ RollTables /\ RollTimes
  /\ \A m \in zsets["volume"] : m.what \in Nat
  /\ \A s \in StatSwaps \ failed : StoredLasts(s, writing[s], instant, zsets, expiry)
  /\ \A s \in StatSwaps \ failed : HistoryLasts(writing[s], instant, zsets, expiry)
  /\ failed = {} => \A k \in RollKeys : \A m \in zsets[k] :
                      expiry[k] < m.at + 2 * Day + 2 /\ Origin(m, k)

LEMMA RollInitInv == RollInit => RollInv
<1> SUFFICES ASSUME RollInit PROVE RollInv
  OBVIOUS
<1>1. Day \in Nat \ {0} /\ LastInstant \in Nat /\ Forever = LastInstant + Day + 2
  BY DayAssumption DEF Forever
<1>2. /\ instant = 0 /\ failed = {} /\ \A k \in RollKeys : zsets[k] = {} /\ expiry[k] = Forever
      /\ \A s \in StatSwaps : writing[s].key = "history" /\ writing[s].at = 0
  BY DEF RollInit
<1>3. RollTables
  <2>1. Begun = {}
    BY <1>2 DEF Begun
  <2>2. writing \in [StatSwaps -> Written]
    <3>1. writing = [s \in StatSwaps |-> [key |-> "history", at |-> 0]]
      BY Zenon DEF RollInit
    <3>2. [key |-> "history", at |-> 0] \in Written
      BY <1>1 DEF Written, RollPhases, RollKeys
    <3> QED BY <3>1, <3>2
  <2>3. zsets \in [RollKeys -> SUBSET RollMember] /\ expiry \in [RollKeys -> 0..Forever]
    BY <1>1 DEF RollInit
  <2>4. IsFiniteSet(Begun) /\ \A k \in RollKeys : IsFiniteSet(zsets[k])
    BY <1>2, <2>1, FS_EmptySet, Zenon
  <2>5. instant \in 0..LastInstant /\ failed \subseteq StatSwaps
    BY <1>1, <1>2
  <2> QED BY <2>2, <2>3, <2>4, <2>5, Zenon DEF RollTables
<1>4. RollTimes
  BY <1>1, <1>2 DEF RollTimes
<1>5. \A s \in StatSwaps, k \in RollKeys : ~Past(writing[s], k)
  BY <1>2 DEF Past, RollKeys
<1> QED BY <1>2, <1>3, <1>4, <1>5 DEF RollInv, StoredLasts, HistoryLasts, RollKeys

LEMMA MemberIs ==
  ASSUME NEW s \in StatSwaps, NEW k \in RollKeys, NEW at \in 0..LastInstant
  PROVE  /\ MemberOf(s, k, at) \in RollMember /\ MemberOf(s, k, at).at = at /\ MemberOf(s, k, at).price = s.price
         /\ k = "volume" => MemberOf(s, k, at).what \in Nat
BY DayAssumption DEF MemberOf, RollMember, RollKeys

LEMMA NowIs ==
  ASSUME RollTables, RollTimes, NEW s \in StatSwaps, writing[s].key # "done"
  PROVE  /\ writing[s].key \in RollKeys
         /\ Now(s) \in 0..LastInstant /\ Now(s) <= instant /\ instant <= Now(s) + 1
         /\ writing[s].at \in 0..LastInstant /\ writing[s].at <= instant
         /\ writing[s].key \in {"history", "volume"} => Now(s) = instant
         /\ writing[s].key = "volume" => instant <= writing[s].at + 1
         /\ writing[s].key = "txns" => Now(s) = writing[s].at
<1>1. LastInstant \in Nat
  BY DayAssumption
<1>2. /\ writing[s].key \in RollKeys /\ writing[s].at \in 0..LastInstant /\ instant \in 0..LastInstant
  BY DEF RollTables, Written, RollPhases
<1>3. /\ writing[s].at <= instant
      /\ writing[s].key \in {"volume", "txns"} => instant <= writing[s].at + 1
  BY DEF RollTimes
<1> QED BY <1>1, <1>2, <1>3 DEF Now, RollKeys

LEMMA TimeKeeps == RollInv /\ TimeGoesOn => RollInv'
<1> SUFFICES ASSUME RollInv, TimeGoesOn PROVE RollInv'
  OBVIOUS
<1>1. Day \in Nat \ {0} /\ LastInstant \in Nat /\ Forever = LastInstant + Day + 2
  BY DayAssumption DEF Forever
<1>2. RollTables /\ RollTimes
  BY DEF RollInv
<1>3. /\ instant \in 0..LastInstant /\ instant' = instant + 1 /\ instant' \in 0..LastInstant
      /\ UNCHANGED <<writing, failed>>
  BY <1>1, <1>2 DEF TimeGoesOn, RollTables
<1>4. \A k \in RollKeys : expiry[k] \in 0..Forever /\ zsets[k] \in SUBSET RollMember /\ IsFiniteSet(zsets[k])
  BY <1>2 DEF RollTables
<1>5. \A k \in RollKeys :
        /\ expiry[k] <= instant' => zsets'[k] = {} /\ expiry'[k] = Forever
        /\ instant' < expiry[k] => zsets'[k] = zsets[k] /\ expiry'[k] = expiry[k]
        /\ expiry[k] <= instant' \/ instant' < expiry[k]
  BY <1>1, <1>3, <1>4 DEF TimeGoesOn
<1>6. /\ zsets' = [k \in RollKeys |-> zsets'[k]] /\ expiry' = [k \in RollKeys |-> expiry'[k]]
  BY DEF TimeGoesOn
<1>7. \A s \in StatSwaps : writing[s].at \in 0..LastInstant
  BY <1>2 DEF RollTables, Written
<1>8. RollTables'
  <2>1. \A k \in RollKeys : /\ zsets'[k] \in SUBSET RollMember /\ IsFiniteSet(zsets'[k])
                            /\ expiry'[k] \in 0..Forever
    <3> SUFFICES ASSUME NEW k \in RollKeys
                 PROVE  zsets'[k] \in SUBSET RollMember /\ IsFiniteSet(zsets'[k]) /\ expiry'[k] \in 0..Forever
      OBVIOUS
    <3>1. Forever \in 0..Forever
      BY <1>1
    <3>2. CASE expiry[k] <= instant'
      BY <1>5, <3>1, <3>2, FS_EmptySet
    <3>3. CASE instant' < expiry[k]
      BY <1>4, <1>5, <3>3
    <3> QED BY <1>5, <3>2, <3>3
  <2>2. zsets' \in [RollKeys -> SUBSET RollMember] /\ expiry' \in [RollKeys -> 0..Forever]
    BY <1>6, <2>1
  <2>3. Begun' = Begun
    BY <1>3 DEF Begun
  <2> QED BY <1>2, <1>3, <2>1, <2>2, <2>3 DEF RollTables
<1>9. RollTimes'
  <2>1. \A k \in RollKeys : instant' < expiry'[k]
    BY <1>1, <1>3, <1>4, <1>5
  <2>2. \A s \in StatSwaps : /\ writing[s].at <= instant'
                             /\ writing[s].key \in {"volume", "txns"} => instant' <= writing[s].at + 1
    BY <1>2, <1>3, <1>7 DEF RollTimes, TimeGoesOn, AtWork
  <2> QED BY <1>3, <2>1, <2>2 DEF RollTimes
<1>10. ASSUME NEW s \in StatSwaps \ failed'
       PROVE  /\ StoredLasts(s, writing'[s], instant', zsets', expiry')
              /\ HistoryLasts(writing'[s], instant', zsets', expiry')
  <2>1. StoredLasts(s, writing[s], instant, zsets, expiry) /\ HistoryLasts(writing[s], instant, zsets, expiry)
    BY <1>3 DEF RollInv
  <2>2. writing'[s] = writing[s] /\ writing[s].at \in 0..LastInstant
    BY <1>3, <1>7
  <2>3. ASSUME NEW k \in {"volume", "txns"}, Past(writing[s], k)
        PROVE  /\ writing[s].at + Day < expiry'[k]
               /\ instant' < writing[s].at + Day => MemberOf(s, k, writing[s].at) \in zsets'[k]
    <3>1. k \in RollKeys
      BY DEF RollKeys
    <3>2. /\ writing[s].at + Day < expiry[k]
          /\ instant < writing[s].at + Day => MemberOf(s, k, writing[s].at) \in zsets[k]
      BY <2>1, <2>3 DEF StoredLasts
    <3>3. PICK e \in 0..Forever : e = expiry[k]
      BY <1>4, <3>1
    <3>4. CASE e <= instant'
      BY <1>1, <1>3, <1>5, <2>2, <3>1, <3>2, <3>3, <3>4
    <3>5. CASE instant' < e
      BY <1>1, <1>3, <1>5, <2>2, <3>1, <3>2, <3>3, <3>5
    <3> QED BY <1>3, <3>3, <3>4, <3>5
  <2>4. ASSUME Past(writing[s], "history")
        PROVE  /\ Due(writing[s]) + Day <= expiry'["history"]
               /\ instant' < Due(writing[s]) + Day => zsets'["history"] # {}
    <3>1. /\ Due(writing[s]) + Day <= expiry["history"]
          /\ instant < Due(writing[s]) + Day => zsets["history"] # {}
      BY <2>1, <2>4 DEF HistoryLasts
    <3>2. PICK d \in 0..(LastInstant + 1) : d = Due(writing[s])
      BY <1>1, <2>2 DEF Due
    <3>3. PICK e \in 0..Forever : e = expiry["history"]
      BY <1>4 DEF RollKeys
    <3>4. "history" \in RollKeys
      BY DEF RollKeys
    <3>5. CASE e <= instant'
      BY <1>1, <1>3, <1>5, <3>1, <3>2, <3>3, <3>4, <3>5
    <3>6. CASE instant' < e
      BY <1>1, <1>3, <1>5, <3>1, <3>2, <3>3, <3>4, <3>6
    <3> QED BY <1>3, <3>3, <3>5, <3>6
  <2> QED BY <2>2, <2>3, <2>4 DEF StoredLasts, HistoryLasts
<1>11. ASSUME failed' = {}, NEW k \in RollKeys, NEW m \in zsets'[k]
       PROVE  expiry'[k] < m.at + 2 * Day + 2 /\ Origin(m, k)'
  <2>1. instant' < expiry[k] /\ m \in zsets[k] /\ expiry'[k] = expiry[k]
    BY <1>5, <1>11
  <2> QED BY <1>3, <1>11, <2>1 DEF RollInv, Origin
<1>12. \A m \in zsets'["volume"] : m.what \in Nat
  <2>1. zsets'["volume"] \subseteq zsets["volume"]
    BY <1>5 DEF RollKeys
  <2> QED BY <2>1 DEF RollInv
<1> QED BY <1>8, <1>9, <1>10, <1>11, <1>12 DEF RollInv

LEMMA FailKeeps == ASSUME NEW s \in StatSwaps PROVE RollInv /\ StoreFails(s) => RollInv'
<1> SUFFICES ASSUME RollInv, StoreFails(s) PROVE RollInv'
  OBVIOUS
<1> DEFINE now == Now(s)
           phase == IF writing[s].key = "history" THEN "volume" ELSE "done"
<1>1. RollTables /\ RollTimes
  BY DEF RollInv
<1>2. writing[s].key # "done" /\ failed = {} /\ failed' = {s} /\ UNCHANGED <<instant, expiry>>
  BY DEF StoreFails
<1>3. now \in 0..LastInstant /\ now <= instant /\ instant <= now + 1 /\ writing[s].key \in RollKeys
  BY <1>1, <1>2, NowIs
<1>4. PICK key \in RollKeys : key = writing[s].key
  BY <1>3
<1>5. zsets' = zsets \/ zsets' = [zsets EXCEPT ![key] = @ \cup {MemberOf(s, key, now)}]
  BY <1>4 DEF StoreFails
<1>6. writing' = [writing EXCEPT ![s] = [key |-> phase, at |-> now]]
  BY DEF StoreFails
<1> HIDE DEF now
<1>7. MemberOf(s, key, now) \in RollMember
  BY <1>3, MemberIs
<1>8. /\ zsets' \in [RollKeys -> SUBSET RollMember]
      /\ \A k \in RollKeys : zsets[k] \subseteq zsets'[k] /\ IsFiniteSet(zsets'[k])
  <2>1. zsets \in [RollKeys -> SUBSET RollMember] /\ \A k \in RollKeys : IsFiniteSet(zsets[k])
    BY <1>1 DEF RollTables
  <2>2. CASE zsets' = zsets
    BY <2>1, <2>2
  <2>3. CASE zsets' = [zsets EXCEPT ![key] = @ \cup {MemberOf(s, key, now)}]
    <3>1. IsFiniteSet(zsets[key] \cup {MemberOf(s, key, now)})
      BY <2>1, FS_AddElement
    <3>2. zsets'[key] = zsets[key] \cup {MemberOf(s, key, now)} /\ \A k \in RollKeys : k # key => zsets'[k] = zsets[k]
      BY <2>1, <2>3
    <3>3. zsets' = [k \in RollKeys |-> zsets'[k]]
      BY <2>1, <2>3
    <3>4. \A k \in RollKeys : zsets[k] \in SUBSET RollMember
      BY <2>1
    <3>5. ASSUME NEW k \in RollKeys
          PROVE  zsets[k] \subseteq zsets'[k] /\ IsFiniteSet(zsets'[k]) /\ zsets'[k] \in SUBSET RollMember
      <4>1. CASE k = key
        BY <1>7, <3>1, <3>2, <3>4, <4>1
      <4>2. CASE k # key
        BY <2>1, <3>2, <3>4, <4>2
      <4> QED BY <4>1, <4>2
    <3> QED BY <3>3, <3>5
  <2> QED BY <1>5, <2>2, <2>3
<1>9. /\ writing' \in [StatSwaps -> Written] /\ writing'[s].key = phase /\ writing'[s].at = now
      /\ \A t \in StatSwaps : t # s => writing'[t] = writing[t]
  <2>1. writing \in [StatSwaps -> Written] /\ [key |-> phase, at |-> now] \in Written
    BY <1>1, <1>3 DEF RollTables, Written, RollPhases, RollKeys
  <2> QED BY <1>6, <2>1
<1>10. RollTables'
  <2>1. Begun' \subseteq Begun \cup {s}
    BY <1>9 DEF Begun
  <2>2. IsFiniteSet(Begun')
    <3>1. IsFiniteSet(Begun \cup {s})
      BY <1>1, FS_AddElement DEF RollTables
    <3> QED BY <2>1, <3>1, FS_Subset
  <2> QED BY <1>1, <1>2, <1>8, <1>9, <2>2 DEF RollTables
<1>11. RollTimes'
  <2>1. \A t \in StatSwaps : /\ writing'[t].at <= instant
                             /\ writing'[t].key \in {"volume", "txns"} => instant <= writing'[t].at + 1
    BY <1>1, <1>3, <1>9 DEF RollTimes
  <2> QED BY <1>1, <1>2, <2>1 DEF RollTimes
<1>12. ASSUME NEW t \in StatSwaps \ failed'
       PROVE  /\ StoredLasts(t, writing'[t], instant', zsets', expiry')
              /\ HistoryLasts(writing'[t], instant', zsets', expiry')
  <2>1. StoredLasts(t, writing[t], instant, zsets, expiry) /\ HistoryLasts(writing[t], instant, zsets, expiry)
    BY <1>2 DEF RollInv
  <2>2. writing'[t] = writing[t]
    BY <1>2, <1>9
  <2>3. zsets["volume"] \subseteq zsets'["volume"] /\ zsets["txns"] \subseteq zsets'["txns"]
        /\ zsets["history"] \subseteq zsets'["history"]
    BY <1>8 DEF RollKeys
  <2>4. StoredLasts(t, writing[t], instant, zsets', expiry)
    BY <2>1, <2>3 DEF StoredLasts
  <2>5. HistoryLasts(writing[t], instant, zsets', expiry)
    BY <2>1, <2>3 DEF HistoryLasts
  <2> QED BY <1>2, <2>2, <2>4, <2>5
<1>13. \A m \in zsets'["volume"] : m.what \in Nat
  <2>1. \A m \in zsets'["volume"] : m \in zsets["volume"] \/ (key = "volume" /\ m = MemberOf(s, key, now))
    BY <1>1, <1>5 DEF RollTables, RollKeys
  <2> QED BY <1>3, <2>1, MemberIs DEF RollInv
<1> QED BY <1>2, <1>10, <1>11, <1>12, <1>13 DEF RollInv

LEMMA StoreKeeps == ASSUME NEW s \in StatSwaps PROVE RollInv /\ StoreMember(s) => RollInv'
<1> SUFFICES ASSUME RollInv, StoreMember(s) PROVE RollInv'
  OBVIOUS
<1> DEFINE now == Now(s)
           w == writing[s]
<1>0. Day \in Nat \ {0} /\ LastInstant \in Nat /\ Forever = LastInstant + Day + 2
  BY DayAssumption DEF Forever
<1>1. RollTables /\ RollTimes
  BY DEF RollInv
<1>2. w.key # "done" /\ UNCHANGED <<instant, failed>> /\ instant \in 0..LastInstant
  BY <1>1 DEF StoreMember, RollTables
<1>3. /\ now \in 0..LastInstant /\ now <= instant /\ instant <= now + 1 /\ w.key \in RollKeys
      /\ w.key \in {"history", "volume"} => now = instant
      /\ w.key = "volume" => instant <= w.at + 1
      /\ w.key = "txns" => now = w.at
      /\ w.at \in 0..LastInstant /\ w.at <= instant
  BY <1>1, <1>2, NowIs
<1>4. PICK key \in RollKeys : key = w.key
  BY <1>3
<1>5. /\ zsets' = [zsets EXCEPT ![key] = CutOld(@ \cup {MemberOf(s, key, now)}, now)]
      /\ expiry' = [expiry EXCEPT ![key] = instant + Day + 1]
      /\ writing' = [writing EXCEPT ![s] = [key |-> NextKey(key), at |-> now]]
  BY <1>4 DEF StoreMember
<1> HIDE DEF now
<1>6. PICK member \in RollMember : member = MemberOf(s, key, now) /\ member.at = now /\ member.price = s.price
  BY <1>3, MemberIs
<1>7. /\ \A k \in RollKeys : zsets[k] \in SUBSET RollMember /\ IsFiniteSet(zsets[k]) /\ expiry[k] \in 0..Forever
      /\ zsets \in [RollKeys -> SUBSET RollMember] /\ expiry \in [RollKeys -> 0..Forever]
  BY <1>1 DEF RollTables
<1>8. zsets'[key] = {m \in zsets[key] \cup {member} : m.at > now - Day}
  BY <1>5, <1>6, <1>7 DEF CutOld
<1>9. \A k \in RollKeys : k # key => zsets'[k] = zsets[k] /\ expiry'[k] = expiry[k]
  BY <1>5, <1>7
<1>10. expiry'[key] = instant + Day + 1 /\ instant + Day + 1 \in 0..Forever
  BY <1>0, <1>2, <1>5, <1>7
<1>11. member \in zsets'[key]
  BY <1>0, <1>3, <1>6, <1>8
<1>12. NextKey(key) \in RollPhases
  BY DEF NextKey, RollKeys, RollPhases
<1>13. /\ writing' \in [StatSwaps -> Written] /\ writing'[s].key = NextKey(key) /\ writing'[s].at = now
       /\ \A t \in StatSwaps : t # s => writing'[t] = writing[t]
  <2>1. writing \in [StatSwaps -> Written] /\ [key |-> NextKey(key), at |-> now] \in Written
    BY <1>1, <1>3, <1>12 DEF RollTables, Written
  <2> QED BY <1>5, <2>1
<1>14. \A t \in StatSwaps : writing[t].at \in 0..LastInstant /\ writing[t].at <= instant
  BY <1>1 DEF RollTables, RollTimes, Written
<1>15. RollTables'
  <2>1. ASSUME NEW k \in RollKeys
        PROVE  zsets'[k] \in SUBSET RollMember /\ IsFiniteSet(zsets'[k]) /\ expiry'[k] \in 0..Forever
    <3>1. CASE k = key
      <4>1. IsFiniteSet(zsets[key] \cup {member})
        BY <1>7, FS_AddElement
      <4>2. IsFiniteSet(zsets'[key])
        BY <1>8, <4>1, FS_Subset
      <4> QED BY <1>7, <1>8, <1>10, <3>1, <4>2
    <3>2. CASE k # key
      BY <1>7, <1>9, <3>2
    <3> QED BY <3>1, <3>2
  <2>2. zsets' = [k \in RollKeys |-> zsets'[k]] /\ expiry' = [k \in RollKeys |-> expiry'[k]]
    BY <1>5, <1>7
  <2>3. zsets' \in [RollKeys -> SUBSET RollMember] /\ expiry' \in [RollKeys -> 0..Forever]
    BY <2>1, <2>2
  <2>4. Begun' \subseteq Begun \cup {s}
    BY <1>13 DEF Begun
  <2>5. IsFiniteSet(Begun')
    <3>1. IsFiniteSet(Begun \cup {s})
      BY <1>1, FS_AddElement DEF RollTables
    <3> QED BY <2>4, <3>1, FS_Subset
  <2> QED BY <1>1, <1>2, <1>13, <2>1, <2>3, <2>5 DEF RollTables
<1>16. RollTimes'
  <2>1. ASSUME NEW t \in StatSwaps
        PROVE  /\ writing'[t].at <= instant
               /\ writing'[t].key \in {"volume", "txns"} => instant <= writing'[t].at + 1
    BY <1>1, <1>3, <1>13 DEF RollTimes
  <2>2. ASSUME NEW k \in RollKeys PROVE instant < expiry'[k]
    <3>1. CASE k = key
      BY <1>0, <1>2, <1>10, <3>1
    <3>2. CASE k # key
      BY <1>1, <1>9, <3>2 DEF RollTimes
    <3> QED BY <3>1, <3>2
  <2> QED BY <1>2, <2>1, <2>2 DEF RollTimes
<1>17. ASSUME NEW t \in StatSwaps \ failed', t # s
       PROVE  /\ StoredLasts(t, writing'[t], instant', zsets', expiry')
              /\ HistoryLasts(writing'[t], instant', zsets', expiry')
  <2>1. StoredLasts(t, writing[t], instant, zsets, expiry) /\ HistoryLasts(writing[t], instant, zsets, expiry)
    BY <1>2 DEF RollInv
  <2>2. writing'[t] = writing[t] /\ writing[t].at \in 0..LastInstant /\ writing[t].at <= instant
    BY <1>13, <1>14, <1>17
  <2>3. ASSUME NEW k \in {"volume", "txns"}, Past(writing[t], k)
        PROVE  /\ writing[t].at + Day < expiry'[k]
               /\ instant < writing[t].at + Day => MemberOf(t, k, writing[t].at) \in zsets'[k]
    <3>1. k \in RollKeys
      BY DEF RollKeys
    <3>2. /\ writing[t].at + Day < expiry[k]
          /\ instant < writing[t].at + Day => MemberOf(t, k, writing[t].at) \in zsets[k]
      BY <2>1, <2>3 DEF StoredLasts
    <3>3. CASE k # key
      BY <1>9, <3>1, <3>2, <3>3
    <3>4. CASE k = key
      <4>1. MemberOf(t, k, writing[t].at).at = writing[t].at
        BY <2>2, <3>1, MemberIs
      <4>2. writing[t].at + Day < expiry'[k]
        BY <1>0, <1>2, <1>10, <2>2, <3>4
      <4>3. ASSUME instant < writing[t].at + Day PROVE writing[t].at > now - Day
        BY <1>0, <1>2, <1>3, <2>2, <4>3
      <4> QED BY <1>8, <3>2, <3>4, <4>1, <4>2, <4>3
    <3> QED BY <3>3, <3>4
  <2>4. ASSUME Past(writing[t], "history")
        PROVE  /\ Due(writing[t]) + Day <= expiry'["history"]
               /\ instant < Due(writing[t]) + Day => zsets'["history"] # {}
    <3>1. /\ Due(writing[t]) + Day <= expiry["history"]
          /\ instant < Due(writing[t]) + Day => zsets["history"] # {}
      BY <2>1, <2>4 DEF HistoryLasts
    <3>2. CASE key # "history"
      BY <1>9, <3>1, <3>2 DEF RollKeys
    <3>3. CASE key = "history"
      BY <1>0, <1>2, <1>10, <1>11, <2>2, <3>3 DEF Due
    <3> QED BY <3>2, <3>3
  <2> QED BY <1>2, <2>2, <2>3, <2>4 DEF StoredLasts, HistoryLasts
<1>18. ASSUME s \notin failed
       PROVE  /\ StoredLasts(s, writing'[s], instant', zsets', expiry')
              /\ HistoryLasts(writing'[s], instant', zsets', expiry')
  <2>1. StoredLasts(s, w, instant, zsets, expiry) /\ HistoryLasts(w, instant, zsets, expiry)
    BY <1>18 DEF RollInv
  <2> DEFINE next == writing'[s]
  <2>2. next.key = NextKey(key) /\ next.at = now
    BY <1>13
  <2> HIDE DEF next, w
  <2>3. CASE key = "history"
    <3>1. next.key = "volume" /\ now = instant
      BY <1>3, <1>4, <2>2, <2>3 DEF NextKey
    <3>2. Due(next) + Day <= expiry'["history"] /\ zsets'["history"] # {}
      BY <1>0, <1>2, <1>10, <1>11, <2>2, <2>3, <3>1 DEF Due
    <3> QED BY <3>1, <3>2 DEF StoredLasts, HistoryLasts, Past, next
  <2>4. CASE key = "volume"
    <3>1. next.key = "txns" /\ now = instant /\ instant <= w.at + 1 /\ w.key = "volume"
      BY <1>3, <1>4, <2>2, <2>4 DEF NextKey
    <3>2. next.at + Day < expiry'["volume"] /\ MemberOf(s, "volume", next.at) \in zsets'["volume"]
      BY <1>0, <1>2, <1>6, <1>10, <1>11, <2>2, <2>4, <3>1
    <3>3. /\ w.at + 1 + Day <= expiry["history"]
          /\ instant < w.at + 1 + Day => zsets["history"] # {}
      BY <2>1, <3>1 DEF HistoryLasts, Past, Due
    <3>4. expiry'["history"] = expiry["history"] /\ zsets'["history"] = zsets["history"]
      BY <1>9, <2>4 DEF RollKeys
    <3>5. Due(next) = instant
      BY <2>2, <3>1 DEF Due
    <3>6. /\ Due(next) + Day <= expiry'["history"]
          /\ instant < Due(next) + Day => zsets'["history"] # {}
      <4>1. PICK e \in 0..Forever : e = expiry["history"]
        BY <1>7 DEF RollKeys
      <4> QED BY <1>0, <1>2, <1>3, <3>1, <3>3, <3>4, <3>5, <4>1
    <3> QED BY <1>2, <3>1, <3>2, <3>6 DEF StoredLasts, HistoryLasts, Past, next
  <2>5. CASE key = "txns"
    <3>1. next.key = "done" /\ now = w.at /\ w.key = "txns"
      BY <1>3, <1>4, <2>2, <2>5 DEF NextKey
    <3>2. next.at + Day < expiry'["txns"] /\ MemberOf(s, "txns", next.at) \in zsets'["txns"]
      BY <1>0, <1>2, <1>3, <1>6, <1>10, <1>11, <2>2, <2>5, <3>1
    <3>3. /\ next.at + Day < expiry["volume"]
          /\ instant < next.at + Day => MemberOf(s, "volume", next.at) \in zsets["volume"]
      BY <2>1, <2>2, <3>1 DEF StoredLasts, Past
    <3>4. /\ Due(next) + Day <= expiry["history"]
          /\ instant < Due(next) + Day => zsets["history"] # {}
      BY <2>1, <2>2, <3>1 DEF HistoryLasts, Past, Due
    <3>5. /\ expiry'["history"] = expiry["history"] /\ zsets'["history"] = zsets["history"]
          /\ expiry'["volume"] = expiry["volume"] /\ zsets'["volume"] = zsets["volume"]
      BY <1>9, <2>5 DEF RollKeys
    <3> QED BY <1>2, <3>2, <3>3, <3>4, <3>5 DEF StoredLasts, HistoryLasts, next
  <2> QED BY <2>3, <2>4, <2>5 DEF RollKeys
<1>19. ASSUME failed = {}, NEW k \in RollKeys, NEW m \in zsets'[k]
       PROVE  expiry'[k] < m.at + 2 * Day + 2 /\ Origin(m, k)'
  <2>0. m.at \in 0..LastInstant
    <3>1. m \in RollMember
      BY <1>6, <1>7, <1>8, <1>9
    <3> QED BY <3>1 DEF RollMember
  <2>1. CASE k = key /\ m = member
    <3>1. OfSwap(m, s, writing'[s], k)
      <4>1. Past(writing'[s], k)
        BY <1>13, <2>1 DEF Past, NextKey, RollKeys
      <4>2. m.price = s.price /\ m.at <= writing'[s].at /\ m = MemberOf(s, k, writing'[s].at)
        BY <1>0, <1>3, <1>6, <1>13, <2>1
      <4> QED BY <4>1, <4>2 DEF OfSwap
    <3>2. expiry'[k] < m.at + 2 * Day + 2
      BY <1>0, <1>2, <1>3, <1>6, <1>10, <2>1
    <3> QED BY <3>1, <3>2 DEF Origin
  <2>2. CASE ~(k = key /\ m = member)
    <3>1. m \in zsets[k]
      BY <1>8, <1>9, <2>2
    <3>2. expiry[k] < m.at + 2 * Day + 2 /\ Origin(m, k)
      BY <1>19, <3>1 DEF RollInv
    <3>3. expiry'[k] < m.at + 2 * Day + 2
      <4>1. CASE k = key
        <5>1. m.at > now - Day
          BY <1>8, <4>1
        <5> QED BY <1>0, <1>2, <1>3, <1>10, <2>0, <4>1, <5>1
      <4>2. CASE k # key
        BY <1>9, <3>2, <4>2
      <4> QED BY <4>1, <4>2
    <3>4. PICK t \in StatSwaps : OfSwap(m, t, writing[t], k)
      BY <3>2 DEF Origin
    <3>5. OfSwap(m, t, writing'[t], k)
      <4>1. CASE t # s
        BY <1>13, <3>4, <4>1
      <4>2. CASE t = s
        <5>1. Past(w, k) /\ IF k = "history" THEN m.price = s.price /\ m.at <= w.at ELSE m = MemberOf(s, k, w.at)
          BY <3>4, <4>2 DEF OfSwap
        <5>2. CASE k = "history"
          <6>1. w.key # "history" /\ m.price = s.price /\ m.at <= w.at
            BY <5>1, <5>2 DEF Past
          <6>2. w.at <= now
            BY <1>3, <1>4, <6>1 DEF RollKeys
          <6>3. m.at <= now
            BY <1>3, <2>0, <6>1, <6>2
          <6> QED BY <1>13, <4>2, <5>2, <6>1, <6>3 DEF OfSwap, Past, NextKey, RollKeys
        <5>3. CASE k # "history"
          <6>1. k = "volume" /\ key = "txns"
            BY <1>2, <1>4, <5>1, <5>3 DEF Past, RollKeys
          <6> QED BY <1>3, <1>4, <1>13, <4>2, <5>1, <6>1 DEF OfSwap, Past, NextKey
        <5> QED BY <5>2, <5>3
      <4> QED BY <4>1, <4>2
    <3> QED BY <3>3, <3>5 DEF Origin
  <2> QED BY <2>1, <2>2
<1> QED
  <2>1. \A t \in StatSwaps \ failed' : /\ StoredLasts(t, writing'[t], instant', zsets', expiry')
                                       /\ HistoryLasts(writing'[t], instant', zsets', expiry')
    BY <1>2, <1>17, <1>18
  <2>2. \A m \in zsets'["volume"] : m.what \in Nat
    <3>1. \A m \in zsets'["volume"] : m \in zsets["volume"] \/ (key = "volume" /\ m = member)
      BY <1>8, <1>9 DEF RollKeys
    <3> QED BY <1>3, <1>6, <3>1, MemberIs DEF RollInv
  <2> QED BY <1>2, <1>15, <1>16, <1>19, <2>1, <2>2 DEF RollInv

LEMMA RollStepInv == RollInv /\ [RollStep]_rollVars => RollInv'
<1> SUFFICES ASSUME RollInv, [RollStep]_rollVars PROVE RollInv'
  OBVIOUS
<1>1. CASE TimeGoesOn
  BY <1>1, TimeKeeps
<1>2. ASSUME NEW s \in StatSwaps, StoreMember(s) \/ StoreFails(s) PROVE RollInv'
  BY <1>2, StoreKeeps, FailKeeps
<1>3. CASE UNCHANGED rollVars
  BY <1>3 DEF RollInv, RollTables, RollTimes, Begun, Origin, rollVars
<1> QED BY <1>1, <1>2, <1>3 DEF RollStep

(* The three sets have their types and are not expired; what a swap stored *)
(* stays a day from its last write, and what is stored is of a swap and of *)
(* the day before the last write of its key.                               *)
THEOREM RollInductive == RollSpec => []RollInv
BY RollInitInv, RollStepInv, PTL DEF RollSpec

(* The clock, the sets, their expiry and the handlers of the swaps have    *)
(* their types.                                                            *)
THEOREM RollTypes == RollSpec => []RollTypeOK
<1>1. RollInv => RollTypeOK
  BY DEF RollInv, RollTables, RollTypeOK, Written, RollPhases, RollMember
<1> QED BY <1>1, RollInductive, PTL

(***************************************************************************)
(* What is read                                                            *)
(***************************************************************************)

(* The swaps of the day are in the sets, and those alike apart each is a   *)
(* member of its own.                                                      *)
LEMMA DayIsStored ==
  ASSUME RollInv, AtWork = {}, NEW today, today = Handled(Day) \ failed,
         NEW k \in {"volume", "txns"}
  PROVE  /\ IsFiniteSet(today)
         /\ \A s \in today : MemberOf(s, k, writing[s].at) \in zsets[k]
         /\ ~(\E s, t \in today : s # t /\ Alike(s, t)) =>
              \A s, t \in today : MemberOf(s, k, writing[s].at) = MemberOf(t, k, writing[t].at) => s = t
<1>0. Day \in Nat \ {0} /\ LastInstant \in Nat
  BY DayAssumption
<1>1. today \subseteq Begun /\ IsFiniteSet(Begun)
  BY DEF Handled, Begun, RollInv, RollTables
<1>2. ASSUME NEW s \in today
      PROVE  /\ s \in StatSwaps \ failed /\ writing[s].key = "done" /\ writing[s].at \in 0..LastInstant
             /\ instant < writing[s].at + Day
  BY <1>0 DEF Handled, RollInv, RollTables, Written
<1>3. ASSUME NEW s \in today PROVE MemberOf(s, k, writing[s].at) \in zsets[k]
  <2>1. StoredLasts(s, writing[s], instant, zsets, expiry) /\ Past(writing[s], k)
    BY <1>2 DEF RollInv, Past
  <2> QED BY <1>2, <2>1 DEF StoredLasts
<1>4. ASSUME NEW s \in today, NEW t \in today, MemberOf(s, k, writing[s].at) = MemberOf(t, k, writing[t].at)
      PROVE  Alike(s, t)
  <2>1. writing[s].at = writing[t].at /\ s.price = t.price
    BY <1>2, <1>4, MemberIs DEF RollKeys
  <2>2. MemberOf(s, k, writing[s].at).what = MemberOf(t, k, writing[t].at).what
    BY <1>4
  <2>3. CASE k = "volume"
    BY <2>1, <2>2, <2>3 DEF Alike, MemberOf
  <2>4. CASE k = "txns"
    <3>1. (IF s.buys THEN 1 ELSE -1) = (IF t.buys THEN 1 ELSE -1)
      BY <2>2, <2>4 DEF MemberOf
    <3>2. s.buys \in BOOLEAN /\ t.buys \in BOOLEAN
      BY <1>2, DayAssumption
    <3>3. s.buys => t.buys
      BY <3>1
    <3>4. t.buys => s.buys
      BY <3>1
    <3>5. s.buys = t.buys
      <4>1. PICK a \in BOOLEAN, b \in BOOLEAN : a = s.buys /\ b = t.buys
        BY <3>2
      <4>2. a = b
        BY <3>3, <3>4, <4>1
      <4> QED BY <4>1, <4>2
    <3> QED BY <2>1, <3>5 DEF Alike
  <2> QED BY <2>3, <2>4
<1>5. IsFiniteSet(today)
  BY <1>1, FS_Subset
<1> QED BY <1>3, <1>4, <1>5

(* What is in the sets is of swaps of two days and an instant.             *)
LEMMA StoredIsRecent ==
  ASSUME RollInv, AtWork = {}, failed = {}, NEW k \in RollKeys, NEW m \in zsets[k]
  PROVE  \E s \in Handled(2 * Day + 1) :
           IF k = "history" THEN m.price = s.price ELSE m = MemberOf(s, k, writing[s].at)
<1>0. Day \in Nat \ {0} /\ LastInstant \in Nat
  BY DayAssumption
<1>1. expiry[k] < m.at + 2 * Day + 2 /\ Origin(m, k) /\ instant < expiry[k]
  BY DEF RollInv, RollTimes
<1>2. PICK s \in StatSwaps : OfSwap(m, s, writing[s], k)
  BY <1>1 DEF Origin
<1>3. /\ m.at \in 0..LastInstant /\ instant \in 0..LastInstant /\ expiry[k] \in 0..Forever /\ Forever \in Nat
      /\ writing[s].at \in 0..LastInstant /\ writing[s].key \in RollPhases
  <2>1. m \in RollMember /\ writing[s] \in Written
    BY DEF RollInv, RollTables
  <2> QED BY <1>0, <2>1 DEF RollInv, RollTables, RollMember, Written, Forever
<1>4. writing[s].key = "done"
  BY <1>2, <1>3 DEF OfSwap, Past, AtWork, RollPhases, RollKeys
<1>5. m.at <= writing[s].at
  <2>1. CASE k = "history"
    BY <1>2, <2>1 DEF OfSwap
  <2>2. CASE k # "history"
    <3>1. m.at = writing[s].at
      BY <1>2, <1>3, <2>2, MemberIs DEF OfSwap
    <3> QED BY <1>3, <3>1
  <2> QED BY <2>1, <2>2
<1>6. writing[s].at > instant - (2 * Day + 1)
  BY <1>0, <1>1, <1>3, <1>5
<1>7. s \in Handled(2 * Day + 1)
  BY <1>4, <1>6 DEF Handled
<1>8. IF k = "history" THEN m.price = s.price ELSE m = MemberOf(s, k, writing[s].at)
  BY <1>2 DEF OfSwap
<1> QED BY <1>7, <1>8

(* One to one, from the swaps of the day into the sets, the sums and       *)
(* counts can only grow.                                                   *)
LEMMA DayIsCounted ==
  ASSUME RollInv, AtWork = {}, NEW today, today = Handled(Day) \ failed,
         ~(\E s, t \in today : s # t /\ Alike(s, t))
  PROVE  /\ Volume24h >= SumFunction([s \in today |-> s.volume])
         /\ Buys24h >= Cardinality({s \in today : s.buys = TRUE})
         /\ Sells24h >= Cardinality({s \in today : s.buys = FALSE})
<1> DEFINE F(k) == [s \in today |-> MemberOf(s, k, writing[s].at)]
<1>1. ASSUME NEW k \in {"volume", "txns"}
      PROVE  /\ IsFiniteSet(today) /\ IsFiniteSet(zsets[k])
             /\ \A s \in today : F(k)[s] \in zsets[k]
             /\ \A s, t \in today : F(k)[s] = F(k)[t] => s = t
  <2>1. IsFiniteSet(zsets[k])
    BY DEF RollInv, RollTables, RollKeys
  <2> QED BY <2>1, DayIsStored
<1>2. \A s \in today : s.volume \in Nat /\ s.buys \in BOOLEAN
  BY DayAssumption DEF Handled
<1>3. Volume24h >= SumFunction([s \in today |-> s.volume])
  <2> DEFINE t == [s \in today |-> s.volume]
             u == [m \in zsets["volume"] |-> m.what]
             f == F("volume")
  <2>1. \A m \in zsets["volume"] : u[m] \in Nat
    BY DEF RollInv
  <2>2. \A s \in today : t[s] = u[f[s]]
    <3>1. ASSUME NEW s \in today PROVE t[s] = u[f[s]]
      <4>1. f[s] \in zsets["volume"] /\ f[s].what = s.volume
        BY <1>1 DEF MemberOf
      <4> HIDE DEF f
      <4> QED BY <4>1
    <3> QED BY <3>1
  <2>3. \A s \in today : t[s] \in Nat
    BY <1>2
  <2>4. /\ IsFiniteSet(today) /\ IsFiniteSet(zsets["volume"])
        /\ \A s \in today : f[s] \in zsets["volume"]
        /\ \A s, r \in today : f[s] = f[r] => s = r
    BY <1>1
  <2>5. DOMAIN t = today /\ DOMAIN u = zsets["volume"]
    OBVIOUS
  <2>6. Volume24h = SumFunction(u)
    BY DEF Volume24h
  <2> HIDE DEF t, u, f
  <2>7. TotalOf(t, today) <= TotalOf(u, zsets["volume"]) /\ TotalOf(t, today) \in Nat /\ TotalOf(u, zsets["volume"]) \in Nat
    BY <2>1, <2>2, <2>3, <2>4, TotalInjection, TotalNat
  <2>8. SumFunction(u) >= SumFunction(t)
    BY <2>5, <2>7 DEF SumFunction, TotalOf
  <2> QED BY <2>6, <2>8 DEF t
<1> DEFINE f == F("txns")
<1>4. /\ IsFiniteSet(zsets["txns"]) /\ \A s \in today : f[s] \in zsets["txns"]
      /\ \A s, t \in today : f[s] = f[t] => s = t
  BY <1>1
<1>5. \A s \in today : f[s].what = IF s.buys THEN 1 ELSE -1
  BY DEF MemberOf
<1> HIDE DEF f
<1>6. ASSUME NEW side \in BOOLEAN, NEW what, what = IF side THEN 1 ELSE -1
      PROVE  Cardinality({m \in zsets["txns"] : m.what = what}) >= Cardinality({s \in today : s.buys = side})
  <2> DEFINE S == {s \in today : s.buys = side}
             M == {m \in zsets["txns"] : m.what = what}
             g == [s \in S |-> f[s]]
  <2>1. IsFiniteSet(M)
    BY <1>4, FS_Subset
  <2>2. \A s \in S : f[s] \in M
    BY <1>4, <1>5, <1>6
  <2>3. g \in Injection(S, M)
    BY <1>4, <2>2 DEF Injection, IsInjective
  <2> HIDE DEF S, M, g
  <2>4. Cardinality(S) <= Cardinality(M) /\ IsFiniteSet(S)
    BY <2>1, <2>3, FS_Injection
  <2>5. Cardinality(S) \in Nat /\ Cardinality(M) \in Nat
    BY <2>1, <2>4, FS_CardinalityType
  <2>6. Cardinality(M) >= Cardinality(S)
    BY <2>4, <2>5
  <2> QED BY <2>6 DEF S, M
<1>7. Buys24h >= Cardinality({s \in today : s.buys = TRUE})
  BY <1>6 DEF Buys24h
<1>8. Sells24h >= Cardinality({s \in today : s.buys = FALSE})
  BY <1>6 DEF Sells24h
<1> QED BY <1>3, <1>7, <1>8

(* One to one, from the sets into the swaps of two days and an instant,    *)
(* they can only shrink.                                                   *)
LEMMA RecentIsAll ==
  ASSUME RollInv, AtWork = {}, failed = {}, NEW recent, recent = Handled(2 * Day + 1)
  PROVE  /\ Volume24h <= SumFunction([s \in recent |-> s.volume])
         /\ Buys24h <= Cardinality({s \in recent : s.buys = TRUE})
         /\ Sells24h <= Cardinality({s \in recent : s.buys = FALSE})
<1> DEFINE Same(m, s, k) == m = MemberOf(s, k, writing[s].at)
           G(k) == [m \in zsets[k] |-> CHOOSE s \in recent : Same(m, s, k)]
<1>1. ASSUME NEW k \in {"volume", "txns"}
      PROVE  /\ IsFiniteSet(zsets[k])
             /\ \A m \in zsets[k] : G(k)[m] \in recent /\ m = MemberOf(G(k)[m], k, writing[G(k)[m]].at)
             /\ \A m, n \in zsets[k] : G(k)[m] = G(k)[n] => m = n
  <2>1. k \in RollKeys /\ k # "history"
    BY DEF RollKeys
  <2>2. IsFiniteSet(zsets[k])
    BY <2>1 DEF RollInv, RollTables
  <2>3. ASSUME NEW m \in zsets[k]
        PROVE  G(k)[m] \in recent /\ Same(m, G(k)[m], k)
    <3>1. \E s \in recent : Same(m, s, k)
      BY <2>1, StoredIsRecent
    <3> HIDE DEF Same
    <3> QED BY <3>1
  <2> HIDE DEF G
  <2> QED BY <2>2, <2>3
<1>2. IsFiniteSet(recent) /\ \A s \in recent : s.volume \in Nat /\ s.buys \in BOOLEAN
  <2>1. recent \subseteq Begun /\ IsFiniteSet(Begun)
    BY DEF Handled, Begun, RollInv, RollTables
  <2>2. IsFiniteSet(recent)
    BY <2>1, FS_Subset
  <2> QED BY <2>2, DayAssumption DEF Handled
<1> HIDE DEF G
<1>3. Volume24h <= SumFunction([s \in recent |-> s.volume])
  <2> DEFINE t == [m \in zsets["volume"] |-> m.what]
             u == [s \in recent |-> s.volume]
             g == G("volume")
  <2>1. /\ IsFiniteSet(zsets["volume"]) /\ \A m \in zsets["volume"] : g[m] \in recent
        /\ \A m, n \in zsets["volume"] : g[m] = g[n] => m = n
    BY <1>1
  <2>2. ASSUME NEW m \in zsets["volume"] PROVE t[m] = u[g[m]]
    <3>1. PICK s \in recent : s = g[m] /\ m = MemberOf(s, "volume", writing[s].at)
      BY <1>1
    <3>2. m.what = s.volume
      BY <3>1 DEF MemberOf
    <3> HIDE DEF g
    <3> QED BY <3>1, <3>2
  <2>3. (\A s \in recent : u[s] \in Nat) /\ (\A m \in zsets["volume"] : t[m] \in Nat)
    BY <1>2 DEF RollInv
  <2>4. DOMAIN u = recent /\ DOMAIN t = zsets["volume"]
    OBVIOUS
  <2>5. Volume24h = SumFunction(t)
    BY DEF Volume24h
  <2> HIDE DEF t, u, g
  <2>6. TotalOf(t, zsets["volume"]) <= TotalOf(u, recent)
    BY <1>2, <2>1, <2>2, <2>3, TotalInjection
  <2>7. SumFunction(t) <= SumFunction(u)
    BY <2>4, <2>6 DEF SumFunction, TotalOf
  <2> QED BY <2>5, <2>7 DEF u
<1> DEFINE g == G("txns")
<1>4. /\ IsFiniteSet(zsets["txns"])
      /\ \A m \in zsets["txns"] : g[m] \in recent /\ m = MemberOf(g[m], "txns", writing[g[m]].at)
      /\ \A m, n \in zsets["txns"] : g[m] = g[n] => m = n
  BY <1>1
<1>5. ASSUME NEW side \in BOOLEAN, NEW what, what = IF side THEN 1 ELSE -1
      PROVE  Cardinality({m \in zsets["txns"] : m.what = what}) <= Cardinality({s \in recent : s.buys = side})
  <2> DEFINE S == {s \in recent : s.buys = side}
             M == {m \in zsets["txns"] : m.what = what}
             h == [m \in M |-> g[m]]
  <2>1. IsFiniteSet(S)
    BY <1>2, FS_Subset
  <2>2. ASSUME NEW m \in M PROVE g[m] \in S
    <3>1. PICK s \in recent : s = g[m] /\ m = MemberOf(s, "txns", writing[s].at)
      BY <1>4
    <3>2. m.what = IF s.buys THEN 1 ELSE -1
      BY <3>1 DEF MemberOf
    <3>3. s.buys => side
      BY <1>5, <3>2
    <3>4. side => s.buys
      BY <1>5, <3>2
    <3>5. PICK a \in BOOLEAN : a = s.buys
      BY <1>2
    <3>6. a = side
      BY <3>3, <3>4, <3>5
    <3> QED BY <3>1, <3>5, <3>6
  <2>3. h \in Injection(M, S)
    <3> HIDE DEF S
    <3> QED BY <1>4, <2>2 DEF Injection, IsInjective
  <2> HIDE DEF S, M, h
  <2>4. Cardinality(M) <= Cardinality(S)
    BY <2>1, <2>3, FS_Injection
  <2> QED BY <2>4 DEF S, M
<1>6. Buys24h <= Cardinality({s \in recent : s.buys = TRUE})
  BY <1>5 DEF Buys24h
<1>7. Sells24h <= Cardinality({s \in recent : s.buys = FALSE})
  BY <1>5 DEF Sells24h
<1> QED BY <1>3, <1>6, <1>7

(* The first price of the history is of a recent swap.                     *)
LEMMA OldestIsRecent ==
  ASSUME RollInv, AtWork = {}, failed = {}, NEW today, today = Handled(Day),
         NEW recent, recent = Handled(2 * Day + 1)
  PROVE  /\ recent = {} => OldestPrice = 0
         /\ today # {} => OldestPrice \in {s.price : s \in recent}
<1> DEFINE past == zsets["history"]
           first == {m \in past : \A n \in past : m.at <= n.at}
           prices == {m.price : m \in first}
<1>0. Day \in Nat \ {0} /\ LastInstant \in Nat
  BY DayAssumption
<1>1. ASSUME NEW m \in past PROVE \E s \in recent : m.price = s.price
  BY StoredIsRecent DEF RollKeys
<1>2. OldestPrice = IF first = {} THEN 0 ELSE Min(prices)
  BY DEF OldestPrice
<1>3. recent = {} => OldestPrice = 0
  BY <1>1, <1>2
<1>4. ASSUME today # {} PROVE past # {}
  <2>1. PICK s \in today : TRUE
    BY <1>4
  <2>2. /\ s \in StatSwaps \ failed /\ writing[s].key = "done" /\ writing[s].at \in 0..LastInstant
        /\ instant < writing[s].at + Day
    BY <1>0 DEF Handled, RollInv, RollTables, Written
  <2>3. HistoryLasts(writing[s], instant, zsets, expiry)
    BY <2>2 DEF RollInv
  <2> QED BY <2>2, <2>3 DEF HistoryLasts, Past, Due
<1>5. ASSUME past # {} PROVE Min(prices) \in {s.price : s \in recent} /\ first # {}
  <2>1. past \in SUBSET RollMember
    BY DEF RollInv, RollTables, RollKeys
  <2>2. \A m \in past : m.at \in Nat /\ m.price \in Nat
    BY <1>0, <2>1 DEF RollMember
  <2>3. first # {}
    <3> DEFINE times == {m.at : m \in past}
    <3>1. times \in SUBSET Nat /\ times # {}
      BY <1>5, <2>2
    <3> HIDE DEF times
    <3>2. PICK i \in times : \A j \in times : i <= j
      BY <3>1, LeastOf, Zenon
    <3> QED BY <3>2 DEF times
  <2>4. prices \in SUBSET Nat /\ prices # {} /\ prices \subseteq {s.price : s \in recent}
    <3>1. prices \subseteq {s.price : s \in recent}
      BY <1>1
    <3> QED BY <2>2, <2>3, <3>1
  <2> HIDE DEF prices
  <2>5. \E x \in prices : \A y \in prices : x <= y
    BY <2>4, LeastOf, Zenon
  <2>6. Min(prices) \in prices
    BY <2>5, Zenon DEF Min
  <2> QED BY <2>3, <2>4, <2>6
<1> HIDE DEF first, prices, past
<1> QED BY <1>2, <1>3, <1>4, <1>5

LEMMA StatsAgree == RollInv => StatsAreOfTheDay
<1> SUFFICES ASSUME RollInv, AtWork = {} PROVE StatsAreOfTheDay
  BY DEF StatsAreOfTheDay
<1> DEFINE today == Handled(Day) \ failed
           recent == Handled(2 * Day + 1)
<1>1. ~(\E s, t \in today : s # t /\ Alike(s, t)) =>
        /\ Volume24h >= SumFunction([s \in today |-> s.volume])
        /\ Buys24h >= Cardinality({s \in today : s.buys = TRUE})
        /\ Sells24h >= Cardinality({s \in today : s.buys = FALSE})
  <2> HIDE DEF today
  <2>1. today = Handled(Day) \ failed
    BY DEF today
  <2> QED BY <2>1, DayIsCounted
<1>2. failed = {} =>
        /\ Volume24h <= SumFunction([s \in recent |-> s.volume])
        /\ Buys24h <= Cardinality({s \in recent : s.buys = TRUE})
        /\ Sells24h <= Cardinality({s \in recent : s.buys = FALSE})
  <2> HIDE DEF recent
  <2>1. recent = Handled(2 * Day + 1)
    BY DEF recent
  <2> QED BY <2>1, RecentIsAll
<1>3. failed = {} => /\ recent = {} => OldestPrice = 0
                     /\ today # {} => OldestPrice \in {s.price : s \in recent}
  <2>1. failed = {} => today = Handled(Day)
    OBVIOUS
  <2> HIDE DEF recent, today
  <2>2. recent = Handled(2 * Day + 1)
    BY DEF recent
  <2> QED BY <2>1, <2>2, OldestIsRecent
<1> QED BY <1>1, <1>2, <1>3 DEF StatsAreOfTheDay

(* With no handler at work the 24 hours have what the swaps of the day     *)
(* bring that met no error and are not alike, and without errors nothing   *)
(* that is older than two days and an instant, for any swaps (infinitely   *)
(* many too), prices, length of the day and overlap of handlers.           *)
THEOREM StatsAreAlwaysOfTheDay == RollSpec => []StatsAreOfTheDay
BY RollInductive, StatsAgree, PTL

(***************************************************************************)
(* ActivityFeed.  What a wallet is shown of its transfers is what          *)
(* happened, for any page that Helius can answer, any order of the second  *)
(* answers and any limit of them.                                          *)
(***************************************************************************)
(***************************************************************************)
(* Flattening gives the elements of the parts.                             *)
(***************************************************************************)
FlattenTo(f, ss) == \A i \in 1..Len(ss) : f[i] = IF i = 1 THEN ss[i] ELSE f[i - 1] \o ss[i]

LEMMA FlattenExists ==
  ASSUME NEW E, NEW ss \in Seq(Seq(E))
  PROVE  \E f : f = [i \in 1..Len(ss) |-> IF i = 1 THEN ss[i] ELSE f[i - 1] \o ss[i]]
<1> DEFINE n == Len(ss)
           Part(g, m) == \A i \in 1..n : i <= m => g[i] = IF i = 1 THEN ss[i] ELSE g[i - 1] \o ss[i]
           Bad == {m \in Nat : ~\E g : Part(g, m)}
<1>0. n \in Nat
  OBVIOUS
<1> HIDE DEF n
<1>1. Bad = {}
  <2> SUFFICES ASSUME Bad # {} PROVE FALSE
    OBVIOUS
  <2>1. PICK m \in Bad : \A j \in Bad : m <= j
    <3>1. Bad \in SUBSET Nat
      OBVIOUS
    <3> HIDE DEF Bad
    <3> QED BY <3>1, LeastOf
  <2>2. m \in Nat /\ ~\E g : Part(g, m)
    OBVIOUS
  <2>3. m # 0
    <3>1. Part(ss, 0)
      OBVIOUS
    <3> HIDE DEF Part
    <3> QED BY <2>2, <3>1
  <2>4. m - 1 \in Nat /\ m - 1 \notin Bad
    <3>1. m - 1 \in Nat /\ ~(m <= m - 1)
      BY <2>2, <2>3
    <3> HIDE DEF Bad
    <3> QED BY <2>1, <3>1
  <2>5. PICK g : Part(g, m - 1)
    BY <2>4
  <2> DEFINE h == [i \in 1..n |-> IF i = m THEN (IF m = 1 THEN ss[m] ELSE g[m - 1] \o ss[m]) ELSE g[i]]
  <2>6. ASSUME NEW i \in 1..n, i <= m
        PROVE  h[i] = IF i = 1 THEN ss[i] ELSE h[i - 1] \o ss[i]
    <3>1. CASE i = m
      <4>1. i # 1 => i - 1 \in 1..n /\ i - 1 # m
        BY <1>0, <3>1
      <4> QED BY <3>1, <4>1
    <3>2. CASE i # m
      <4>0. i \in Nat /\ m \in Nat /\ i <= m /\ i # m /\ n \in Nat /\ 1 <= i /\ i <= n
        BY <1>0, <2>2, <2>6, <3>2
      <4> HIDE DEF h
      <4>1. i <= m - 1 /\ (i # 1 => i - 1 \in 1..n /\ i - 1 # m)
        BY <4>0
      <4> USE DEF h
      <4>2. g[i] = IF i = 1 THEN ss[i] ELSE g[i - 1] \o ss[i]
        BY <2>5, <4>1
      <4> QED BY <3>2, <4>1, <4>2
    <3> QED BY <3>1, <3>2
  <2>7. Part(h, m)
    <3> HIDE DEF h
    <3> QED BY <2>6
  <2> HIDE DEF Part
  <2> QED BY <2>2, <2>7
<1>2. PICK g : Part(g, n)
  BY <1>0, <1>1
<1> DEFINE f == [i \in 1..n |-> g[i]]
<1>3. ASSUME NEW i \in 1..n PROVE f[i] = IF i = 1 THEN ss[i] ELSE f[i - 1] \o ss[i]
  <2>1. i <= n /\ (i # 1 => i - 1 \in 1..n)
    BY <1>0
  <2>2. g[i] = IF i = 1 THEN ss[i] ELSE g[i - 1] \o ss[i]
    BY <1>2, <2>1
  <2> QED BY <2>1, <2>2
<1>4. f = [i \in 1..n |-> f[i]]
  OBVIOUS
<1> HIDE DEF f
<1>5. f = [i \in 1..n |-> IF i = 1 THEN ss[i] ELSE f[i - 1] \o ss[i]]
  BY <1>3, <1>4
<1> QED BY <1>5 DEF n

LEMMA FlattenIs ==
  ASSUME NEW E, NEW ss \in Seq(Seq(E))
  PROVE  FlattenSeq(ss) \in Seq(E)
<1> DEFINE n == Len(ss)
<1>0. n \in Nat /\ \A i \in 1..n : ss[i] \in Seq(E)
  OBVIOUS
<1>1. CASE n = 0
  <2>1. FlattenSeq(ss) = ss
    BY <1>1 DEF FlattenSeq
  <2>2. ss = <<>>
    BY <1>1
  <2> QED BY <2>1, <2>2
<1>2. CASE n # 0
  <2> DEFINE IsFlat(f) == f = [i \in 1..n |-> IF i = 1 THEN ss[i] ELSE f[i - 1] \o ss[i]]
             flat == CHOOSE f : IsFlat(f)
  <2>1. FlattenSeq(ss) = flat[n]
    BY <1>2 DEF FlattenSeq
  <2>2. IsFlat(flat)
    <3>1. \E f : IsFlat(f)
      BY FlattenExists
    <3> HIDE DEF IsFlat
    <3> QED BY <3>1
  <2> HIDE DEF flat
  <2>3. ASSUME NEW i \in 1..n PROVE flat[i] = IF i = 1 THEN ss[i] ELSE flat[i - 1] \o ss[i]
    BY <2>2
  <2> HIDE DEF IsFlat, n
  <2> DEFINE Bad == {i \in 1..n : flat[i] \notin Seq(E)}
  <2>4. Bad = {}
    <3> SUFFICES ASSUME Bad # {} PROVE FALSE
      OBVIOUS
    <3>1. PICK i \in Bad : \A j \in Bad : i <= j
      <4>1. Bad \in SUBSET Nat
        BY <1>0
      <4> HIDE DEF Bad
      <4> QED BY <4>1, LeastOf
    <3>2. i \in 1..n /\ flat[i] \notin Seq(E)
      OBVIOUS
    <3>3. i # 1
      BY <1>0, <2>3, <3>2
    <3>4. i - 1 \in 1..n /\ ~(i <= i - 1)
      BY <1>0, <3>2, <3>3
    <3>5. flat[i - 1] \in Seq(E)
      BY <3>1, <3>4
    <3>6. PICK a \in Seq(E), b \in Seq(E) : a = flat[i - 1] /\ b = ss[i]
      BY <1>0, <3>2, <3>5
    <3>7. flat[i] = a \o b
      BY <2>3, <3>2, <3>3, <3>6
    <3> QED BY <3>2, <3>6, <3>7
  <2>5. n \in 1..n
    BY <1>0, <1>2
  <2> QED BY <2>1, <2>4, <2>5
<1> QED BY <1>1, <1>2

(* A set of at most one element as a sequence.                             *)
LEMMA SingleSeq ==
  ASSUME NEW S, \A x, y \in S : x = y
  PROVE  SetToSeq(S) \in Seq(S)
<1> DEFINE D == 1..Cardinality(S)
           Is(f) == f \in [D -> S] /\ IsInjective(f)
<1>1. \E f : Is(f)
  <2>1. CASE S = {}
    <3>1. D = {}
      BY <2>1, FS_EmptySet
    <3> DEFINE f == [i \in D |-> i]
    <3>2. Is(f)
      BY <3>1 DEF IsInjective
    <3> HIDE DEF f
    <3> QED BY <3>2
  <2>2. CASE S # {}
    <3>1. PICK x : S = {x}
      BY <2>2
    <3>2. D = {1}
      <4>1. Cardinality(S) = 1
        BY <3>1, FS_Singleton
      <4> QED BY <4>1
    <3> DEFINE f == [i \in D |-> x]
    <3>3. Is(f)
      BY <3>1, <3>2 DEF IsInjective
    <3> HIDE DEF f
    <3> QED BY <3>3
  <2> QED BY <2>1, <2>2
<1>2. SetToSeq(S) \in [D -> S]
  <2>1. SetToSeq(S) = CHOOSE f : Is(f)
    BY DEF SetToSeq
  <2> HIDE DEF Is
  <2>2. Is(SetToSeq(S))
    BY <1>1, <2>1
  <2> QED BY <2>2 DEF Is
<1>3. Cardinality(S) \in Nat
  <2>1. IsFiniteSet(S)
    <3>1. CASE S = {}
      BY <3>1, FS_EmptySet
    <3>2. CASE S # {}
      <4>1. PICK x : S = {x}
        BY <3>2
      <4> QED BY <4>1, FS_Singleton
    <3> QED BY <3>1, <3>2
  <2> QED BY <2>1, FS_CardinalityType
<1> QED BY <1>2, <1>3

(***************************************************************************)
(* One transaction                                                         *)
(***************************************************************************)
FeedSpec == FeedInit /\ [][FeedStep]_feedVars

HeliusTransfer == [mint : MintName, amount : Nat, from : STRING, to : STRING]
BalanceChange == [mint : MintName, amount : Int]
MintAmount == [mint : MintName, amount : Nat]
HeliusRecord ==
  [type : STRING, dex : BOOLEAN, event : STRING, nativeInput : Nat, nativeOutput : Nat,
   tokenInput : SUBSET MintAmount, tokenOutput : SUBSET MintAmount,
   tokens : HeliusTransfers, natives : HeliusTransfers, changes : Seq(BalanceChange)]

(* The first of some places of a sequence is one of them.                  *)
LEMMA FirstWhere ==
  ASSUME NEW X, NEW s \in Seq(X), NEW some \in SUBSET DOMAIN s, some # {}
  PROVE  Min(some) \in some /\ s[Min(some)] \in X
<1>1. Len(s) \in Nat /\ DOMAIN s = 1..Len(s)
  OBVIOUS
<1>2. Min(some) \in some
  BY <1>1, MaxMinIn
<1> QED BY <1>1, <1>2

LEMMA LeadingSent ==
  ASSUME NEW s \in HeliusTransfers, NEW t \in Leading(s, Sent)
  PROVE  t \in HeliusTransfer /\ t \in Range(s) /\ Sent(t)
<1>0. s \in Seq(HeliusTransfer)
  BY DEF HeliusTransfers, HeliusTransfer
<1> DEFINE some == {i \in DOMAIN s : Sent(s[i])}
<1>1. some \in SUBSET DOMAIN s /\ \A i \in some : Sent(s[i])
  OBVIOUS
<1>2. some # {} /\ t = s[Min(some)]
  BY DEF Leading
<1> HIDE DEF some
<1>3. Min(some) \in some /\ s[Min(some)] \in HeliusTransfer
  BY <1>0, <1>1, <1>2, FirstWhere
<1> QED BY <1>1, <1>2, <1>3 DEF Range

LEMMA LeadingReceived ==
  ASSUME NEW s \in HeliusTransfers, NEW t \in Leading(s, Received)
  PROVE  t \in HeliusTransfer /\ t \in Range(s) /\ Received(t)
<1>0. s \in Seq(HeliusTransfer)
  BY DEF HeliusTransfers, HeliusTransfer
<1> DEFINE some == {i \in DOMAIN s : Received(s[i])}
<1>1. some \in SUBSET DOMAIN s /\ \A i \in some : Received(s[i])
  OBVIOUS
<1>2. some # {} /\ t = s[Min(some)]
  BY DEF Leading
<1> HIDE DEF some
<1>3. Min(some) \in some /\ s[Min(some)] \in HeliusTransfer
  BY <1>0, <1>1, <1>2, FirstWhere
<1> QED BY <1>1, <1>2, <1>3 DEF Range

LEMMA LeadingInvolved ==
  ASSUME NEW s \in HeliusTransfers, NEW t \in Leading(s, Involved)
  PROVE  t \in HeliusTransfer /\ t \in Range(s) /\ Involved(t)
<1>0. s \in Seq(HeliusTransfer)
  BY DEF HeliusTransfers, HeliusTransfer
<1> DEFINE some == {i \in DOMAIN s : Involved(s[i])}
<1>1. some \in SUBSET DOMAIN s /\ \A i \in some : Involved(s[i])
  OBVIOUS
<1>2. some # {} /\ t = s[Min(some)]
  BY DEF Leading
<1> HIDE DEF some
<1>3. Min(some) \in some /\ s[Min(some)] \in HeliusTransfer
  BY <1>0, <1>1, <1>2, FirstWhere
<1> QED BY <1>1, <1>2, <1>3 DEF Range

LEMMA LeadingAny ==
  ASSUME NEW s \in HeliusTransfers, NEW t \in Leading(s, LAMBDA x : TRUE)
  PROVE  t \in HeliusTransfer /\ t \in Range(s)
<1>0. s \in Seq(HeliusTransfer)
  BY DEF HeliusTransfers, HeliusTransfer
<1> DEFINE some == {i \in DOMAIN s : TRUE}
<1>1. some \in SUBSET DOMAIN s /\ \A i \in some : TRUE
  OBVIOUS
<1>2. some # {} /\ t = s[Min(some)]
  BY DEF Leading
<1> HIDE DEF some
<1>3. Min(some) \in some /\ s[Min(some)] \in HeliusTransfer
  BY <1>0, <1>1, <1>2, FirstWhere
<1> QED BY <1>1, <1>2, <1>3 DEF Range

LEMMA LeadingSolOut ==
  ASSUME NEW s \in HeliusTransfers, NEW t \in Leading(s, LAMBDA x : Sent(x) /\ x.amount >= Dust)
  PROVE  t \in HeliusTransfer /\ t \in Range(s) /\ Sent(t)
<1>0. s \in Seq(HeliusTransfer)
  BY DEF HeliusTransfers, HeliusTransfer
<1> DEFINE some == {i \in DOMAIN s : Sent(s[i]) /\ s[i].amount >= Dust}
<1>1. some \in SUBSET DOMAIN s /\ \A i \in some : Sent(s[i]) /\ s[i].amount >= Dust
  OBVIOUS
<1>2. some # {} /\ t = s[Min(some)]
  BY DEF Leading
<1> HIDE DEF some
<1>3. Min(some) \in some /\ s[Min(some)] \in HeliusTransfer
  BY <1>0, <1>1, <1>2, FirstWhere
<1> QED BY <1>1, <1>2, <1>3 DEF Range


LEMMA LeadingChange ==
  ASSUME NEW s \in Seq(BalanceChange)
  PROVE  /\ \A c \in Leading(Reverse(s), LAMBDA x : x.amount > 0) : c.mint \in MintName
         /\ \A c \in Leading(Reverse(s), LAMBDA x : x.amount < 0) : c.mint \in MintName
<1> DEFINE r == Reverse(s)
<1>1. r \in Seq(BalanceChange)
  BY DEF Reverse
<1> HIDE DEF r
<1>2. ASSUME NEW c \in Leading(r, LAMBDA x : x.amount > 0) PROVE c.mint \in MintName
  <2> DEFINE some == {i \in DOMAIN r : r[i].amount > 0}
  <2>1. some \in SUBSET DOMAIN r
    OBVIOUS
  <2>2. some # {} /\ c = r[Min(some)]
    BY DEF Leading
  <2> HIDE DEF some
  <2>3. c \in BalanceChange
    BY <1>1, <2>1, <2>2, FirstWhere
  <2> QED BY <2>3 DEF BalanceChange
<1>3. ASSUME NEW c \in Leading(r, LAMBDA x : x.amount < 0) PROVE c.mint \in MintName
  <2> DEFINE some == {i \in DOMAIN r : r[i].amount < 0}
  <2>1. some \in SUBSET DOMAIN r
    OBVIOUS
  <2>2. some # {} /\ c = r[Min(some)]
    BY DEF Leading
  <2> HIDE DEF some
  <2>3. c \in BalanceChange
    BY <1>1, <2>1, <2>2, FirstWhere
  <2> QED BY <2>3 DEF BalanceChange
<1> QED BY <1>2, <1>3 DEF r

(* An activity is a record, whatever its fields.                           *)
IsActivity(a) ==
  a = [tx |-> a.tx, type |-> a.type, tokenIn |-> a.tokenIn, tokenOut |-> a.tokenOut, token |-> a.token,
       from |-> a.from, to |-> a.to]

OfOthers(tx) == tx.tokens # <<>> /\ Leading(tx.tokens, Involved) = {}

HasLeft(tx) == TokenOut(tx) # {} \/ (\E t \in Range(tx.natives) : Sent(t)) \/ OfOthers(tx)

(* What the property says of an activity, and that something has left the  *)
(* wallet before an outgoing transfer is asked about again.                *)
ReadRight(a, tx) ==
  tx.type = "TRANSFER" =>
    /\ a.type = "SWAP" => NoAmount # a.tokenIn /\ NoAmount # a.tokenOut
    /\ a.type \in {"SWAP", "TRANSFER_OUT"} => HasLeft(tx)
    /\ a.type = "TRANSFER_IN" => a.to = Owner
    /\ a.type = "TRANSFER_OUT" => a.from = Owner \/ OfOthers(tx)

LEMMA MappedSwap ==
  ASSUME NEW k, NEW tx, tx.type # "TRANSFER",
         NEW a \in Swap(k, tx) \cup Stake(k, tx) \cup {Activity(k, tx)}
  PROVE  IsActivity(a) /\ a.tx = k /\ ReadRight(a, tx)
<1>1. CASE a \in Swap(k, tx)
  <2>1. PICK x, y : a = [Activity(k, tx) EXCEPT !.type = "SWAP", !.tokenIn = x, !.tokenOut = y]
    BY <1>1, Zenon DEF Swap
  <2> QED BY <2>1 DEF Activity, IsActivity, ReadRight
<1>2. CASE a \in Stake(k, tx)
  <2>1. PICK x, y : a = [Activity(k, tx) EXCEPT !.type = x, !.token = y]
    BY <1>2, Zenon DEF Stake
  <2> QED BY <2>1 DEF Activity, IsActivity, ReadRight
<1>3. CASE a = Activity(k, tx)
  BY <1>3 DEF Activity, IsActivity, ReadRight
<1> QED BY <1>1, <1>2, <1>3

LEMMA TokenSides ==
  ASSUME NEW tx \in HeliusRecord
  PROVE  /\ \A t \in TokenIn(tx) : t.mint \in MintName
         /\ \A t \in TokenOut(tx) : t.mint \in MintName
         /\ Leading(tx.tokens, Sent) # {} => TokenOut(tx) # {}
<1>1. tx.tokens \in HeliusTransfers /\ tx.changes \in Seq(BalanceChange)
  BY DEF HeliusRecord
<1>2. ASSUME NEW t \in TokenIn(tx) PROVE t.mint \in MintName
  <2>1. CASE t \in Leading(tx.tokens, Received)
    BY <1>1, <2>1, LeadingReceived DEF HeliusTransfer
  <2>2. CASE t \in Gained(tx)
    <3>1. t \in Leading(Reverse(tx.changes), LAMBDA x : x.amount > 0)
      BY <2>2 DEF Gained
    <3> QED BY <1>1, <3>1, LeadingChange
  <2> QED BY <2>1, <2>2 DEF TokenIn
<1>3. ASSUME NEW t \in TokenOut(tx) PROVE t.mint \in MintName
  <2>1. CASE t \in Leading(tx.tokens, Sent)
    BY <1>1, <2>1, LeadingSent DEF HeliusTransfer
  <2>2. CASE t \in Lost(tx)
    <3>1. PICK c \in Leading(Reverse(tx.changes), LAMBDA x : x.amount < 0) : t.mint = c.mint
      <4>1. PICK c \in Leading(Reverse(tx.changes), LAMBDA x : x.amount < 0) : t = Token(c.mint, -c.amount)
        BY <2>2, Zenon DEF Lost
      <4>2. t.mint = c.mint
        BY <4>1 DEF Token
      <4> QED BY <4>2
    <3> QED BY <1>1, <3>1, LeadingChange
  <2> QED BY <2>1, <2>2 DEF TokenOut
<1>4. Leading(tx.tokens, Sent) # {} => TokenOut(tx) # {}
  BY DEF TokenOut
<1> QED BY <1>2, <1>3, <1>4

(* A token of a mint that has a name is an amount.                         *)
LEMMA NamedIsAmount == ASSUME NEW m \in MintName, NEW n PROVE Token(m, n) # NoAmount /\ Token("SOL", n) # NoAmount
BY DEF Token, NoAmount, MintName

LEMMA SomeIs == ASSUME NEW S, S # {}, NEW d PROVE Some(S, d) \in S
BY DEF Some

LEMMA MappedImplicit ==
  ASSUME NEW k, NEW tx \in HeliusRecord, tx.type = "TRANSFER", IsImplicitSwap(tx), NEW a \in ImplicitSwap(k, tx)
  PROVE  IsActivity(a) /\ a.tx = k /\ ReadRight(a, tx)
<1> DEFINE bare(S) == {Token(t.mint, t.amount) : t \in S}
           sol(S) == {Token("SOL", t.amount) : t \in S}
           outs == IF TokenOut(tx) # {} THEN bare(TokenOut(tx)) ELSE sol(SolOut(tx))
           ins == IF TokenIn(tx) # {} THEN bare(TokenIn(tx)) ELSE sol(SolIn(tx))
<1>1. /\ IsActivity(a) /\ a.tx = k /\ a.type = "SWAP"
      /\ a.tokenIn = Some(outs, NoAmount) /\ a.tokenOut = Some(ins, NoAmount)
  BY DEF ImplicitSwap, Activity, IsActivity
<1>2. TokenOut(tx) # {} \/ SolOut(tx) # {}
  BY DEF IsImplicitSwap
<1>3. TokenIn(tx) # {} \/ SolIn(tx) # {}
  BY DEF IsImplicitSwap
<1>4. outs # {} /\ NoAmount \notin outs
  <2>1. CASE TokenOut(tx) # {}
    BY <2>1, TokenSides, NamedIsAmount
  <2>2. CASE TokenOut(tx) = {}
    BY <1>2, <2>2 DEF Token, NoAmount
  <2> QED BY <2>1, <2>2
<1>5. ins # {} /\ NoAmount \notin ins
  <2>1. CASE TokenIn(tx) # {}
    BY <2>1, TokenSides, NamedIsAmount
  <2>2. CASE TokenIn(tx) = {}
    BY <1>3, <2>2 DEF Token, NoAmount
  <2> QED BY <2>1, <2>2
<1> HIDE DEF outs, ins
<1>6. NoAmount # a.tokenIn /\ NoAmount # a.tokenOut
  BY <1>1, <1>4, <1>5, SomeIs
<1>7. HasLeft(tx)
  <2>1. CASE TokenOut(tx) # {}
    BY <2>1 DEF HasLeft
  <2>2. CASE SolOut(tx) # {}
    <3>1. PICK t : t \in SolOut(tx)
      BY <2>2
    <3>2. t \in Leading(tx.natives, LAMBDA x : Sent(x) /\ x.amount >= Dust) /\ tx.natives \in HeliusTransfers
      BY <3>1 DEF SolOut, HeliusRecord
    <3>3. t \in Range(tx.natives) /\ Sent(t)
      BY <3>2, LeadingSolOut
    <3> QED BY <3>3 DEF HasLeft
  <2> QED BY <1>2, <2>1, <2>2
<1> QED BY <1>1, <1>6, <1>7 DEF ReadRight

LEMMA MappedTransfer ==
  ASSUME NEW k, NEW tx \in HeliusRecord, tx.type = "TRANSFER", NEW a \in Transfer(k, tx)
  PROVE  IsActivity(a) /\ a.tx = k /\ ReadRight(a, tx)
<1> DEFINE own == Leading(tx.tokens, Involved)
           any == Leading(tx.tokens, LAMBDA x : TRUE)
           tokens == IF own # {} THEN own ELSE any
           native == Leading(tx.natives, Involved)
<1>0. tx.tokens \in HeliusTransfers /\ tx.natives \in HeliusTransfers
  BY DEF HeliusRecord
<1>1. PICK t \in (IF tokens = {} THEN native ELSE tokens) :
        a = [Activity(k, tx) EXCEPT
               !.type = IF Received(t) THEN "TRANSFER_IN" ELSE "TRANSFER_OUT",
               !.from = t.from, !.to = t.to,
               !.token = Token(IF tokens = {} THEN "SOL" ELSE t.mint, t.amount)]
  BY DEF Transfer
<1>2. /\ IsActivity(a) /\ a.tx = k /\ a.from = t.from /\ a.to = t.to
      /\ a.type = IF Received(t) THEN "TRANSFER_IN" ELSE "TRANSFER_OUT"
  <2> HIDE DEF tokens, native
  <2> QED BY <1>1 DEF Activity, IsActivity
<1>3. a.type = "TRANSFER_IN" => a.to = Owner
  BY <1>2 DEF Received
<1>4. ASSUME a.type = "TRANSFER_OUT"
      PROVE  HasLeft(tx) /\ (a.from = Owner \/ OfOthers(tx))
  <2>1. ~Received(t)
    BY <1>2, <1>4
  <2>2. CASE tokens # {} /\ own # {}
    <3>1. t \in Range(tx.tokens) /\ Sent(t)
      BY <1>0, <1>1, <2>1, <2>2, LeadingInvolved DEF Involved
    <3>2. Leading(tx.tokens, Sent) # {}
      BY <3>1 DEF Leading, Range
    <3> QED BY <1>2, <3>1, <3>2, TokenSides DEF HasLeft, Sent
  <2>3. CASE tokens # {} /\ own = {}
    <3>1. tx.tokens # <<>>
      <4>1. t \in Leading(tx.tokens, LAMBDA x : TRUE)
        BY <1>1, <2>3
      <4>2. t \in Range(tx.tokens)
        BY <1>0, <4>1, LeadingAny
      <4> QED BY <4>2 DEF Range
    <3> QED BY <2>3, <3>1 DEF OfOthers, HasLeft
  <2>4. CASE tokens = {}
    <3>1. t \in Range(tx.natives) /\ Sent(t)
      BY <1>0, <1>1, <2>1, <2>4, LeadingInvolved DEF Involved
    <3> QED BY <1>2, <3>1 DEF HasLeft, Sent
  <2> QED BY <2>2, <2>3, <2>4
<1> QED BY <1>2, <1>3, <1>4 DEF ReadRight

LEMMA MappedRight ==
  ASSUME NEW k, NEW tx \in HeliusRecord, NEW a \in MapToActivity(k, tx)
  PROVE  IsActivity(a) /\ a.tx = k /\ ReadRight(a, tx)
<1>1. CASE tx.type = "TRANSFER"
  <2>1. ~IsDexSwap(tx)
    BY <1>1 DEF IsDexSwap
  <2>2. CASE IsImplicitSwap(tx)
    <3>1. a \in ImplicitSwap(k, tx)
      BY <1>1, <2>1, <2>2 DEF MapToActivity
    <3> QED BY <1>1, <2>2, <3>1, MappedImplicit
  <2>3. CASE ~IsImplicitSwap(tx)
    <3>1. a \in Transfer(k, tx)
      BY <1>1, <2>1, <2>3 DEF MapToActivity
    <3> QED BY <1>1, <3>1, MappedTransfer
  <2> QED BY <2>2, <2>3
<1>2. CASE tx.type # "TRANSFER"
  <2>1. a \in Swap(k, tx) \cup Stake(k, tx) \cup {Activity(k, tx)}
    BY <1>2 DEF MapToActivity
  <2> QED BY <1>2, <2>1, MappedSwap
<1> QED BY <1>1, <1>2

LEMMA MappedOnce ==
  ASSUME NEW k, NEW tx
  PROVE  \A a, b \in MapToActivity(k, tx) : a = b
<1>1. \A a, b \in Swap(k, tx) : a = b
  BY Zenon DEF Swap
<1>2. \A a, b \in ImplicitSwap(k, tx) : a = b
  BY Zenon DEF ImplicitSwap
<1>3. \A a, b \in Stake(k, tx) : a = b
  BY Zenon DEF Stake
<1>4. \A a, b \in Transfer(k, tx) : a = b
  <2> DEFINE own == Leading(tx.tokens, Involved)
             any == Leading(tx.tokens, LAMBDA x : TRUE)
             native == Leading(tx.natives, Involved)
             tokens == IF own # {} THEN own ELSE any
             Shown(t) == [Activity(k, tx) EXCEPT
                            !.type = IF Received(t) THEN "TRANSFER_IN" ELSE "TRANSFER_OUT",
                            !.from = t.from, !.to = t.to,
                            !.token = Token(IF tokens = {} THEN "SOL" ELSE t.mint, t.amount)]
  <2>1. /\ \A s, t \in own : s = t
        /\ \A s, t \in any : s = t
        /\ \A s, t \in native : s = t
    BY DEF Leading
  <2>2. \A a \in Transfer(k, tx) : \E t \in IF tokens = {} THEN native ELSE tokens : a = Shown(t)
    BY DEF Transfer
  <2> HIDE DEF own, any, native, Shown
  <2> QED BY <2>1, <2>2
<1> QED BY <1>1, <1>2, <1>3, <1>4 DEF MapToActivity

(***************************************************************************)
(* The invariant                                                           *)
(***************************************************************************)
ActivityOK(a) == IsActivity(a) /\ a.tx \in DOMAIN page /\ ReadRight(a, page[a.tx])

FeedInv ==
  /\ page \in Seq(HeliusRecord)
  /\ \A i \in DOMAIN activities : ActivityOK(activities[i])
  /\ \A i \in enriching : /\ i \in DOMAIN activities
                          /\ activities[i].type = "TRANSFER_OUT" /\ activities[i].token.mint = "SOL"
  /\ IsFiniteSet(enriching) /\ Cardinality(enriching) <= MaxEnriched

LEMMA FeedInitInv == FeedInit => FeedInv
<1> SUFFICES ASSUME FeedInit PROVE FeedInv
  OBVIOUS
<1>1. page \in Seq(HeliusRecord)
  BY FeedAssumption DEF FeedInit, HeliusRecord, MintAmount, BalanceChange
<1>2. activities = <<>> /\ enriching = {}
  BY DEF FeedInit
<1>3. IsFiniteSet(enriching) /\ Cardinality(enriching) = 0 /\ MaxEnriched \in Nat
  BY <1>2, FS_EmptySet, FeedAssumption
<1> QED BY <1>1, <1>2, <1>3 DEF FeedInv

(* At most MaxEnriched have fewer than that before them.                   *)
LEMMA FewCandidates ==
  ASSUME NEW n \in Nat, NEW some \in SUBSET (1..n)
  PROVE  LET first == {i \in some : Cardinality({j \in some : j < i}) < MaxEnriched}
         IN  IsFiniteSet(first) /\ Cardinality(first) <= MaxEnriched
<1> DEFINE Before(i) == {j \in some : j < i}
           first == {i \in some : Cardinality(Before(i)) < MaxEnriched}
           ranks == 0..(MaxEnriched - 1)
           rank == [i \in first |-> Cardinality(Before(i))]
<1>0. MaxEnriched \in Nat
  BY FeedAssumption
<1>1. IsFiniteSet(some)
  <2>1. IsFiniteSet(1..n)
    BY FS_Interval
  <2> QED BY <2>1, FS_Subset
<1>2. \A i \in some : IsFiniteSet(Before(i)) /\ Cardinality(Before(i)) \in Nat
  BY <1>1, FS_Subset, FS_CardinalityType
<1>3. ASSUME NEW i \in some, NEW j \in some, i < j
      PROVE  Cardinality(Before(i)) # Cardinality(Before(j))
  <2>1. Before(i) \subseteq Before(j) /\ i \in Before(j) /\ i \notin Before(i)
    <3>1. \A x \in some : x \in Int
      OBVIOUS
    <3>2. \A x \in some : x < i => x < j
      BY <1>3, <3>1
    <3>3. ~(i < i)
      BY <3>1
    <3> QED BY <1>3, <3>2, <3>3
  <2> HIDE DEF Before
  <2>2. Before(i) # Before(j)
    BY <2>1
  <2> QED BY <1>2, <2>1, <2>2, FS_Subset
<1>4. rank \in Injection(first, ranks)
  <2>1. \A i \in first : Cardinality(Before(i)) \in ranks
    BY <1>0, <1>2
  <2>2. ASSUME NEW i \in first, NEW j \in first, Cardinality(Before(i)) = Cardinality(Before(j))
        PROVE  i = j
    <3>1. i \in some /\ j \in some /\ (i < j \/ j < i \/ i = j)
      OBVIOUS
    <3> HIDE DEF Before
    <3> QED BY <1>3, <2>2, <3>1
  <2> HIDE DEF Before, ranks
  <2> QED BY <2>1, <2>2 DEF Injection, IsInjective
<1>5. IsFiniteSet(ranks) /\ Cardinality(ranks) = MaxEnriched
  BY <1>0, FS_Interval
<1> HIDE DEF rank, ranks, first
<1>6. IsFiniteSet(first) /\ Cardinality(first) <= MaxEnriched
  BY <1>4, <1>5, FS_Injection
<1> QED BY <1>6 DEF first

LEMMA MapKeeps == FeedInv /\ Map => FeedInv'
<1> SUFFICES ASSUME FeedInv, Map PROVE FeedInv'
  OBVIOUS
<1> DEFINE E == UNION {MapToActivity(k, page[k]) : k \in DOMAIN page}
           parts == [k \in DOMAIN page |-> SetToSeq(MapToActivity(k, page[k]))]
<1>1. page \in Seq(HeliusRecord) /\ UNCHANGED page /\ activities' = FlattenSeq(parts) /\ enriching' = Candidates(activities')
  BY DEF FeedInv, Map
<1>2. parts \in Seq(Seq(E))
  <2>1. ASSUME NEW k \in DOMAIN page PROVE parts[k] \in Seq(E)
    <3>1. SetToSeq(MapToActivity(k, page[k])) \in Seq(MapToActivity(k, page[k]))
      BY MappedOnce, SingleSeq
    <3>2. MapToActivity(k, page[k]) \subseteq E
      OBVIOUS
    <3> HIDE DEF E
    <3> QED BY <3>1, <3>2
  <2>2. DOMAIN page = 1..Len(page) /\ Len(page) \in Nat
    BY <1>1
  <2> HIDE DEF E
  <2>3. parts = [k \in DOMAIN page |-> parts[k]]
    OBVIOUS
  <2> HIDE DEF parts
  <2>4. parts \in [1..Len(page) -> Seq(E)]
    BY <2>1, <2>2, <2>3
  <2> QED BY <2>2, <2>4
<1> HIDE DEF parts
<1>3. activities' \in Seq(E)
  <2> HIDE DEF E
  <2> QED BY <1>1, <1>2, FlattenIs
<1>4. ASSUME NEW i \in DOMAIN activities' PROVE ActivityOK(activities[i])'
  <2>1. activities'[i] \in E
    <3> HIDE DEF E
    <3> QED BY <1>3
  <2>2. PICK k \in DOMAIN page : activities'[i] \in MapToActivity(k, page[k])
    BY <2>1
  <2>3. page[k] \in HeliusRecord
    BY <1>1
  <2>4. IsActivity(activities'[i]) /\ activities'[i].tx = k /\ ReadRight(activities'[i], page[k])
    BY <2>2, <2>3, MappedRight
  <2> QED BY <1>1, <2>4 DEF ActivityOK
<1>5. /\ \A i \in enriching' : /\ i \in DOMAIN activities'
                               /\ activities'[i].type = "TRANSFER_OUT" /\ activities'[i].token.mint = "SOL"
      /\ IsFiniteSet(enriching') /\ Cardinality(enriching') <= MaxEnriched
  <2> DEFINE some == {i \in DOMAIN activities' : /\ activities'[i].type = "TRANSFER_OUT"
                                                 /\ activities'[i].token.mint = "SOL"
                                                 /\ activities'[i].from # "none"}
  <2>1. enriching' = {i \in some : Cardinality({j \in some : j < i}) < MaxEnriched}
    BY <1>1 DEF Candidates
  <2>2. Len(activities') \in Nat /\ DOMAIN activities' = 1..Len(activities')
    <3> HIDE DEF E
    <3> QED BY <1>3
  <2>3. some \in SUBSET (1..Len(activities'))
    BY <2>2
  <2>4. \A i \in some : /\ i \in DOMAIN activities'
                        /\ activities'[i].type = "TRANSFER_OUT" /\ activities'[i].token.mint = "SOL"
    OBVIOUS
  <2> HIDE DEF some
  <2>5. PICK n \in Nat : n = Len(activities')
    BY <2>2
  <2>6. IsFiniteSet(enriching') /\ Cardinality(enriching') <= MaxEnriched
    BY <2>1, <2>3, <2>5, FewCandidates, Zenon
  <2> QED BY <2>1, <2>4, <2>6
<1> QED BY <1>1, <1>4, <1>5 DEF FeedInv

(* A transfer that turns out to be a swap.                                 *)
AsSwap(a, gained) ==
  [a EXCEPT !.type = "SWAP", !.tokenIn = a.token, !.tokenOut = gained,
            !.token = NoAmount, !.from = "none", !.to = "none"]

LEMMA AsSwapFields ==
  ASSUME NEW a, IsActivity(a), NEW gained
  PROVE  LET b == AsSwap(a, gained)
         IN  IsActivity(b) /\ b.tx = a.tx /\ b.type = "SWAP" /\ b.tokenIn = a.token /\ b.tokenOut = gained
<1>1. PICK x, y, z, u, v, from, to :
        a = [tx |-> x, type |-> y, tokenIn |-> z, tokenOut |-> u, token |-> v, from |-> from, to |-> to]
  BY DEF IsActivity
<1>2. a.tx = x /\ a.token = v
  BY <1>1
<1>3. PICK b : b = [a EXCEPT !.type = "SWAP", !.tokenIn = a.token, !.tokenOut = gained,
                             !.token = NoAmount, !.from = "none", !.to = "none"]
  OBVIOUS
<1>4. b = [tx |-> x, type |-> "SWAP", tokenIn |-> v, tokenOut |-> gained, token |-> NoAmount,
           from |-> "none", to |-> "none"]
  BY <1>1, <1>2, <1>3
<1>5. b = AsSwap(a, gained)
  BY <1>3 DEF AsSwap
<1>6. IsActivity(b) /\ b.tx = x /\ b.type = "SWAP" /\ b.tokenIn = v /\ b.tokenOut = gained
  BY <1>4 DEF IsActivity
<1> QED BY <1>2, <1>5, <1>6

LEMMA EnrichKeeps == ASSUME NEW i \in enriching PROVE FeedInv /\ Enrich(i) => FeedInv'
<1> SUFFICES ASSUME FeedInv, Enrich(i) PROVE FeedInv'
  OBVIOUS
<1>1. PICK gained \in Details :
        activities' = IF gained = NoAmount THEN activities
                      ELSE [activities EXCEPT ![i] = AsSwap(activities[i], gained)]
  BY DEF Enrich, AsSwap
<1>2. UNCHANGED page /\ enriching' = enriching \ {i}
  BY DEF Enrich
<1>3. PICK a : a = activities[i]
  OBVIOUS
<1>4. i \in DOMAIN activities /\ a.type = "TRANSFER_OUT" /\ a.token.mint = "SOL" /\ ActivityOK(a)
  BY <1>3 DEF FeedInv
<1>5. IsFiniteSet(enriching') /\ Cardinality(enriching') <= MaxEnriched
  <2>1. /\ IsFiniteSet(enriching') /\ Cardinality(enriching') <= Cardinality(enriching)
        /\ Cardinality(enriching) \in Nat /\ Cardinality(enriching') \in Nat
    BY <1>2, FS_Subset, FS_CardinalityType DEF FeedInv
  <2> QED BY <2>1, FeedAssumption DEF FeedInv
<1>6. CASE gained = NoAmount
  BY <1>1, <1>2, <1>5, <1>6 DEF FeedInv, ActivityOK
<1>7. CASE gained # NoAmount
  <2>1. PICK b : b = AsSwap(a, gained)
    OBVIOUS
  <2>2. IsActivity(a)
    BY <1>4 DEF ActivityOK
  <2>3. IsActivity(b) /\ b.tx = a.tx /\ b.type = "SWAP" /\ b.tokenIn = a.token /\ b.tokenOut = gained
    BY <2>1, <2>2, AsSwapFields
  <2>4. /\ DOMAIN activities' = DOMAIN activities /\ activities'[i] = b
        /\ \A j \in DOMAIN activities : j # i => activities'[j] = activities[j]
    BY <1>1, <1>3, <1>4, <1>7, <2>1
  <2>5. NoAmount # b.tokenIn
    BY <1>4, <2>3 DEF NoAmount
  <2>6. ActivityOK(b)
    BY <1>4, <1>7, <2>3, <2>5 DEF ActivityOK, ReadRight
  <2>7. ActivityOK(b)'
    BY <1>2, <2>6 DEF ActivityOK
  <2>8. \A j \in DOMAIN activities : ActivityOK(activities[j])'
    BY <1>2, <2>4, <2>7 DEF FeedInv, ActivityOK
  <2> QED BY <1>2, <1>5, <2>4, <2>8 DEF FeedInv
<1> QED BY <1>6, <1>7

LEMMA FeedStepInv == FeedInv /\ [FeedStep]_feedVars => FeedInv'
<1> SUFFICES ASSUME FeedInv, [FeedStep]_feedVars PROVE FeedInv'
  OBVIOUS
<1>1. CASE Map
  BY <1>1, MapKeeps
<1>2. ASSUME NEW i \in enriching, Enrich(i) PROVE FeedInv'
  BY <1>2, EnrichKeeps
<1>3. CASE UNCHANGED feedVars
  BY <1>3 DEF FeedInv, ActivityOK, feedVars
<1> QED BY <1>1, <1>2, <1>3 DEF FeedStep

(* Each activity is read right from its transaction, and each one still to *)
(* be asked about is a transfer of SOL out.                                *)
THEOREM FeedInductive == FeedSpec => []FeedInv
BY FeedInitInv, FeedStepInv, PTL DEF FeedSpec

(* An activity is of a transaction of the page, and at most MaxEnriched of *)
(* them are asked about.                                                   *)
THEOREM FeedTypes == FeedSpec => []FeedTypeOK
<1>1. FeedInv => FeedTypeOK
  BY DEF FeedInv, FeedTypeOK, ActivityOK
<1> QED BY <1>1, FeedInductive, PTL

(* A transfer shown as a swap has two sides and something left the wallet, *)
(* an incoming one did arrive and an outgoing one did leave, for any page, *)
(* answers and limit.                                                      *)
THEOREM TransfersAreAlwaysReadRight == FeedSpec => []TransfersReadRight
<1>1. FeedInv => TransfersReadRight
  BY DEF FeedInv, ActivityOK, TransfersReadRight, ReadRight, HasLeft, OfOthers
<1> QED BY <1>1, FeedInductive, PTL

(***************************************************************************)
(* PortfolioView.  The listings agree and are worth what the chain held,   *)
(* for any accounts, prices and balances.                                  *)
(***************************************************************************)

(* SetToSeq lists a finite set, each element once.                         *)
LEMMA Listing ==
  ASSUME NEW S, IsFiniteSet(S)
  PROVE  /\ SetToSeq(S) \in [1..Cardinality(S) -> S]
         /\ Cardinality(S) \in Nat
         /\ \A i, j \in 1..Cardinality(S) : SetToSeq(S)[i] = SetToSeq(S)[j] => i = j
         /\ \A x \in S : \E i \in 1..Cardinality(S) : SetToSeq(S)[i] = x
<1> DEFINE n == Cardinality(S)
           P(f) == f \in [1..n -> S] /\ IsInjective(f)
<1>1. n \in Nat /\ ExistsBijection(1..n, S)
  BY FS_CardinalityType
<1>2. \E f : P(f)
  BY <1>1, Zenon DEF ExistsBijection, Bijection, Injection
<1>3. SetToSeq(S) = CHOOSE f : P(f)
  BY DEF SetToSeq
<1>4. PICK f : f = SetToSeq(S) /\ P(f)
  BY <1>2, <1>3, Zenon
<1>5. IsFiniteSet(1..n) /\ Cardinality(1..n) = n
  BY <1>1, FS_Interval
<1>6. f \in Injection(1..n, S)
  BY <1>4 DEF Injection
<1>7. f \in Surjection(1..n, S)
  BY <1>5, <1>6, FS_Injection
<1>8. \A x \in S : \E i \in 1..n : f[i] = x
  BY <1>7, Zenon DEF Surjection
<1>9. \A i, j \in 1..n : f[i] = f[j] => i = j
  BY <1>4 DEF IsInjective
<1> QED BY <1>1, <1>4, <1>8, <1>9

(***************************************************************************)
(* Items                                                                   *)
(***************************************************************************)
PlacesApart(items) == \A x, y \in items : x.at = y.at => x = y
Valued(items) == IsFiniteSet(items) /\ \A x \in items : x.value \in Nat /\ x.amount \in Nat /\ x.at \in Nat
ItemsOK(items) == Valued(items) /\ PlacesApart(items)

(* What items are sorted by is a number.                                   *)
LEMMA KeyIs == ASSUME NEW items, Valued(items), NEW x \in items, NEW by PROVE Key(x, by) \in Int
<1>1. x.value \in Int /\ x.amount \in Int
  BY DEF Valued
<1>2. (IF x.name \in DOMAIN NameRank THEN -NameRank[x.name] ELSE 0) \in Int
  BY ViewAssumption
<1>3. CASE by = "amount"
  BY <1>1, <1>3 DEF Key
<1>4. CASE by = "name"
  BY <1>2, <1>4 DEF Key
<1>5. CASE by # "amount" /\ by # "name"
  BY <1>1, <1>5 DEF Key
<1> QED BY <1>3, <1>4, <1>5

(* A sorted listing has every item.                                        *)
LEMMA SortedHasAll ==
  ASSUME NEW items, ItemsOK(items), NEW by
  PROVE  Range(SortedBy(items, by)) = items
<1> DEFINE n == Cardinality(items)
           InFront(b) == {a \in items : Ahead(a, b, by)}
           f == [b \in items |-> Cardinality(InFront(b))]
           ranks == 0..(n - 1)
<1>0. IsFiniteSet(items) /\ \A x \in items : Key(x, by) \in Int /\ x.at \in Nat
  BY KeyIs DEF ItemsOK, Valued
<1>1. n \in Nat
  BY <1>0, FS_CardinalityType
<1>2. ASSUME NEW b \in items PROVE IsFiniteSet(InFront(b)) /\ Cardinality(InFront(b)) \in ranks
  <2>1. ~Ahead(b, b, by)
    BY <1>0 DEF Ahead
  <2>2. InFront(b) \in SUBSET items /\ InFront(b) # items
    BY <2>1
  <2> HIDE DEF InFront
  <2>3. IsFiniteSet(InFront(b)) /\ Cardinality(InFront(b)) <= n /\ Cardinality(InFront(b)) # n
    BY <1>0, <2>2, FS_Subset
  <2>4. Cardinality(InFront(b)) \in Nat
    BY <2>3, FS_CardinalityType
  <2> QED BY <1>1, <2>3, <2>4
<1>3. ASSUME NEW b \in items, NEW c \in items, Ahead(b, c, by) PROVE f[b] # f[c]
  <2>1. InFront(b) \in SUBSET InFront(c)
    BY <1>0, <1>3 DEF Ahead
  <2>2. b \in InFront(c) /\ b \notin InFront(b)
    BY <1>0, <1>3 DEF Ahead
  <2> HIDE DEF InFront
  <2>3. Cardinality(InFront(b)) # Cardinality(InFront(c))
    BY <1>2, <2>1, <2>2, FS_Subset
  <2> QED BY <2>3
<1>4. ASSUME NEW b \in items, NEW c \in items, b # c PROVE Ahead(b, c, by) \/ Ahead(c, b, by)
  <2>1. b.at # c.at
    BY <1>4 DEF ItemsOK, PlacesApart
  <2> QED BY <1>0, <2>1 DEF Ahead
<1>5. f \in Injection(items, ranks)
  <2>1. f \in [items -> ranks]
    BY <1>2
  <2>2. \A b, c \in items : f[b] = f[c] => b = c
    BY <1>3, <1>4, Zenon
  <2> HIDE DEF f
  <2> QED BY <2>1, <2>2 DEF Injection, IsInjective
<1>6. IsFiniteSet(ranks) /\ Cardinality(ranks) = n
  BY <1>1, FS_Interval, SMTT(30)
<1> HIDE DEF f, ranks
<1>7. f \in Surjection(items, ranks)
  BY <1>5, <1>6, FS_Injection
<1>8. \A r \in ranks : \E b \in items : f[b] = r
  BY <1>7 DEF Surjection
<1>9. \A b, c \in items : f[b] = f[c] => b = c
  BY <1>5 DEF Injection, IsInjective
<1>10. \A b \in items : f[b] \in ranks /\ f[b] = Cardinality(InFront(b))
  BY <1>2 DEF f
<1>11. SortedBy(items, by) = [i \in 1..n |-> CHOOSE b \in items : Cardinality(InFront(b)) = i - 1]
  BY DEF SortedBy
<1> DEFINE s == SortedBy(items, by)
<1>12. DOMAIN s = 1..n
  BY <1>11
<1>13. ASSUME NEW i \in 1..n PROVE s[i] \in items /\ f[s[i]] = i - 1
  <2>1. i - 1 \in ranks
    BY <1>1 DEF ranks
  <2>2. \E b \in items : Cardinality(InFront(b)) = i - 1
    BY <1>8, <1>10, <2>1
  <2>3. s[i] = CHOOSE b \in items : Cardinality(InFront(b)) = i - 1
    BY <1>11
  <2> HIDE DEF InFront, s
  <2>4. s[i] \in items /\ Cardinality(InFront(s[i])) = i - 1
    BY <2>2, <2>3, Zenon
  <2> QED BY <1>10, <2>4
<1>14. ASSUME NEW b \in items PROVE \E i \in 1..n : s[i] = b
  <2>1. f[b] \in 0..(n - 1)
    BY <1>10 DEF ranks
  <2>2. PICK i \in 1..n : i = f[b] + 1
    BY <1>1, <2>1
  <2>3. s[i] \in items /\ f[s[i]] = f[b]
    BY <1>13, <2>1, <2>2
  <2> QED BY <1>9, <2>3
<1> HIDE DEF s
<1>15. Range(s) = {s[i] : i \in 1..n}
  BY <1>12 DEF Range
<1> QED BY <1>13, <1>14, <1>15 DEF s

ValueOf(items) == [i \in items |-> i.value]

LEMMA SumIs ==
  ASSUME NEW items, Valued(items)
  PROVE  SumOf(items) = TotalOf(ValueOf(items), items) /\ SumOf(items) \in Nat
<1>1. SumOf(items) = TotalOf(ValueOf(items), items)
  BY DEF SumOf, SumFunction, TotalOf, ValueOf
<1>2. IsFiniteSet(items) /\ \A x \in items : ValueOf(items)[x] \in Nat
  BY DEF Valued, ValueOf
<1> QED BY <1>1, <1>2, TotalNat

(* One item more.                                                          *)
LEMMA SumWithSol ==
  ASSUME NEW items, Valued(items), NEW sol, sol.value \in Nat, sol.amount \in Nat, sol.at \in Nat,
         \A x \in items : x.at # sol.at
  PROVE  SumOf(items \cup {sol}) = sol.value + SumOf(items)
<1> DEFINE all == items \cup {sol}
<1>1. IsFiniteSet(items) /\ IsFiniteSet(all) /\ sol \notin items
  BY FS_AddElement DEF Valued
<1>2. Valued(all)
  BY <1>1 DEF Valued
<1>3. \A y \in items \cup {sol} : ValueOf(all)[y] \in Int
  BY DEF ValueOf, Valued
<1>4. TotalOf(ValueOf(all), items \cup {sol}) = ValueOf(all)[sol] + TotalOf(ValueOf(all), items)
  BY <1>1, <1>3, TotalMore
<1>5. TotalOf(ValueOf(all), items) = TotalOf(ValueOf(items), items)
  <2>1. \A x \in items : ValueOf(all)[x] = ValueOf(items)[x]
    BY DEF ValueOf
  <2> QED BY <1>1, <2>1, TotalSame
<1>6. ValueOf(all)[sol] = sol.value
  BY DEF ValueOf
<1> HIDE DEF all
<1>7. SumOf(all) = TotalOf(ValueOf(all), all)
  BY <1>2, SumIs
<1>8. SumOf(items) = TotalOf(ValueOf(items), items)
  BY SumIs
<1> QED BY <1>4, <1>5, <1>6, <1>7, <1>8 DEF all

(***************************************************************************)
(* Holdings                                                                *)
(***************************************************************************)
HoldingOK(held) == IsFiniteSet(DOMAIN held) /\ \A m \in DOMAIN held : held[m] \in Nat
PricedOK(prices) == \A m \in DOMAIN prices : prices[m] \in Nat
Worths(held, prices) == [m \in DOMAIN held |-> held[m] * Price(prices, m)]
Worth(held, prices) == TotalOf(Worths(held, prices), DOMAIN held)

LEMMA WorthsNat ==
  ASSUME NEW held, HoldingOK(held), NEW prices, PricedOK(prices), NEW m \in DOMAIN held
  PROVE  held[m] * Price(prices, m) \in Nat
<1>1. PICK a \in Nat, p \in Nat : a = held[m] /\ p = Price(prices, m)
  BY DEF HoldingOK, PricedOK, Price
<1>2. a * p \in Nat
  OBVIOUS
<1> QED BY <1>1, <1>2

(* The item of a place in the list of the tokens held.                     *)
ItemAt(held, prices, order, i) == Item(order[i], held[order[i]], held[order[i]] * Price(prices, order[i]), i)

(* One item for each token held, each with a place of its own.             *)
LEMMA TokenItemsAre ==
  ASSUME NEW held, HoldingOK(held), NEW prices, PricedOK(prices)
  PROVE  /\ ItemsOK(TokenItems(held, prices))
         /\ \A x \in TokenItems(held, prices) :
              /\ x.at # 0 /\ x.at # Cardinality(DOMAIN held) + 1 /\ x.name \in DOMAIN held
              /\ x.amount = held[x.name]
         /\ SumOf(TokenItems(held, prices)) = Worth(held, prices)
<1> DEFINE D == DOMAIN held
           n == Cardinality(D)
           order == SetToSeq(D)
           it(i) == ItemAt(held, prices, order, i)
           items == TokenItems(held, prices)
<1>0. IsFiniteSet(D)
  BY DEF HoldingOK
<1>1. /\ order \in [1..n -> D] /\ n \in Nat
      /\ \A i, j \in 1..n : order[i] = order[j] => i = j
      /\ \A m \in D : \E i \in 1..n : order[i] = m
  BY <1>0, Listing
<1>2. items = {it(i) : i \in DOMAIN order}
  BY DEF TokenItems, ItemAt
<1>3. \A i \in 1..n : /\ it(i).name = order[i] /\ it(i).amount = held[order[i]]
                      /\ it(i).value = held[order[i]] * Price(prices, order[i]) /\ it(i).at = i
  BY DEF ItemAt, Item
<1>4. DOMAIN order = 1..n
  BY <1>1
<1> HIDE DEF it, items, order, n
<1>5. ASSUME NEW x \in items
      PROVE  \E i \in 1..n : x = it(i) /\ x.at = i /\ x.name = order[i] /\ x.name \in D /\ x.amount = held[x.name]
                              /\ x.value = held[x.name] * Price(prices, x.name)
  <2>1. PICK i \in 1..n : x = it(i)
    BY <1>2, <1>4
  <2>2. order[i] \in D
    BY <1>1
  <2> QED BY <1>3, <2>1, <2>2
<1>6. \A x \in items : /\ x.at \in Nat /\ x.at # 0 /\ x.at # n + 1 /\ x.name \in D /\ x.amount = held[x.name]
                       /\ x.amount \in Nat /\ x.value = Worths(held, prices)[x.name] /\ x.value \in Nat
  <2> SUFFICES ASSUME NEW x \in items
               PROVE  /\ x.at \in Nat /\ x.at # 0 /\ x.at # n + 1 /\ x.name \in D /\ x.amount = held[x.name]
                      /\ x.amount \in Nat /\ x.value = Worths(held, prices)[x.name] /\ x.value \in Nat
    OBVIOUS
  <2>1. PICK i \in 1..n : x.at = i /\ x.name \in D /\ x.amount = held[x.name]
                           /\ x.value = held[x.name] * Price(prices, x.name)
    BY <1>5
  <2>2. held[x.name] * Price(prices, x.name) \in Nat
    BY <2>1, WorthsNat
  <2>3. x.value = Worths(held, prices)[x.name]
    BY <2>1 DEF Worths
  <2>4. x.amount \in Nat
    BY <2>1 DEF HoldingOK
  <2> QED BY <1>1, <2>1, <2>2, <2>3, <2>4
<1>7. \A x, y \in items : x.name = y.name \/ x.at = y.at => x = y
  <2> SUFFICES ASSUME NEW x \in items, NEW y \in items, x.name = y.name \/ x.at = y.at PROVE x = y
    OBVIOUS
  <2>1. PICK i \in 1..n : x = it(i) /\ x.at = i /\ x.name = order[i]
    BY <1>5
  <2>2. PICK j \in 1..n : y = it(j) /\ y.at = j /\ y.name = order[j]
    BY <1>5
  <2>3. i = j
    BY <1>1, <2>1, <2>2
  <2> QED BY <2>1, <2>2, <2>3
<1>8. \A m \in D : \E x \in items : x.name = m
  BY <1>1, <1>2, <1>3, <1>4
<1> DEFINE f == [x \in items |-> x.name]
<1>9. IsFiniteSet(items)
  <2>1. f \in [items -> D] /\ \A x, y \in items : f[x] = f[y] => x = y
    BY <1>6, <1>7
  <2> HIDE DEF f
  <2>2. f \in Injection(items, D)
    BY <2>1 DEF Injection, IsInjective
  <2> QED BY <1>0, <2>2, FS_Injection
<1>10. Valued(items) /\ PlacesApart(items)
  BY <1>6, <1>7, <1>9 DEF Valued, PlacesApart
<1>11. SumOf(items) = TotalOf(ValueOf(items), items)
  BY <1>10, SumIs
<1>12. TotalOf(ValueOf(items), items) = TotalOf(Worths(held, prices), D)
  <2>1. \A x \in items : f[x] \in D /\ ValueOf(items)[x] = Worths(held, prices)[f[x]]
    BY <1>6 DEF ValueOf
  <2>2. \A x, y \in items : f[x] = f[y] => x = y
    BY <1>7
  <2>3. \A m \in D : Worths(held, prices)[m] \in Nat
    BY WorthsNat DEF Worths
  <2>4. \A m \in D : \E x \in items : f[x] = m
    BY <1>8
  <2>5. \A m \in D : Worths(held, prices)[m] \in Nat /\ \E x \in items : f[x] = m
    BY <2>3, <2>4, Zenon
  <2> HIDE DEF f, D
  <2> QED BY <1>0, <1>9, <2>1, <2>2, <2>5, TotalBijection
<1> QED BY <1>6, <1>10, <1>11, <1>12 DEF ItemsOK, items, D, Worth, n

AccountsOK(accs) == accs \in Seq(Range(accs)) /\ \A a \in Range(accs) : a.amount \in Nat
OfMint(accs, m) == {i \in DOMAIN accs : accs[i].mint = m}

LEMMA AmountsAre ==
  ASSUME NEW accs, AccountsOK(accs)
  PROVE  IsFiniteSet(DOMAIN accs) /\ \A i \in DOMAIN accs : accs[i].amount \in Nat
<1>1. Len(accs) \in Nat /\ DOMAIN accs = 1..Len(accs)
  BY DEF AccountsOK
<1>2. \A i \in DOMAIN accs : accs[i].amount \in Nat
  BY DEF AccountsOK, Range
<1> QED BY <1>1, <1>2, FS_Interval

(* What is held of a mint is the sum of all its accounts, whether the      *)
(* empty ones are counted or not.                                          *)
LEMMA AggregatedIs ==
  ASSUME NEW accs, AccountsOK(accs), NEW zero \in BOOLEAN
  PROVE  /\ HoldingOK(Aggregated(accs, zero))
         /\ DOMAIN Aggregated(accs, zero) = {accs[i].mint : i \in Counted(accs, zero)}
         /\ \A m \in DOMAIN Aggregated(accs, zero) : Aggregated(accs, zero)[m] = SumOver(accs, OfMint(accs, m))
<1> DEFINE kept == Counted(accs, zero)
           t == [i \in DOMAIN accs |-> accs[i].amount]
           mine(m) == {i \in kept : accs[i].mint = m}
           held == Aggregated(accs, zero)
<1>1. IsFiniteSet(DOMAIN accs) /\ \A i \in DOMAIN accs : accs[i].amount \in Nat
  BY AmountsAre
<1>2. kept \in SUBSET (DOMAIN accs) /\ \A i \in DOMAIN accs \ kept : accs[i].amount = 0
  BY <1>1 DEF Counted
<1>3. DOMAIN held = {accs[i].mint : i \in kept} /\ \A m \in DOMAIN held : held[m] = SumOver(accs, mine(m))
  BY DEF Aggregated
<1> HIDE DEF kept, held
<1>4. ASSUME NEW m
      PROVE  /\ SumOver(accs, mine(m)) = SumOver(accs, OfMint(accs, m))
             /\ SumOver(accs, OfMint(accs, m)) \in Nat
  <2> DEFINE S == OfMint(accs, m)
             R == mine(m)
  <2>1. S \in SUBSET DOMAIN accs /\ R \in SUBSET S /\ \A i \in S \ R : i \in DOMAIN accs \ kept
    BY <1>2 DEF OfMint
  <2>2. IsFiniteSet(S) /\ (\A i \in S : t[i] \in Nat) /\ \A i \in S \ R : t[i] = 0
    BY <1>1, <1>2, <2>1, FS_Subset
  <2>3. SumOver(accs, R) = TotalOf(t, R) /\ SumOver(accs, S) = TotalOf(t, S)
    BY DEF SumOver, TotalOf
  <2> HIDE DEF S, R, t
  <2>4. TotalOf(t, S) = TotalOf(t, R)
    <3>1. \A i \in S : t[i] \in Int
      BY <2>2
    <3> QED BY <2>1, <2>2, <3>1, TotalZeros
  <2>5. TotalOf(t, S) \in Nat
    BY <2>2, TotalNat
  <2> QED BY <2>3, <2>4, <2>5 DEF S, R
<1>5. IsFiniteSet(DOMAIN held)
  <2>1. IsFiniteSet(kept)
    BY <1>1, <1>2, FS_Subset
  <2> DEFINE g == [i \in kept |-> accs[i].mint]
  <2>2. g \in Surjection(kept, DOMAIN held)
    BY <1>3 DEF Surjection
  <2> HIDE DEF g
  <2> QED BY <2>1, <2>2, FS_Surjection
<1>6. \A m \in DOMAIN held : held[m] = SumOver(accs, OfMint(accs, m)) /\ held[m] \in Nat
  <2> HIDE DEF mine
  <2> QED BY <1>3, <1>4
<1> QED BY <1>3, <1>5, <1>6 DEF HoldingOK, held, kept

(* Empty accounts are worth nothing.                                       *)
LEMMA WorthIsSame ==
  ASSUME NEW accs, AccountsOK(accs), NEW zero \in BOOLEAN, NEW prices, PricedOK(prices)
  PROVE  Worth(Aggregated(accs, zero), prices) = Worth(Aggregated(accs, FALSE), prices)
<1>1. CASE zero = FALSE
  BY <1>1
<1>2. CASE zero = TRUE
  <2> DEFINE all == Aggregated(accs, TRUE)
             some == Aggregated(accs, FALSE)
             D == DOMAIN all
             E == DOMAIN some
             t == Worths(all, prices)
             u == Worths(some, prices)
  <2>1. /\ HoldingOK(all) /\ HoldingOK(some)
        /\ \A m \in D : all[m] = SumOver(accs, OfMint(accs, m))
        /\ \A m \in E : some[m] = SumOver(accs, OfMint(accs, m))
        /\ D = {accs[i].mint : i \in Counted(accs, TRUE)} /\ E = {accs[i].mint : i \in Counted(accs, FALSE)}
    BY AggregatedIs
  <2>2. IsFiniteSet(DOMAIN accs) /\ \A i \in DOMAIN accs : accs[i].amount \in Nat
    BY AmountsAre
  <2>3. E \in SUBSET D
    BY <2>1 DEF Counted
  <2>4. ASSUME NEW m \in D \ E PROVE all[m] = 0
    <3>1. \A i \in OfMint(accs, m) : accs[i].amount = 0
      <4> SUFFICES ASSUME NEW i \in OfMint(accs, m), accs[i].amount # 0 PROVE FALSE
        OBVIOUS
      <4>1. i \in DOMAIN accs /\ accs[i].mint = m /\ accs[i].amount > 0
        BY <2>2 DEF OfMint
      <4>2. i \in Counted(accs, FALSE)
        BY <4>1 DEF Counted
      <4> HIDE DEF D, E
      <4> QED BY <2>1, <4>1, <4>2
    <3> DEFINE S == OfMint(accs, m)
               a == [i \in DOMAIN accs |-> accs[i].amount]
    <3>2. S \in SUBSET DOMAIN accs /\ IsFiniteSet(S)
      BY <2>2, FS_Subset DEF OfMint
    <3>3. {} \in SUBSET S /\ \A i \in S : a[i] \in Int /\ a[i] = 0
      BY <2>2, <3>1, <3>2
    <3>4. SumOver(accs, S) = TotalOf(a, S)
      BY DEF SumOver, TotalOf
    <3> HIDE DEF S, a
    <3>5. TotalOf(a, S) = TotalOf(a, {})
      BY <3>2, <3>3, TotalZeros
    <3> QED BY <2>1, <3>4, <3>5, TotalNone DEF S
  <2>5. \A m \in D : t[m] \in Nat
    BY <2>1, WorthsNat DEF Worths
  <2>6. \A m \in E : t[m] = u[m]
    BY <2>1, <2>3 DEF Worths
  <2>7. \A m \in D \ E : t[m] = 0
    <3> SUFFICES ASSUME NEW m \in D \ E PROVE t[m] = 0
      OBVIOUS
    <3>1. all[m] = 0
      BY <2>4
    <3>2. t[m] = all[m] * Price(prices, m)
      BY DEF Worths
    <3>3. PICK p \in Nat : p = Price(prices, m)
      BY DEF PricedOK, Price
    <3>4. 0 * p = 0
      OBVIOUS
    <3> QED BY <3>1, <3>2, <3>3, <3>4
  <2>8. Worth(all, prices) = TotalOf(t, D) /\ Worth(some, prices) = TotalOf(u, E)
    BY DEF Worth
  <2>9. IsFiniteSet(D) /\ IsFiniteSet(E)
    BY <2>1 DEF HoldingOK
  <2> HIDE DEF t, u, D, E, all, some
  <2>10. TotalOf(t, D) = TotalOf(t, E)
    <3>1. \A m \in D : t[m] \in Int
      BY <2>5
    <3> QED BY <2>3, <2>7, <2>9, <3>1, TotalZeros
  <2>11. TotalOf(t, E) = TotalOf(u, E)
    BY <2>6, <2>9, TotalSame
  <2> QED BY <1>2, <2>8, <2>10, <2>11 DEF all, some
<1> QED BY <1>1, <1>2

(* The worth of the holdings is that of the accounts, each at its price.   *)
LEMMA WorthByAccount ==
  ASSUME NEW accs, AccountsOK(accs), NEW prices, PricedOK(prices)
  PROVE  Worth(Aggregated(accs, FALSE), prices)
           = SumFunction([i \in DOMAIN accs |-> accs[i].amount * Price(prices, accs[i].mint)])
<1> DEFINE I == DOMAIN accs
           a == [i \in I |-> accs[i].amount]
           w == [i \in I |-> accs[i].amount * Price(prices, accs[i].mint)]
           mintOf == [i \in I |-> accs[i].mint]
           all == Aggregated(accs, TRUE)
           D == DOMAIN all
           u == Worths(all, prices)
<1>1. IsFiniteSet(I) /\ \A i \in I : accs[i].amount \in Nat
  BY AmountsAre
<1>2. /\ HoldingOK(all) /\ D = {accs[i].mint : i \in I}
      /\ \A m \in D : all[m] = SumOver(accs, OfMint(accs, m))
  <2>1. Counted(accs, TRUE) = I
    BY DEF Counted
  <2> QED BY <2>1, AggregatedIs
<1>3. \A m : Price(prices, m) \in Nat
  BY DEF PricedOK, Price
<1>4. \A i \in I : w[i] \in Int /\ mintOf[i] \in D
  <2> SUFFICES ASSUME NEW i \in I PROVE w[i] \in Int /\ mintOf[i] \in D
    OBVIOUS
  <2>1. PICK x \in Nat, p \in Nat : x = accs[i].amount /\ p = Price(prices, accs[i].mint)
    BY <1>1, <1>3
  <2>2. x * p \in Int
    OBVIOUS
  <2>3. mintOf[i] = accs[i].mint /\ accs[i].mint \in {accs[j].mint : j \in I}
    OBVIOUS
  <2> QED BY <1>2, <2>1, <2>2, <2>3
<1>5. ASSUME NEW m \in D PROVE u[m] = TotalOf(w, {i \in I : mintOf[i] = m})
  <2> DEFINE S == {i \in I : mintOf[i] = m}
  <2>1. S = OfMint(accs, m) /\ S \in SUBSET I /\ IsFiniteSet(S)
    BY <1>1, FS_Subset DEF OfMint
  <2>2. PICK p \in Nat : p = Price(prices, m)
    BY <1>3
  <2>3. \A i \in S : a[i] \in Int /\ w[i] = a[i] * p
    BY <1>1, <2>2
  <2>4. SumOver(accs, OfMint(accs, m)) = TotalOf(a, OfMint(accs, m))
    BY DEF SumOver, TotalOf
  <2>5. u[m] = all[m] * p /\ all[m] = SumOver(accs, OfMint(accs, m))
    BY <1>2, <2>2 DEF Worths
  <2> HIDE DEF S, a, w, u, all, D
  <2>6. TotalOf(w, S) = TotalOf(a, S) * p
    BY <2>1, <2>2, <2>3, TotalTimes
  <2> QED BY <2>1, <2>4, <2>5, <2>6 DEF S
<1>6. IsFiniteSet(D)
  BY <1>2 DEF HoldingOK
<1>7. SumFunction([i \in DOMAIN accs |-> accs[i].amount * Price(prices, accs[i].mint)]) = TotalOf(w, I)
  <2>1. DOMAIN w = I
    OBVIOUS
  <2> QED BY <2>1 DEF SumFunction, TotalOf
<1>8. Worth(all, prices) = TotalOf(u, D) /\ Worth(Aggregated(accs, FALSE), prices) = Worth(all, prices)
  <2>1. Worth(Aggregated(accs, TRUE), prices) = Worth(Aggregated(accs, FALSE), prices)
    BY WorthIsSame
  <2> QED BY <2>1 DEF Worth
<1> HIDE DEF I, w, mintOf, all, D, u
<1>9. TotalOf(u, D) = TotalOf(w, I)
  <2>1. \A m \in D : u[m] = TotalOf(w, {i \in I : mintOf[i] = m})
    BY <1>5
  <2>2. \A i \in I : w[i] \in Int /\ mintOf[i] \in D
    BY <1>4
  <2>3. IsFiniteSet(I)
    BY <1>1
  <2>4. Grouped(w, u, mintOf, I, D)
    BY <1>6, <2>1, <2>2, <2>3, Zenon DEF Grouped
  <2> QED BY <2>4, TotalGroups
<1> QED BY <1>7, <1>8, <1>9

(***************************************************************************)
(* The listings                                                            *)
(***************************************************************************)
(* SOL beside the tokens, at a place of its own.                           *)
LEMMA WithSol ==
  ASSUME NEW items, ItemsOK(items), NEW n \in Nat, NEW at \in Nat, SolPrice \in Nat,
         \A x \in items : x.at # at
  PROVE  LET solItem == Item("SOL", n, n * SolPrice, at)
         IN  /\ solItem.name = "SOL" /\ n * SolPrice \in Nat /\ (n = 0 => n * SolPrice = 0)
             /\ ItemsOK(items \cup {solItem})
             /\ SumOf(items \cup {solItem}) = n * SolPrice + SumOf(items)
<1> DEFINE solItem == Item("SOL", n, n * SolPrice, at)
<1>1. PICK v \in Nat : v = n * SolPrice /\ (n = 0 => v = 0)
  <2>1. PICK p \in Nat : p = SolPrice
    OBVIOUS
  <2>2. n * p \in Nat /\ (n = 0 => n * p = 0)
    OBVIOUS
  <2> QED BY <2>1, <2>2
<1>2. solItem.name = "SOL" /\ solItem.value = v /\ solItem.at = at /\ solItem.amount = n
  BY <1>1 DEF Item
<1> HIDE DEF solItem
<1>3. Valued(items) /\ PlacesApart(items)
  BY DEF ItemsOK
<1>4. SumOf(items \cup {solItem}) = v + SumOf(items)
  BY <1>2, <1>3, SumWithSol
<1>5. ItemsOK(items \cup {solItem})
  <2>1. IsFiniteSet(items \cup {solItem})
    BY <1>3, FS_AddElement DEF Valued
  <2>2. Valued(items \cup {solItem})
    BY <1>2, <1>3, <2>1 DEF Valued
  <2>3. PlacesApart(items \cup {solItem})
    BY <1>2, <1>3 DEF PlacesApart
  <2> QED BY <2>2, <2>3 DEF ItemsOK
<1> QED BY <1>1, <1>2, <1>4, <1>5 DEF solItem

Total(accs, n, prices) == n * SolPrice + Worth(Aggregated(accs, FALSE), prices)

(* The tokens held, empty ones counted or not.                             *)
LEMMA TokensAre ==
  ASSUME NEW accs, AccountsOK(accs), NEW prices, PricedOK(prices), NEW zero \in BOOLEAN
  PROVE  LET tokens == Aggregated(accs, zero)
             items == TokenItems(tokens, prices)
         IN  /\ ItemsOK(items) /\ SumOf(items) = Worth(Aggregated(accs, FALSE), prices) /\ SumOf(items) \in Nat
             /\ Cardinality(DOMAIN tokens) + 1 \in Nat
             /\ \A x \in items : /\ x.at # 0 /\ x.at # Cardinality(DOMAIN tokens) + 1
                                 /\ x.amount = SumOver(accs, OfMint(accs, x.name))
<1> DEFINE tokens == Aggregated(accs, zero)
           items == TokenItems(tokens, prices)
<1>1. HoldingOK(tokens) /\ \A m \in DOMAIN tokens : tokens[m] = SumOver(accs, OfMint(accs, m))
  BY AggregatedIs
<1>2. Worth(tokens, prices) = Worth(Aggregated(accs, FALSE), prices)
  BY WorthIsSame
<1> HIDE DEF tokens
<1>3. /\ ItemsOK(items) /\ SumOf(items) = Worth(tokens, prices)
      /\ \A x \in items : /\ x.at # 0 /\ x.at # Cardinality(DOMAIN tokens) + 1 /\ x.name \in DOMAIN tokens
                          /\ x.amount = tokens[x.name]
  BY <1>1, TokenItemsAre
<1>4. Cardinality(DOMAIN tokens) \in Nat
  BY <1>1, FS_CardinalityType DEF HoldingOK
<1> HIDE DEF items
<1>5. SumOf(items) \in Nat
  BY <1>3, SumIs DEF ItemsOK
<1>6. /\ ItemsOK(items) /\ SumOf(items) = Worth(Aggregated(accs, FALSE), prices) /\ SumOf(items) \in Nat
      /\ Cardinality(DOMAIN tokens) + 1 \in Nat
      /\ \A x \in items : /\ x.at # 0 /\ x.at # Cardinality(DOMAIN tokens) + 1
                          /\ x.amount = SumOver(accs, OfMint(accs, x.name))
  <2>1. ASSUME NEW x \in items PROVE x.amount = SumOver(accs, OfMint(accs, x.name))
    <3>1. PICK m \in DOMAIN tokens : m = x.name /\ x.amount = tokens[m]
      BY <1>3
    <3>2. tokens[m] = SumOver(accs, OfMint(accs, m))
      BY <1>1
    <3> QED BY <3>1, <3>2
  <2>2. Cardinality(DOMAIN tokens) + 1 \in Nat
    BY <1>4
  <2> QED BY <1>2, <1>3, <1>5, <2>1, <2>2, Zenon
<1> QED BY <1>6, Zenon DEF items, tokens

LEMMA OverallIs ==
  ASSUME NEW accs, AccountsOK(accs), NEW n \in Nat, NEW prices, PricedOK(prices), SolPrice \in Nat
  PROVE  /\ Overall(accs, n, prices).total = Total(accs, n, prices)
         /\ SumOf(Range(Overall(accs, n, prices).allocation)) = Total(accs, n, prices)
         /\ OverallByAddress(accs, n, prices).total = Total(accs, n, prices)
         /\ SumOf(Range(OverallByAddress(accs, n, prices).allocation)) = Total(accs, n, prices)
<1> DEFINE tokens == Aggregated(accs, FALSE)
           items == TokenItems(tokens, prices)
           end == Cardinality(DOMAIN tokens) + 1
           behind == Item("SOL", n, n * SolPrice, end)
           ahead == Item("SOL", n, n * SolPrice, 0)
           shown == items \cup (IF n * SolPrice > 0 THEN {behind} ELSE {})
           worth == Worth(tokens, prices)
<1>1. /\ ItemsOK(items) /\ SumOf(items) = worth /\ SumOf(items) \in Nat /\ end \in Nat
      /\ \A x \in items : x.at # 0 /\ x.at # end
  BY TokensAre
<1>2. /\ Overall(accs, n, prices).total = n * SolPrice + SumOf(items)
      /\ Overall(accs, n, prices).allocation = SortedBy(shown, "value_usd")
      /\ OverallByAddress(accs, n, prices).total = n * SolPrice + SumOf(items)
      /\ OverallByAddress(accs, n, prices).allocation = SortedBy(items \cup {ahead}, "value_usd")
  BY DEF Overall, OverallByAddress, ByValue, SolLast, SolFirst
<1>3. Total(accs, n, prices) = n * SolPrice + worth
  BY DEF Total
<1> HIDE DEF items, tokens, worth, end
<1>4. /\ n * SolPrice \in Nat /\ ItemsOK(items \cup {behind}) /\ SumOf(items \cup {behind}) = n * SolPrice + SumOf(items)
      /\ ItemsOK(items \cup {ahead}) /\ SumOf(items \cup {ahead}) = n * SolPrice + SumOf(items)
  <2>1. /\ n * SolPrice \in Nat /\ ItemsOK(items \cup {behind})
        /\ SumOf(items \cup {behind}) = n * SolPrice + SumOf(items)
    BY <1>1, WithSol
  <2>2. ItemsOK(items \cup {ahead}) /\ SumOf(items \cup {ahead}) = n * SolPrice + SumOf(items)
    BY <1>1, WithSol
  <2> QED BY <2>1, <2>2
<1> HIDE DEF ahead, behind
<1>5. ItemsOK(shown) /\ SumOf(shown) = n * SolPrice + SumOf(items)
  <2>1. CASE n * SolPrice > 0
    BY <1>4, <2>1
  <2>2. CASE ~(n * SolPrice > 0)
    <3>1. shown = items /\ n * SolPrice = 0
      BY <1>4, <2>2
    <3> HIDE DEF shown
    <3> QED BY <1>1, <3>1
  <2> QED BY <2>1, <2>2
<1> HIDE DEF shown
<1>6. /\ Range(SortedBy(shown, "value_usd")) = shown
      /\ Range(SortedBy(items \cup {ahead}, "value_usd")) = items \cup {ahead}
  BY <1>4, <1>5, SortedHasAll
<1> QED BY <1>1, <1>2, <1>3, <1>4, <1>5, <1>6

LEMMA PositionsAre ==
  ASSUME NEW accs, AccountsOK(accs), NEW n \in Nat, NEW prices, PricedOK(prices), SolPrice \in Nat,
         NEW zero \in BOOLEAN, NEW by
  PROVE  LET listed == Positions(accs, n, prices, zero, by)
         IN  /\ listed.total = Total(accs, n, prices) /\ SumOf(Range(listed.positions)) = Total(accs, n, prices)
             /\ \A p \in {q \in Range(listed.positions) : q.name # "SOL"} :
                  p.amount = SumOver(accs, {i \in DOMAIN accs : accs[i].mint = p.name})
<1> DEFINE tokens == Aggregated(accs, zero)
           items == TokenItems(tokens, prices)
           end == Cardinality(DOMAIN tokens) + 1
           behind == Item("SOL", n, n * SolPrice, end)
           all == items \cup (IF n > 0 \/ zero THEN {behind} ELSE {})
           listed == Positions(accs, n, prices, zero, by)
           worth == Worth(Aggregated(accs, FALSE), prices)
<1>1. /\ ItemsOK(items) /\ SumOf(items) = worth /\ SumOf(items) \in Nat /\ end \in Nat
      /\ \A x \in items : x.at # end /\ x.amount = SumOver(accs, OfMint(accs, x.name))
  BY TokensAre
<1>2. listed.total = SumOf(all) /\ listed.positions = SortedBy(all, by)
  BY DEF Positions, SolLast
<1>3. Total(accs, n, prices) = n * SolPrice + worth
  BY DEF Total
<1> HIDE DEF items, tokens, worth, end
<1>4. /\ behind.name = "SOL" /\ n * SolPrice \in Nat /\ (n = 0 => n * SolPrice = 0)
      /\ ItemsOK(items \cup {behind}) /\ SumOf(items \cup {behind}) = n * SolPrice + SumOf(items)
  BY <1>1, WithSol
<1> HIDE DEF behind, listed
<1>5. ItemsOK(all) /\ SumOf(all) = n * SolPrice + SumOf(items)
  <2>1. CASE n > 0 \/ zero
    BY <1>4, <2>1
  <2>2. CASE ~(n > 0 \/ zero)
    <3>1. all = items /\ n * SolPrice = 0
      BY <1>4, <2>2
    <3> HIDE DEF all
    <3> QED BY <1>1, <3>1
  <2> QED BY <2>1, <2>2
<1>6. \A p \in all : p.name # "SOL" => p \in items
  BY <1>4
<1> HIDE DEF all
<1>7. Range(listed.positions) = all
  BY <1>2, <1>5, SortedHasAll
<1>8. \A p \in {q \in Range(listed.positions) : q.name # "SOL"} :
        p.amount = SumOver(accs, {i \in DOMAIN accs : accs[i].mint = p.name})
  BY <1>1, <1>6, <1>7 DEF OfMint
<1>9. listed.total = Total(accs, n, prices) /\ SumOf(Range(listed.positions)) = Total(accs, n, prices)
  BY <1>1, <1>2, <1>3, <1>5, <1>7
<1> QED BY <1>8, <1>9 DEF listed

ViewSpec == ViewInit /\ [][ViewStep]_viewVars

ViewRequest ==
  [stage : ViewStages, own : BOOLEAN, sol : Balances, accounts : Portfolios \cup {<<>>},
   prices : TokenPrices \cup {NoRequest.prices}]

(* A request under way has accounts, or none when they could not be read,  *)
(* and one that is done prices, of the market as it once was; what the     *)
(* chain had is known of the same readings.                                *)
ViewInv ==
  /\ accounts \in Portfolios /\ chainSol \in Balances /\ balance \in Balances /\ market \in TokenPrices
  /\ refreshes \subseteq Balances
  /\ asked \in ViewRequest
  /\ asked.stage = "done" => asked.prices \in TokenPrices

LEMMA NoRequestIs == NoRequest \in ViewRequest /\ NoRequest.stage = "idle"
BY ViewAssumption DEF NoRequest, ViewRequest, ViewStages

LEMMA ViewInitInv == ViewInit => ViewInv
BY NoRequestIs DEF ViewInit, ViewInv

LEMMA ViewStepInv == ViewInv /\ [ViewStep]_viewVars => ViewInv'
<1> SUFFICES ASSUME ViewInv, [ViewStep]_viewVars PROVE ViewInv'
  OBVIOUS
<1>1. CASE ReadSol
  <2>1. PICK own \in BOOLEAN, n \in Balances :
          asked' = [stage |-> "sol", own |-> own, sol |-> n, accounts |-> <<>>, prices |-> NoRequest.prices]
    <3>1. CASE asked' = [NoRequest EXCEPT !.stage = "sol", !.own = TRUE, !.sol = balance]
      BY <3>1 DEF NoRequest, ViewInv
    <3>2. CASE \E n \in {chainSol, 0} : asked' = [NoRequest EXCEPT !.stage = "sol", !.sol = n]
      <4>1. PICK n \in {chainSol, 0} : asked' = [NoRequest EXCEPT !.stage = "sol", !.sol = n]
        BY <3>2
      <4>2. n \in Balances
        BY ViewAssumption DEF ViewInv
      <4> QED BY <4>1, <4>2 DEF NoRequest
    <3> QED BY <1>1, <3>1, <3>2 DEF ReadSol
  <2>2. asked' \in ViewRequest /\ asked'.stage = "sol"
    BY <2>1 DEF ViewRequest, ViewStages
  <2> QED BY <1>1, <2>2 DEF ReadSol, ViewInv
<1>2. CASE ReadAccounts
  <2>1. PICK accs \in Portfolios \cup {<<>>} : asked' = [asked EXCEPT !.stage = "accounts", !.accounts = accs]
    BY <1>2 DEF ReadAccounts, ViewInv
  <2>2. asked' \in ViewRequest /\ asked'.stage = "accounts"
    BY <2>1 DEF ViewRequest, ViewInv, ViewStages
  <2> QED BY <1>2, <2>2 DEF ReadAccounts, ViewInv
<1>3. CASE AccountsFail
  BY <1>3, NoRequestIs DEF AccountsFail, ViewInv
<1>4. CASE ReadPrices
  <2>1. asked' = [asked EXCEPT !.stage = "done", !.prices = market]
    BY <1>4 DEF ReadPrices
  <2>2. asked' \in ViewRequest /\ asked'.prices = market
    BY <2>1 DEF ViewRequest, ViewInv, ViewStages
  <2> QED BY <1>4, <2>2 DEF ReadPrices, ViewInv
<1>5. CASE Answered
  BY <1>5, NoRequestIs DEF Answered, ViewInv
<1>6. CASE FetchBalance
  BY <1>6 DEF FetchBalance, ViewInv
<1>7. CASE SaveBalance
  BY <1>7 DEF SaveBalance, ViewInv
<1>8. CASE Moved
  BY <1>8 DEF Moved, ViewInv
<1>9. CASE UNCHANGED viewVars
  BY <1>9 DEF viewVars, ViewInv
<1> QED BY <1>1, <1>2, <1>3, <1>4, <1>5, <1>6, <1>7, <1>8, <1>9 DEF ViewStep

(* What a request for the holdings has read stays of the right kind.       *)
THEOREM ViewInductive == ViewSpec => []ViewInv
BY ViewInitInv, ViewStepInv, PTL DEF ViewSpec

LEMMA ViewTypes == ViewInv => ViewTypeOK
BY DEF ViewInv, ViewTypeOK, ViewRequest

LEMMA NoAccounts == AccountsOK(<<>>)
BY DEF AccountsOK, Range

LEMMA ViewAgrees == ViewInv => ViewsAgree
<1> SUFFICES ASSUME ViewInv, asked.stage = "done" PROVE ViewsAgree
  BY DEF ViewsAgree
<1> DEFINE a == asked.accounts
           n == asked.sol
           prices == asked.prices
           o == IF asked.own THEN Overall(a, n, prices) ELSE OverallByAddress(a, n, prices)
           listed(zero, by) == IF asked.own THEN Positions(a, n, prices, zero, by)
                               ELSE PositionsByAddress(a, n, prices, zero)
<1>1. a \in Portfolios \cup {<<>>} /\ prices \in TokenPrices /\ n \in Nat /\ SolPrice \in Nat
  BY ViewAssumption DEF ViewInv, ViewRequest
<1>2. AccountsOK(a) /\ PricedOK(prices)
  <2>1. \A accs \in Portfolios : AccountsOK(accs)
    BY ViewAssumption DEF AccountsOK
  <2>2. PricedOK(prices)
    BY <1>1, ViewAssumption DEF PricedOK
  <2> QED BY <1>1, <2>1, <2>2, NoAccounts
<1>3. o.total = Total(a, n, prices) /\ SumOf(Range(o.allocation)) = Total(a, n, prices)
  BY <1>1, <1>2, OverallIs
<1>4. ASSUME NEW zero \in BOOLEAN, NEW by \in Sorts
      PROVE  /\ listed(zero, by).total = o.total /\ SumOf(Range(listed(zero, by).positions)) = o.total
             /\ \A p \in {q \in Range(listed(zero, by).positions) : q.name # "SOL"} :
                  p.amount = SumOver(a, {i \in DOMAIN a : a[i].mint = p.name})
  <2>1. PICK any : listed(zero, by) = Positions(a, n, prices, zero, any)
    BY DEF PositionsByAddress
  <2> HIDE DEF listed, o, a, n, prices
  <2> QED BY <1>1, <1>2, <1>3, <2>1, PositionsAre
<1>5. ASSUME n = witnessed.sol, a = witnessed.accounts PROVE o.total = WorthOnChain(witnessed, prices)
  <2> HIDE DEF o
  <2>1. Total(a, n, prices)
          = n * SolPrice + SumFunction([i \in DOMAIN a |-> a[i].amount * Price(prices, a[i].mint)])
    BY <1>2, WorthByAccount DEF Total
  <2> QED BY <1>3, <1>5, <2>1 DEF WorthOnChain
<1> QED BY <1>3, <1>4, <1>5 DEF ViewsAgree

(* The overview and the positions, in either copy and sorted in any way,   *)
(* come to the same total; the shares of the allocation add up to it; a    *)
(* mint held in several accounts is listed with all of them; and the total *)
(* is what the chain held, account by account, unless a call failed or the *)
(* column was stale.                                                       *)
THEOREM ViewsAlwaysAgree == ViewSpec => []ViewsAgree
BY ViewInductive, ViewAgrees, PTL

(***************************************************************************)
(* MCServices.  A step of the services together is a step of one component *)
(* or leaves it as it is: each behaves as it would alone, and what holds   *)
(* of it alone holds beside the others.                                    *)
(***************************************************************************)
LEMMA ViewBeside == Spec => ViewSpec
<1>1. Init => ViewInit
  BY Zenon DEF Init, PortfolioInit
<1>2. [Next]_vars => [ViewStep]_viewVars
  BY Zenon DEF Next, vars, Accounts, Swapping, Rolling, Portfolio, PortfolioStep, portfolioVars,
     History, Pnl, View, Feed, Staking, Actions
<1> QED BY <1>1, <1>2, PTL DEF Spec, ViewSpec

LEMMA FeedBeside == Spec => FeedSpec
<1>1. Init => FeedInit
  BY Zenon DEF Init, PortfolioInit
<1>2. [Next]_vars => [FeedStep]_feedVars
  BY Zenon DEF Next, vars, Accounts, Swapping, Rolling, Portfolio, PortfolioStep, portfolioVars,
     History, Pnl, View, Feed, Staking, Actions
<1> QED BY <1>1, <1>2, PTL DEF Spec, FeedSpec

LEMMA RollBeside == Spec => RollSpec
<1>1. Init => RollInit
  BY Zenon DEF Init
<1>2. [Next]_vars => [RollStep]_rollVars
  BY Zenon DEF Next, vars, Accounts, Swapping, Rolling, Portfolio
<1> QED BY <1>1, <1>2, PTL DEF Spec, RollSpec

LEMMA UserBeside == Spec => UserSpec
<1>1. Init => UserInit
  BY Zenon DEF Init
<1>2. [Next]_vars => [UserStep]_userVars
  BY Zenon DEF Next, vars, accountVars, Accounts, Swapping, Rolling, Portfolio,
     User, Signup, LogIn, Default, Sync, Sub, Alarm
<1> QED BY <1>1, <1>2, PTL DEF Spec, UserSpec

LEMMA SignupBeside == Spec => SignupSpec
<1>1. Init => SignupInit
  BY Zenon DEF Init
<1>2. [Next]_vars => [SignupStep]_signupVars
  BY Zenon DEF Next, vars, accountVars, Accounts, Swapping, Rolling, Portfolio,
     User, Signup, LogIn, Default, Sync, Sub, Alarm
<1> QED BY <1>1, <1>2, PTL DEF Spec, SignupSpec

LEMMA LoginBeside == Spec => LoginSpec
<1>1. Init => LoginInit
  BY Zenon DEF Init
<1>2. [Next]_vars => [LoginStep]_loginVars
  BY Zenon DEF Next, vars, accountVars, Accounts, Swapping, Rolling, Portfolio,
     User, Signup, LogIn, Default, Sync, Sub, Alarm
<1> QED BY <1>1, <1>2, PTL DEF Spec, LoginSpec

LEMMA DefaultBeside == Spec => DefaultSpec
<1>1. Init => DefaultInit
  BY Zenon DEF Init
<1>2. [Next]_vars => [DefaultStep]_defaultVars
  BY Zenon DEF Next, vars, accountVars, Accounts, Swapping, Rolling, Portfolio,
     User, Signup, LogIn, Default, Sync, Sub, Alarm
<1> QED BY <1>1, <1>2, PTL DEF Spec, DefaultSpec

LEMMA SyncBeside == Spec => SyncSpec
<1>1. Init => SyncInit
  BY Zenon DEF Init
<1>2. [Next]_vars => [SyncStep]_syncVars
  BY Zenon DEF Next, vars, accountVars, Accounts, Swapping, Rolling, Portfolio,
     User, Signup, LogIn, Default, Sync, Sub, Alarm
<1> QED BY <1>1, <1>2, PTL DEF Spec, SyncSpec

LEMMA SubBeside == Spec => SubSpec
<1>1. Init => SubInit
  BY Zenon DEF Init
<1>2. [Next]_vars => [SubStep]_subVars
  BY Zenon DEF Next, vars, accountVars, Accounts, Swapping, Rolling, Portfolio,
     User, Signup, LogIn, Default, Sync, Sub, Alarm
<1> QED BY <1>1, <1>2, PTL DEF Spec, SubSpec

LEMMA AlertBeside == Spec => AlertSpec
<1>1. Init => AlertInit
  BY Zenon DEF Init
<1>2. [Next]_vars => [AlertStep]_alertVars
  BY Zenon DEF Next, vars, accountVars, Accounts, Swapping, Rolling, Portfolio,
     User, Signup, LogIn, Default, Sync, Sub, Alarm
<1> QED BY <1>1, <1>2, PTL DEF Spec, AlertSpec

LEMMA SwapBeside == Spec => SwapSpec
<1>1. Init => SwapInit
  BY Zenon DEF Init
<1>2. [Next]_vars => [SwapStep]_swapVars
  BY Zenon DEF Next, vars, Accounts, Swapping, Rolling, Portfolio
<1> QED BY <1>1, <1>2, PTL DEF Spec, SwapSpec

LEMMA TradesBeside == Spec => TradesSpec
<1>1. Init => HistoryInit
  BY Zenon DEF Init, PortfolioInit
<1>2. [Next]_vars => [HistoryStep]_historyVars
  BY Zenon DEF Next, vars, Accounts, Swapping, Rolling, Portfolio, PortfolioStep, portfolioVars,
     History, Pnl, View, Feed, Staking, Actions
<1> QED BY <1>1, <1>2, PTL DEF Spec, TradesSpec

LEMMA PnlBeside == Spec => PnlSpec
<1>1. Init => PnlInit
  BY Zenon DEF Init, PortfolioInit
<1>2. [Next]_vars => [PnlStep]_pnlVars
  BY Zenon DEF Next, vars, Accounts, Swapping, Rolling, Portfolio, PortfolioStep, portfolioVars,
     History, Pnl, View, Feed, Staking, Actions
<1> QED BY <1>1, <1>2, PTL DEF Spec, PnlSpec

LEMMA StakingBeside == Spec => StakingSpec
<1>1. Init => StakingInit
  BY Zenon DEF Init, PortfolioInit
<1>2. [Next]_vars => [StakingStep]_stakingVars
  BY Zenon DEF Next, vars, Accounts, Swapping, Rolling, Portfolio, PortfolioStep, portfolioVars,
     History, Pnl, View, Feed, Staking, Actions
<1> QED BY <1>1, <1>2, PTL DEF Spec, StakingSpec

LEMMA ActionsBeside == Spec => ActionsSpec
<1>1. Init => ActionsInit
  BY Zenon DEF Init, PortfolioInit
<1>2. [Next]_vars => [ActionsStep]_actionVars
  BY Zenon DEF Next, vars, Accounts, Swapping, Rolling, Portfolio, PortfolioStep, portfolioVars,
     History, Pnl, View, Feed, Staking, Actions
<1> QED BY <1>1, <1>2, PTL DEF Spec, ActionsSpec

(* What is shown is right, for any portfolios, transactions and swaps: the *)
(* copies of the code that value a wallet agree, a transfer is shown with  *)
(* the wallet at the end it had unless all of them are between others, and *)
(* the statistics of a mint are of its day.                                *)
THEOREM WhatIsShownIsRight == Spec => []ShownRight
<1>1. Spec => [](ViewsAgree /\ TransfersReadRight /\ StatsAreOfTheDay)
  BY ViewBeside, FeedBeside, RollBeside, ViewsAlwaysAgree, TransfersAreAlwaysReadRight, StatsAreAlwaysOfTheDay, PTL
<1>2. ViewsAgree /\ TransfersReadRight /\ StatsAreOfTheDay => ShownRight
  BY DEF ShownRight, WalletShownRight
<1> QED BY <1>1, <1>2, PTL

(* Every table, cache, queue and request of the services has its type,     *)
(* whatever the others do beside it and for any values of the bounds.      *)
THEOREM ServicesTypes == Spec => []TypeOK
<1>1. Spec => [](UserTypeOK /\ SignupTypeOK /\ LoginTypeOK /\ DefaultTypeOK)
  BY UserBeside, SignupBeside, LoginBeside, DefaultBeside, UserTypes, SignupTypes, LoginTypes, DefaultTypes, PTL
<1>2. Spec => [](SyncTypeOK /\ SubTypeOK /\ AlertTypeOK)
  BY SyncBeside, SubBeside, AlertBeside, SyncTypes, SubTypes, AlertTypes, PTL
<1>3. Spec => [](SwapTypeOK /\ RollTypeOK)
  BY SwapBeside, RollBeside, SwapTypes, RollTypes, PTL
<1>4. Spec => [](HistoryTypeOK /\ PnlTypeOK /\ ViewTypeOK)
  BY TradesBeside, PnlBeside, ViewBeside, TradeTypes, PnlTypes, ViewInductive, ViewTypes, PTL
<1>5. Spec => [](FeedTypeOK /\ StakingTypeOK /\ ActionsTypeOK)
  BY FeedBeside, StakingBeside, ActionsBeside, FeedTypes, StakingTypes, ActionsTypes, PTL
<1>6. /\ UserTypeOK /\ SignupTypeOK /\ LoginTypeOK /\ DefaultTypeOK /\ SyncTypeOK /\ SubTypeOK /\ AlertTypeOK
      /\ SwapTypeOK /\ RollTypeOK /\ HistoryTypeOK /\ PnlTypeOK /\ ViewTypeOK
      /\ FeedTypeOK /\ StakingTypeOK /\ ActionsTypeOK
      => TypeOK
  BY Zenon DEF TypeOK, PortfolioTypeOK
<1> QED BY <1>1, <1>2, <1>3, <1>4, <1>5, <1>6, PTL
===============================================================================
