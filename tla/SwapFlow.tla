------------------------------- MODULE SwapFlow -------------------------------
(***************************************************************************)
(* A swap: the executor of the cluster builds a transaction, or the wallet *)
(* does, the user signs it and asks for its execution, which goes by one   *)
(* of three ways: the Kora paymaster, a Jito bundle or the RPC node.       *)
(* Every way may lose an answer, and the user may ask again with the same  *)
(* transaction.                                                            *)
(***************************************************************************)
EXTENDS Integers, FiniteSets, Sequences, SequencesExt

CONSTANTS
  SwapTxs, SwapRequests, FeeTokens,
  MaxPolls,     \* bound: polls of a bundle within its 30 seconds
  FeeSamples,   \* bound: the priority fees the node may report
  Tips          \* bound: the landed tips Jito may report

ASSUME SwapAssumption == MaxPolls \in Nat

VARIABLES
  cluster,      \* of the requests
  swapsBuilt,   \* the transactions built, here or by a wallet: fee token and tip
  chain,        \* what the chain knows of a transaction
  requests,     \* executeSwap calls
  feeCache      \* SWAP_FEE_CACHE

swapVars == <<cluster, swapsBuilt, chain, requests, feeCache>>

NoFee == "none"
Unasked == [stage |-> "idle", tx |-> NoFee, way |-> "none", sent |-> FALSE, polls |-> 0, answer |-> "none"]
NoFees == [priority |-> 0, tip |-> 0, max |-> 0]
Fallback == [priority |-> 3, tip |-> 2]

SwapTypeOK ==
  /\ cluster \in {"mainnet", "devnet"}
  /\ \A t \in DOMAIN swapsBuilt : t \in SwapTxs /\ swapsBuilt[t].fee \in FeeTokens \cup {NoFee} /\ swapsBuilt[t].tip \in BOOLEAN
  /\ chain \in [SwapTxs -> {"unknown", "sent", "bundled", "landed", "failed", "expired"}]
  /\ \A r \in SwapRequests :
       /\ requests[r].stage \in {"idle", "send", "poll", "confirm", "answered"}
       /\ requests[r].way \in {"none", "kora", "jito", "rpc"} /\ requests[r].polls \in 0..MaxPolls
       /\ requests[r].answer \in {"none", "signature", "refused", "notLanded", "error"}
  /\ feeCache = NoFees \/ feeCache.max = 3 * (feeCache.priority + feeCache.tip)

SwapInit ==
  /\ cluster \in {"mainnet", "devnet"}
  /\ swapsBuilt = [t \in {} |-> 0] /\ chain = [t \in SwapTxs |-> "unknown"]
  /\ requests = [r \in SwapRequests |-> Unasked] /\ feeCache = NoFees

(* forCluster and getCapabilities: only the own executor, on devnet, may   *)
(* offer gasless swaps, as long as Kora is enabled and answers.            *)
GaslessTokens == IF cluster = "devnet" THEN {{}, FeeTokens} ELSE {{}}

(* The tips Jito reports, which knows mainnet only and throws elsewhere.   *)
LandedTips == IF cluster = "mainnet" THEN Tips ELSE {}

(* getSwapTransaction: a fee token needs the capability, protection a tip. *)
BuildSwap(t) ==
  /\ t \notin DOMAIN swapsBuilt
  /\ \E fee \in FeeTokens \cup {NoFee}, sec \in BOOLEAN, tokens \in GaslessTokens :
       /\ fee = NoFee \/ fee \in tokens
       /\ sec => LandedTips # {}
       /\ swapsBuilt' = [x \in DOMAIN swapsBuilt \cup {t} |-> IF x = t THEN [fee |-> fee, tip |-> sec] ELSE swapsBuilt[x]]
  /\ UNCHANGED <<cluster, chain, requests, feeCache>>

(* External: executeSwap is handed any signed transaction.                 *)
WalletBuilds(t) ==
  /\ t \notin DOMAIN swapsBuilt
  /\ \E fee \in FeeTokens \cup {NoFee}, tip \in BOOLEAN :
       swapsBuilt' = [x \in DOMAIN swapsBuilt \cup {t} |-> IF x = t THEN [fee |-> fee, tip |-> tip] ELSE swapsBuilt[x]]
  /\ UNCHANGED <<cluster, chain, requests, feeCache>>

Answers(r, answer) == requests' = [requests EXCEPT ![r].stage = "answered", ![r].answer = answer]
PollsAgain(r)      == requests' = [requests EXCEPT ![r].polls = @ + 1]

(* executeSwap: the flags of this request choose the way, whatever the     *)
(* transaction was built for.                                              *)
AskExecution(r) ==
  /\ requests[r].stage = "idle"
  /\ \E t \in DOMAIN swapsBuilt, fee \in FeeTokens \cup {NoFee}, sec \in BOOLEAN, tokens \in GaslessTokens :
       LET way == IF fee # NoFee THEN "kora" ELSE IF sec THEN "jito" ELSE "rpc"
       IN  IF (way = "kora" /\ fee \notin tokens) \/ (way = "jito" /\ cluster # "mainnet")
           THEN requests' = [requests EXCEPT ![r].stage = "answered", ![r].answer = "refused", ![r].tx = t, ![r].way = way]
           ELSE requests' = [requests EXCEPT ![r].stage = "send", ![r].tx = t, ![r].way = way]
  /\ UNCHANGED <<cluster, swapsBuilt, chain, feeCache>>

TxOf(r) == requests[r].tx

(* What a node takes: not what it has seen land, and not a gasless         *)
(* transaction Kora has not signed.                                        *)
Takes(r) ==
  /\ chain[TxOf(r)] \notin {"landed", "failed", "expired"}
  /\ requests[r].way = "kora" \/ swapsBuilt[TxOf(r)].fee = NoFee

(* One request over HTTP: refused by the other side, or taken, when its    *)
(* answer may be lost; the request goes on to next with its answer.        *)
Rpc(r, status, next) ==
  \/ chain' = chain /\ Answers(r, "error")
  \/ /\ Takes(r)
     /\ chain' = [chain EXCEPT ![TxOf(r)] = status]
     /\ \/ requests' = [requests EXCEPT ![r].stage = "answered", ![r].answer = "error", ![r].sent = TRUE]
        \/ requests' = [requests EXCEPT ![r].stage = next, ![r].sent = TRUE]

Sending(r, way) == requests[r].stage = "send" /\ requests[r].way = way

(* signAndSendTransaction: Kora signs as the payer and sends.              *)
SignAndSend(r) ==
  /\ Sending(r, "kora")
  /\ Rpc(r, "sent", "confirm")
  /\ UNCHANGED <<cluster, swapsBuilt, feeCache>>

(* sendBundle: a bundle of a transaction that is under way adds nothing.   *)
SendBundle(r) ==
  /\ Sending(r, "jito")
  /\ Rpc(r, IF chain[TxOf(r)] = "unknown" THEN "bundled" ELSE chain[TxOf(r)], "poll")
  /\ UNCHANGED <<cluster, swapsBuilt, feeCache>>

(* submitAndConfirm, up to sendRawTransaction.                             *)
SubmitRaw(r) ==
  /\ Sending(r, "rpc")
  /\ Rpc(r, "sent", "confirm")
  /\ UNCHANGED <<cluster, swapsBuilt, feeCache>>

(* confirmTransaction: returns once the signature is known, with an error  *)
(* in it or not, which nobody reads; throws when the block height passes.  *)
Confirm(r) ==
  /\ requests[r].stage = "confirm"
  /\ \/ chain[TxOf(r)] \in {"landed", "failed"} /\ Answers(r, "signature")
     \/ Answers(r, "error")
  /\ UNCHANGED <<cluster, swapsBuilt, chain, feeCache>>

(* What Jito says of a bundle: Landed when it has, until then anything     *)
(* else, Invalid when it does not know it.                                 *)
StatusOf(r) == {"Pending", "Failed", "Invalid"} \cup IF chain[TxOf(r)] = "landed" THEN {"Landed"} ELSE {}

(* Mutant: the poll that gets no answer counts as landed.                  *)
PollStatusMutant(r) ==
  /\ requests[r].stage = "poll" /\ requests[r].polls < MaxPolls
  /\ \/ \E status \in StatusOf(r) \ {"Pending"} : Answers(r, IF status = "Failed" THEN "notLanded" ELSE "signature")
     \/ PollsAgain(r)
  /\ UNCHANGED <<cluster, swapsBuilt, chain, feeCache>>

(* pollBundleStatus: the first terminal status ends it, an error or        *)
(* Pending tries again.                                                    *)
PollStatus(r) ==
  /\ requests[r].stage = "poll" /\ requests[r].polls < MaxPolls
  /\ \/ \E status \in StatusOf(r) \ {"Pending"} : Answers(r, IF status = "Landed" THEN "signature" ELSE "notLanded")
     \/ PollsAgain(r)
  /\ UNCHANGED <<cluster, swapsBuilt, chain, feeCache>>

WindowCloses(r) ==
  /\ requests[r].stage = "poll" /\ requests[r].polls = MaxPolls
  /\ Answers(r, "notLanded")
  /\ UNCHANGED <<cluster, swapsBuilt, chain, feeCache>>

(* The user sees an answer and asks again, with this or another            *)
(* transaction.                                                            *)
AskAgain(r) ==
  /\ requests[r].stage = "answered" /\ requests[r].answer # "signature"
  /\ requests' = [requests EXCEPT ![r] = Unasked]
  /\ UNCHANGED <<cluster, swapsBuilt, chain, feeCache>>

(* The chain: what is sent lands, fails or expires; a bundle lands whole,  *)
(* and only if it pays its tip, or is dropped.                             *)
ChainMoves(t) ==
  /\ \/ chain[t] = "sent" /\ chain' \in {[chain EXCEPT ![t] = s] : s \in {"landed", "failed", "expired"}}
     \/ chain[t] = "bundled" /\ swapsBuilt[t].tip /\ chain' = [chain EXCEPT ![t] = "landed"]
     \/ chain[t] = "bundled" /\ chain' = [chain EXCEPT ![t] = "expired"]
  /\ UNCHANGED <<cluster, swapsBuilt, requests, feeCache>>

(* fetchAutoPriorityFee: the 75th percentile, never zero.                  *)
PriorityFee(samples) ==
  LET sorted == SortSeq(samples, LAMBDA a, b : a < b)
      p75 == sorted[((3 * Len(sorted)) \div 4) + 1]
  IN  IF samples = <<>> \/ p75 = 0 THEN Fallback.priority ELSE p75

(* fetchAutoTip: Jito's estimate, its fallback when Jito fails.            *)
AutoTip == IF cluster = "devnet" THEN {0} ELSE LandedTips \cup {Fallback.tip}

(* getSwapInfo: the cached fees or new ones; they are forgotten after 5    *)
(* seconds.                                                                *)
GetSwapInfo ==
  /\ feeCache = NoFees
  /\ \E samples \in FeeSamples, tip \in AutoTip :
       LET priority == PriorityFee(samples)
       IN  feeCache' = [priority |-> priority, tip |-> tip, max |-> 3 * (priority + tip)]
  /\ UNCHANGED <<cluster, swapsBuilt, chain, requests>>

FeesExpire == feeCache # NoFees /\ feeCache' = NoFees /\ UNCHANGED <<cluster, swapsBuilt, chain, requests>>

SwapStep ==
  \/ \E t \in SwapTxs : BuildSwap(t) \/ WalletBuilds(t) \/ ChainMoves(t)
  \/ \E r \in SwapRequests :
       AskExecution(r) \/ SignAndSend(r) \/ SendBundle(r) \/ SubmitRaw(r) \/ Confirm(r)
         \/ PollStatus(r) \/ WindowCloses(r) \/ AskAgain(r)
  \/ GetSwapInfo \/ FeesExpire

-------------------------------------------------------------------------------
(***************************************************************************)
(* Properties                                                              *)
(***************************************************************************)

(* A signature is answered only for a transaction that is on the chain,    *)
(* with success if this request sent a bundle, and a refusal has sent      *)
(* nothing: whatever the flags, the lost answers and the requests that     *)
(* send the same transaction by another way.                               *)
SwapAnswerIsTrue ==
  \A r \in SwapRequests :
    /\ requests[r].answer = "signature" =>
         /\ chain[TxOf(r)] \in {"landed", "failed"}
         /\ requests[r].way = "jito" => chain[TxOf(r)] = "landed"
    /\ requests[r].answer = "refused" => ~requests[r].sent
===============================================================================
