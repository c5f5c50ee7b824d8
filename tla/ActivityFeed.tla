---------------------------- MODULE ActivityFeed -----------------------------
(***************************************************************************)
(* The activities of a wallet: mapToActivity reads one transaction of      *)
(* Helius, and enrichActivitiesWithSwapDetails asks again about the        *)
(* transfers of SOL out of it, in parallel, to find swaps Helius did not   *)
(* name.  The wallet is "w", any other account "x".                        *)
(***************************************************************************)
EXTENDS Integers, FiniteSets, Sequences, FiniteSetsExt, SequencesExt

CONSTANTS
  Feeds,      \* bound: the transactions of a page
  Details,    \* bound: what the wallet gains in tokens by the second answer
  MaxEnriched \* MAX_ENRICH_CANDIDATES

(* Helius names a mint in every transfer and every change of a balance.    *)
MintName == STRING \ {"none"}
HeliusTransfers == Seq([mint : MintName, amount : Nat, from : STRING, to : STRING])

ASSUME FeedAssumption ==
  /\ \A feed \in Feeds : feed \in Seq(
       [type : STRING, dex : BOOLEAN, event : STRING, nativeInput : Nat, nativeOutput : Nat,
        tokenInput : SUBSET [mint : MintName, amount : Nat], tokenOutput : SUBSET [mint : MintName, amount : Nat],
        tokens : HeliusTransfers, natives : HeliusTransfers, changes : Seq([mint : MintName, amount : Int])])
  /\ Details \subseteq [mint : STRING, amount : Nat] /\ MaxEnriched \in Nat

VARIABLES
  page,       \* the transactions, as Helius gave them
  activities, \* mapped, those of no interest removed
  enriching   \* the activities whose details have not been answered

feedVars == <<page, activities, enriching>>

Owner == "w"
Dust == 1000
NoAmount == [mint |-> "none", amount |-> 0]
Token(m, n) == [mint |-> m, amount |-> n]

FeedTypeOK ==
  /\ \A i \in DOMAIN activities : activities[i].tx \in DOMAIN page
  /\ enriching \subseteq DOMAIN activities /\ Cardinality(enriching) <= MaxEnriched

FeedInit == page \in Feeds /\ activities = <<>> /\ enriching = {}

Leading(s, Test(_)) == IF \E i \in DOMAIN s : Test(s[i])
                    THEN {s[Min({i \in DOMAIN s : Test(s[i])})]} ELSE {}
Some(S, default) == IF S = {} THEN default ELSE CHOOSE e \in S : TRUE
Sent(t) == t.from = Owner
Received(t) == t.to = Owner
Involved(t) == Sent(t) \/ Received(t)

(* A DEX by name, or by the source of a transaction Helius cannot name.    *)
IsDexSwap(tx) == tx.type = "SWAP" \/ (tx.type = "UNKNOWN" /\ tx.dex)

Activity(k, tx) ==
  [tx |-> k, type |-> tx.type, tokenIn |-> NoAmount, tokenOut |-> NoAmount, token |-> NoAmount,
   from |-> "none", to |-> "none"]

(* A swap Helius names: what its event says, the native side first, else   *)
(* the first transfers out of and into the wallet.                         *)
Swap(k, tx) ==
  LET side(native, tokens, transfers) ==
        IF tx.event = "none"
        THEN Some({Token(t.mint, t.amount) : t \in transfers}, NoAmount)
        ELSE IF native > 0 THEN Token("SOL", native) ELSE Some(tokens, NoAmount)
  IN  {[Activity(k, tx) EXCEPT
          !.type = "SWAP",
          !.tokenIn = side(tx.nativeInput, tx.tokenInput, Leading(tx.tokens, Sent)),
          !.tokenOut = side(tx.nativeOutput, tx.tokenOutput, Leading(tx.tokens, Received))]}

(* Changes of the wallet's token balances stand in for missing transfers;  *)
(* the last one of each sign counts.                                       *)
Gained(tx) == Leading(Reverse(tx.changes), LAMBDA c : c.amount > 0)
Lost(tx) == {Token(c.mint, -c.amount) : c \in Leading(Reverse(tx.changes), LAMBDA c : c.amount < 0)}

TokenIn(tx) == IF Leading(tx.tokens, Received) # {} THEN Leading(tx.tokens, Received) ELSE Gained(tx)
TokenOut(tx) == IF Leading(tx.tokens, Sent) # {} THEN Leading(tx.tokens, Sent) ELSE Lost(tx)
SolIn(tx) == Leading(tx.natives, LAMBDA t : Received(t) /\ t.amount >= Dust)
SolOut(tx) == Leading(tx.natives, LAMBDA t : Sent(t) /\ t.amount >= Dust)

(* Mutant: SOL out of the wallet is enough.                                *)
IsImplicitSwapMutant(tx) ==
  \/ SolOut(tx) # {}
  \/ TokenOut(tx) # {} /\ (TokenIn(tx) # {} \/ SolIn(tx) # {})

(* A transfer that is a swap: SOL for a token, one token for another, or a *)
(* token for SOL.                                                          *)
IsImplicitSwap(tx) ==
  \/ SolOut(tx) # {} /\ TokenIn(tx) # {}
  \/ TokenOut(tx) # {} /\ TokenIn(tx) # {}
  \/ TokenOut(tx) # {} /\ SolIn(tx) # {}

ImplicitSwap(k, tx) ==
  LET bare(S) == {Token(t.mint, t.amount) : t \in S}
      sol(S) == {Token("SOL", t.amount) : t \in S}
  IN  {[Activity(k, tx) EXCEPT
          !.type = "SWAP",
          !.tokenIn = Some(IF TokenOut(tx) # {} THEN bare(TokenOut(tx)) ELSE sol(SolOut(tx)), NoAmount),
          !.tokenOut = Some(IF TokenIn(tx) # {} THEN bare(TokenIn(tx)) ELSE sol(SolIn(tx)), NoAmount)]}

(* A plain transfer: the token transfer of the wallet, or the first one of *)
(* all, or a transfer of SOL; SOL below the dust limit is left out.        *)
Transfer(k, tx) ==
  LET tokens == IF Leading(tx.tokens, Involved) # {} THEN Leading(tx.tokens, Involved)
                ELSE Leading(tx.tokens, LAMBDA t : TRUE)
      native == Leading(tx.natives, Involved)
  IN  IF tokens = {} /\ \E t \in native : t.amount < Dust THEN {}
      ELSE {[Activity(k, tx) EXCEPT
               !.type = IF Received(t) THEN "TRANSFER_IN" ELSE "TRANSFER_OUT",
               !.from = t.from, !.to = t.to,
               !.token = Token(IF tokens = {} THEN "SOL" ELSE t.mint, t.amount)] :
             t \in IF tokens = {} THEN native ELSE tokens}

(* STAKE and UNSTAKE show the first transfer of SOL.                       *)
Stake(k, tx) ==
  {[Activity(k, tx) EXCEPT
      !.type = IF tx.type \in {"STAKE_SOL", "STAKE"} THEN "STAKE" ELSE "UNSTAKE",
      !.token = Some({Token("SOL", t.amount) : t \in Leading(tx.natives, LAMBDA t : TRUE)}, NoAmount)]}

(* mapToActivity: a set of at most one activity.                           *)
MapToActivity(k, tx) ==
  CASE IsDexSwap(tx) -> Swap(k, tx)
    [] tx.type = "TRANSFER" ->
         IF Leading(tx.tokens \o tx.natives, Involved) = {} THEN {}
         ELSE IF IsImplicitSwap(tx) THEN ImplicitSwap(k, tx) ELSE Transfer(k, tx)
    [] tx.type \in {"STAKE_SOL", "STAKE", "UNSTAKE_SOL", "UNSTAKE"} -> Stake(k, tx)
    [] OTHER -> {Activity(k, tx)}

(* The transfers of SOL out of the wallet, the first ones of the page.     *)
Candidates(acts) ==
  LET some == {i \in DOMAIN acts : acts[i].type = "TRANSFER_OUT" /\ acts[i].token.mint = "SOL" /\ acts[i].from # "none"}
  IN  {i \in some : Cardinality({j \in some : j < i}) < MaxEnriched}

Map ==
  /\ activities = <<>>
  /\ activities' = FlattenSeq([k \in DOMAIN page |-> SetToSeq(MapToActivity(k, page[k]))])
  /\ activities' # <<>>
  /\ enriching' = Candidates(activities')
  /\ UNCHANGED page

(* The answers come in any order; a token the sender gained makes it a     *)
(* swap.  An error or an empty answer keeps the activity.                  *)
Enrich(i) ==
  /\ i \in enriching
  /\ enriching' = enriching \ {i}
  /\ \E gained \in Details :
       activities' = IF gained = NoAmount THEN activities
                     ELSE [activities EXCEPT ![i] =
                            [activities[i] EXCEPT !.type = "SWAP", !.tokenIn = activities[i].token,
                                                  !.tokenOut = gained,
                                                  !.token = NoAmount, !.from = "none", !.to = "none"]]
  /\ UNCHANGED page

FeedStep == Map \/ \E i \in enriching : Enrich(i)

-------------------------------------------------------------------------------
(***************************************************************************)
(* Properties                                                              *)
(***************************************************************************)

(* A transfer shown as a swap gives one thing for another: it has both     *)
(* sides, and something did leave the wallet; an incoming transfer did     *)
(* arrive there, and an outgoing one did leave it.  Where the only token   *)
(* transfers are between others the code shows the first of these, and it  *)
(* takes one of wrapped SOL for SOL of the wallet to ask about again.      *)
TransfersReadRight ==
  \A i \in DOMAIN activities :
    LET a == activities[i]
        tx == page[a.tx]
        ofOthers == tx.tokens # <<>> /\ Leading(tx.tokens, Involved) = {}
    IN  tx.type = "TRANSFER" =>
          /\ a.type = "SWAP" => /\ NoAmount \notin {a.tokenIn, a.tokenOut}
                                /\ TokenOut(tx) # {} \/ (\E t \in Range(tx.natives) : Sent(t)) \/ ofOthers
          /\ a.type = "TRANSFER_IN" => a.to = Owner
          /\ a.type = "TRANSFER_OUT" => a.from = Owner \/ ofOthers
===============================================================================
