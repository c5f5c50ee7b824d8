------------------------------ MODULE MCServices ------------------------------
(***************************************************************************)
(* Accounts, wallets, alerts, the sync of new mints, swaps, the statistics *)
(* of a mint, and the components of MCPortfolio, one at a time like        *)
(* MCMarket.                                                               *)
(***************************************************************************)
EXTENDS UserAccount, Registration, WalletLogin, DefaultWallet, TokenSync, Subscriptions, WalletAlerts,
        SwapFlow, RollingStats, MCPortfolio

Services == {"user", "signup", "login", "default", "sync", "sub", "alert", "swap", "stats"}

Alert(type, address, mint, threshold, percentage, direction) ==
  [type |-> type, wallet |-> address, mint |-> mint, threshold |-> threshold,
   percentage |-> percentage, direction |-> direction]

(* An alert on the swaps of a wallet, one on its balance of a token and    *)
(* one on its transfers.                                                   *)
MCAlerts == {Alert("ANY_SWAP", "w", "any", 0, FALSE, "any"),
             Alert("TOKEN_BALANCE_CHANGE", "w", "m", 2, FALSE, "decrease"),
             Alert("LARGE_TRANSFER", "w", "any", 1, FALSE, "any")}

MCFeeSamples == {<<>>, <<0>>, <<4, 2, 1, 3>>}

(* A transaction with two swaps and a change of balance, and a transfer.   *)
MCEvents == {[kind |-> "swap", signature |-> "s1", wallets |-> <<"w">>],
             [kind |-> "swap", signature |-> "s1", wallets |-> <<"w">>, second |-> TRUE],
             [kind |-> "holder", signature |-> "s1", wallets |-> <<"w">>, mint |-> "m", change |-> -2],
             [kind |-> "transfer", signature |-> "s2", wallets |-> <<"w", "w">>, amount |-> 1]}

(* Two swaps alike but for their side, and one at another price.           *)
StatSwap(id, buys, volume, price) == [id |-> id, buys |-> buys, volume |-> volume, price |-> price]
MCStatSwaps == {StatSwap(1, TRUE, 1, 2), StatSwap(2, FALSE, 1, 2), StatSwap(3, FALSE, 2, 1)}

accountVars == <<userVars, signupVars, loginVars, defaultVars, syncVars, subVars, alertVars>>
vars == <<focus, accountVars, swapVars, rollVars, portfolioVars>>

Init ==
  /\ focus \in Services \cup Parts
  /\ SignupInit /\ LoginInit /\ SyncInit /\ AlertInit /\ RollInit /\ PortfolioInit
  /\ UserInit    /\ (focus # "user" => user.verified)
  /\ SubInit     /\ (focus # "sub" => channel = "email")
  /\ SwapInit    /\ (focus # "swap" => cluster = "mainnet")
  /\ DefaultInit /\ (focus # "default" => \A a \in Addresses : ownerOf[a] = CHOOSE u \in Owners : TRUE)

User    == focus = "user"     /\ UserStep    /\ UNCHANGED <<signupVars, loginVars, defaultVars, syncVars, subVars, alertVars>>
Signup  == focus = "signup"   /\ SignupStep  /\ UNCHANGED <<userVars, loginVars, defaultVars, syncVars, subVars, alertVars>>
LogIn   == focus = "login"    /\ LoginStep   /\ UNCHANGED <<userVars, signupVars, defaultVars, syncVars, subVars, alertVars>>
Default == focus = "default"  /\ DefaultStep /\ UNCHANGED <<userVars, signupVars, loginVars, syncVars, subVars, alertVars>>
Sync    == focus = "sync"     /\ SyncStep    /\ UNCHANGED <<userVars, signupVars, loginVars, defaultVars, subVars, alertVars>>
Sub     == focus = "sub"      /\ SubStep     /\ UNCHANGED <<userVars, signupVars, loginVars, defaultVars, syncVars, alertVars>>
Alarm   == focus = "alert"    /\ AlertStep   /\ UNCHANGED <<userVars, signupVars, loginVars, defaultVars, syncVars, subVars>>

Accounts == (User \/ Signup \/ LogIn \/ Default \/ Sync \/ Sub \/ Alarm) /\ UNCHANGED <<focus, swapVars, rollVars, portfolioVars>>
Swapping == focus = "swap" /\ SwapStep /\ UNCHANGED <<focus, accountVars, rollVars, portfolioVars>>
Rolling  == focus = "stats" /\ RollStep /\ UNCHANGED <<focus, accountVars, swapVars, portfolioVars>>
Portfolio == PortfolioStep /\ UNCHANGED <<focus, accountVars, swapVars, rollVars>>

Next == Accounts \/ Swapping \/ Rolling \/ Portfolio

Spec == Init /\ [][Next]_vars

(* The requests that set a default wallet are interchangeable.             *)
Symmetry == Permutations(Setters)

TypeOK ==
  /\ UserTypeOK /\ SignupTypeOK /\ LoginTypeOK /\ DefaultTypeOK /\ SyncTypeOK /\ SubTypeOK /\ AlertTypeOK /\ SwapTypeOK
  /\ RollTypeOK /\ PortfolioTypeOK

(* What is shown is right: of one wallet, what MCPortfolio says of it; of  *)
(* a mint, the statistics of its day.                                      *)
ShownRight == WalletShownRight /\ StatsAreOfTheDay
===============================================================================
