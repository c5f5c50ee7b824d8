---------------------------- MODULE Wallets_proofs ----------------------------
(***************************************************************************)
(* Proofs about wallets and what their users are told: the login by a      *)
(* signed nonce, the default wallet of a user, the subscriptions of        *)
(* channels and the alerts of wallets.                                     *)
(***************************************************************************)
EXTENDS WalletLogin, DefaultWallet, Subscriptions, WalletAlerts, FiniteSetTheorems, TLAPS

(***************************************************************************)
(* WalletLogin.  A nonce logs in once and a wallet makes one account, for  *)
(* any number of requests that do not overlap.                             *)
(***************************************************************************)
LoginSpec == LoginInit /\ [][LoginStep]_loginVars

LoginKinds  == {"none", "nonce", "login", "link", "add", "edit", "remove"}
Stages == {"idle", "setNonce", "clear", "makeUser", "setOwner", "merge", "delete", "done"}
LoginRequest  == [kind : LoginKinds, pc : Stages, found : WalletRow]

(* LoginTypeOK without its bound on accepted; a request that logs in, or   *)
(* removes, has found a row.                                               *)
LoginTypesOK ==
  /\ wallet \in WalletRow
  /\ wallet.id = NoRow => wallet = NoWallet
  /\ logins \in [Logins -> LoginRequest]
  /\ \A r \in Logins : logins[r].pc \in {"clear", "makeUser", "setOwner", "delete"} => logins[r].found.id # NoRow
  /\ accepted \in [Logins -> Nat]
  /\ owners \subseteq Logins \X Logins
  /\ disturbed \in BOOLEAN

At(stage) == {r \in Logins : logins[r].pc = stage}

Alone == \A r, s \in Pending : r = s

(* What a request that nobody overlapped may rely on: the row is still the *)
(* one it found, and a user is made for a wallet nobody owns.              *)
RequestOK(r) ==
  /\ logins[r].pc \in {"setNonce", "clear", "merge", "delete"} => logins[r].found = wallet
  /\ logins[r].pc \in {"makeUser", "setOwner"} => logins[r].found.id = wallet.id
  /\ logins[r].pc = "makeUser" => wallet.owner = Nobody

(* A row or a nonce was made by a request that is over, and so was a nonce *)
(* accepted; the one in the row was not accepted yet unless it is about to *)
(* be cleared.                                                             *)
NoncesOK ==
  /\ wallet.id # NoRow => wallet.id \in At("done")
  /\ wallet.nonce # Spent => wallet.nonce \in At("done")
  /\ \A n \in Logins : accepted[n] > 0 => n \in At("done")
  /\ \A n \in Logins : accepted[n] <= 1
  /\ wallet.nonce # Spent /\ At("clear") = {} => accepted[wallet.nonce] = 0

(* Whoever made a user for the row sets the owner before it ends.          *)
OwnersOK ==
  /\ \A a \in owners : a[1] \in At("done")
  /\ \A a, b \in owners : a[1] = b[1] => a = b
  /\ (\E a \in owners : a[1] = wallet.id) /\ wallet.owner = Nobody => At("setOwner") # {}

WhileAlone == Alone /\ NoncesOK /\ OwnersOK /\ \A r \in Logins : RequestOK(r)

LoginInv == LoginTypesOK /\ (~disturbed => WhileAlone)

LEMMA RowFields ==
  ASSUME NEW w \in WalletRow
  PROVE  w.id \in 0..MaxLogins /\ w.nonce \in 0..MaxLogins /\ w.owner \in 0..Someone
  BY Zenon DEF WalletRow

(* The row named, with another nonce, and with another owner.              *)
Issued(w, i, n) == [w EXCEPT !.id = i, !.nonce = n]

LEMMA RowIssued ==
  ASSUME NEW w \in WalletRow, NEW i \in 0..MaxLogins, NEW n \in 0..MaxLogins
  PROVE  /\ Issued(w, i, n) \in WalletRow
         /\ Issued(w, i, n).id = i
         /\ Issued(w, i, n).nonce = n
         /\ Issued(w, i, n).owner = w.owner
  BY Zenon DEF WalletRow, Issued

LEMMA RowCleared ==
  ASSUME NEW w \in WalletRow, NEW n \in 0..MaxLogins
  PROVE  /\ [w EXCEPT !.nonce = n] \in WalletRow
         /\ [w EXCEPT !.nonce = n].id = w.id
         /\ [w EXCEPT !.nonce = n].nonce = n
         /\ [w EXCEPT !.nonce = n].owner = w.owner
  BY Zenon DEF WalletRow

LEMMA RowOwned ==
  ASSUME NEW w \in WalletRow, NEW o \in 0..Someone
  PROVE  /\ [w EXCEPT !.owner = o] \in WalletRow
         /\ [w EXCEPT !.owner = o].id = w.id
         /\ [w EXCEPT !.owner = o].nonce = w.nonce
         /\ [w EXCEPT !.owner = o].owner = o
  BY Zenon DEF WalletRow

LEMMA NoWalletIsRow ==
  NoWallet \in WalletRow /\ NoWallet.id = NoRow /\ NoWallet.nonce = Spent /\ NoWallet.owner = Nobody
  BY MaxLoginsAssumption DEF NoWallet, WalletRow, NoRow, Spent, Nobody, Someone

(* The row a request found, and the id of the one it saves.                *)
LEMMA FoundFields ==
  ASSUME LoginTypesOK, NEW r \in Logins
  PROVE  /\ logins[r].found \in WalletRow /\ logins[r].kind \in LoginKinds
         /\ logins[r].found.id \in 0..MaxLogins
         /\ logins[r].found.nonce \in 0..MaxLogins /\ logins[r].found.owner \in 0..Someone
         /\ IdOf(r) \in Logins
         /\ logins[r].found.id = NoRow => IdOf(r) = r
         /\ logins[r].found.id # NoRow => IdOf(r) = logins[r].found.id
<1>1. logins[r] \in LoginRequest
  BY DEF LoginTypesOK
<1>2. logins[r].found \in WalletRow /\ logins[r].kind \in LoginKinds
  BY <1>1, Zenon DEF LoginRequest
<1>3. /\ logins[r].found.id \in 0..MaxLogins
      /\ logins[r].found.nonce \in 0..MaxLogins /\ logins[r].found.owner \in 0..Someone
  BY <1>2, RowFields
<1> QED
  BY <1>2, <1>3, MaxLoginsAssumption DEF IdOf, NoRow, Logins

(* A request begins: it finds the row as it is.                            *)
LEMMA OpenEffect ==
  ASSUME NEW r \in Logins, NEW kind \in LoginKinds, NEW pc \in Stages,
         LoginTypesOK, Open(r, kind, pc)
  PROVE  /\ logins' \in [Logins -> LoginRequest]
         /\ logins[r].pc = "idle"
         /\ logins'[r].pc = pc /\ logins'[r].kind = kind /\ logins'[r].found = wallet
         /\ \A q \in Logins : q # r => logins'[q] = logins[q]
         /\ wallet' = wallet /\ owners' = owners
         /\ disturbed' \in BOOLEAN
         /\ ~disturbed' => ~disturbed /\ Pending = {}
<1> DEFINE q == [logins[r] EXCEPT !.kind = kind, !.pc = pc, !.found = wallet]
<1>1. logins[r] \in LoginRequest /\ wallet \in WalletRow
  BY DEF LoginTypesOK
<1>2. q \in LoginRequest /\ q.kind = kind /\ q.pc = pc /\ q.found = wallet
  BY <1>1 DEF LoginRequest
<1>3. logins' = [logins EXCEPT ![r] = q]
  BY DEF Open, LoginTypesOK
<1> HIDE DEF q
<1>4. /\ logins[r].pc = "idle"
      /\ disturbed' = (disturbed \/ Pending # {})
      /\ wallet' = wallet /\ owners' = owners
  BY Zenon DEF Open
<1>5. disturbed' \in BOOLEAN /\ (~disturbed' => ~disturbed /\ Pending = {})
  BY <1>4, Zenon DEF LoginTypesOK
<1>6. /\ logins' \in [Logins -> LoginRequest]
      /\ logins'[r] = q
      /\ \A s \in Logins : s # r => logins'[s] = logins[s]
  BY <1>2, <1>3 DEF LoginTypesOK
<1> QED
  BY <1>2, <1>4, <1>5, <1>6, Zenon

(* A request goes on.                                                      *)
LEMMA ThenEffect ==
  ASSUME NEW r \in Logins, NEW pc \in Stages, LoginTypesOK, Then(r, pc)
  PROVE  /\ logins' \in [Logins -> LoginRequest]
         /\ logins'[r].pc = pc
         /\ logins'[r].kind = logins[r].kind /\ logins'[r].found = logins[r].found
         /\ \A q \in Logins : q # r => logins'[q] = logins[q]
<1> DEFINE q == [logins[r] EXCEPT !.pc = pc]
<1>1. logins[r] \in LoginRequest
  BY DEF LoginTypesOK
<1>2. q \in LoginRequest /\ q.pc = pc /\ q.kind = logins[r].kind /\ q.found = logins[r].found
  BY <1>1 DEF LoginRequest
<1>3. logins' = [logins EXCEPT ![r] = q]
  BY DEF Then, LoginTypesOK
<1> HIDE DEF q
<1> QED
  BY <1>2, <1>3 DEF LoginTypesOK

(* A request that is over stays over, and the others stand where they did. *)
LEMMA OthersStay ==
  ASSUME NEW r \in Logins, logins[r].pc # "done",
         \A q \in Logins : q # r => logins'[q] = logins[q]
  PROVE  /\ At("done") \subseteq At("done")'
         /\ \A q \in Logins : q # r => (q \in Pending <=> q \in Pending')
         /\ \A q \in Logins : q # r =>
              (q \in At("clear") <=> q \in At("clear")')
              /\ (q \in At("setOwner") <=> q \in At("setOwner")')
  BY DEF At, Pending

LEMMA LoginInvInit == LoginInit => LoginInv
<1> SUFFICES ASSUME LoginInit PROVE LoginInv
  OBVIOUS
<1> DEFINE none == [kind |-> "none", pc |-> "idle", found |-> NoWallet]
<1>1. none \in LoginRequest /\ none.pc = "idle"
  BY NoWalletIsRow DEF LoginRequest, LoginKinds, Stages
<1>2. wallet = NoWallet /\ logins = [r \in Logins |-> none] /\ accepted = [r \in Logins |-> 0]
        /\ owners = {} /\ disturbed = FALSE
  BY Zenon DEF LoginInit
<1> HIDE DEF none
<1>3. LoginTypesOK
  <2>1. disturbed \in BOOLEAN
    BY <1>2, Zenon
  <2> QED
    BY <1>1, <1>2, <2>1, NoWalletIsRow DEF LoginTypesOK
<1>4. WhileAlone
  BY <1>1, <1>2, NoWalletIsRow DEF WhileAlone, Alone, NoncesOK, OwnersOK, RequestOK, Pending, At
<1> QED
  BY <1>3, <1>4 DEF LoginInv

(* Under ~disturbed: what a begun request leaves as it was.                   *)
LEMMA OpenKeeps ==
  ASSUME NEW r \in Logins, NEW kind \in LoginKinds, NEW pc \in Stages \ {"makeUser", "setOwner", "done"},
         LoginInv, Open(r, kind, pc), ~disturbed'
  PROVE  /\ Alone' /\ OwnersOK' /\ \A q \in Logins : RequestOK(q)'
         /\ WhileAlone /\ At("clear") = {} /\ At("done") \subseteq At("done")'
<1>1. LoginTypesOK
  BY DEF LoginInv
<1>2. /\ logins[r].pc = "idle"
      /\ logins'[r].pc = pc /\ logins'[r].found = wallet
      /\ \A q \in Logins : q # r => logins'[q] = logins[q]
      /\ wallet' = wallet /\ owners' = owners
      /\ ~disturbed /\ Pending = {}
  BY <1>1, OpenEffect
<1>3. WhileAlone
  BY <1>2, Zenon DEF LoginInv
<1>4. At("clear") = {} /\ At("setOwner") = {}
  BY <1>2 DEF At, Pending
<1>5. At("done") \subseteq At("done")'
  BY <1>2, OthersStay
<1>6. Alone'
  BY <1>2 DEF Alone, Pending
<1>7. OwnersOK'
  BY <1>2, <1>3, <1>4, <1>5 DEF WhileAlone, OwnersOK
<1>8. \A q \in Logins : RequestOK(q)'
  BY <1>2, <1>3 DEF WhileAlone, RequestOK, Pending
<1> QED
  BY <1>3, <1>4, <1>5, <1>6, <1>7, <1>8

(* Under ~disturbed: a request that goes on is the only one.                  *)
LEMMA ThenKeeps ==
  ASSUME NEW r \in Logins, NEW pc \in Stages \ {"idle"},
         LoginInv, Then(r, pc), r \in Pending, ~disturbed
  PROVE  /\ WhileAlone /\ Alone'
         /\ At("done") \subseteq At("done")'
         /\ \A q \in Logins : q # r => q \notin Pending /\ q \notin Pending'
         /\ \A q \in Logins : q # r => RequestOK(q)'
         /\ logins'[r].pc = pc /\ logins'[r].found = logins[r].found
<1>1. LoginTypesOK /\ WhileAlone
  BY DEF LoginInv
<1>2. /\ logins'[r].pc = pc /\ logins'[r].found = logins[r].found
      /\ \A q \in Logins : q # r => logins'[q] = logins[q]
  BY <1>1, ThenEffect
<1>3. \A q \in Logins : q # r => q \notin Pending
  BY <1>1 DEF WhileAlone, Alone
<1>4. logins[r].pc # "done"
  BY DEF Pending
<1>5. /\ At("done") \subseteq At("done")'
      /\ \A q \in Logins : q # r => q \notin Pending'
  BY <1>2, <1>3, <1>4, OthersStay
<1>6. Alone'
  BY <1>5 DEF Alone, Pending
<1>7. \A q \in Logins : q # r => RequestOK(q)'
  BY <1>5 DEF RequestOK, Pending
<1> QED
  BY <1>1, <1>2, <1>3, <1>5, <1>6, <1>7

LEMMA OpenTypes ==
  ASSUME LoginTypesOK, NEW r \in Logins, NEW kind \in LoginKinds, NEW pc \in Stages \ {"makeUser", "setOwner", "done"},
         Open(r, kind, pc), accepted' \in [Logins -> Nat], pc \in {"clear", "delete"} => wallet.id # NoRow
  PROVE  LoginTypesOK'
<1>1. /\ logins' \in [Logins -> LoginRequest]
      /\ logins'[r].pc = pc /\ logins'[r].found = wallet
      /\ \A q \in Logins : q # r => logins'[q] = logins[q]
      /\ wallet' = wallet /\ owners' = owners /\ disturbed' \in BOOLEAN
  BY OpenEffect
<1>2. \A q \in Logins : logins'[q].pc \in {"clear", "makeUser", "setOwner", "delete"} => logins'[q].found.id # NoRow
  BY <1>1 DEF LoginTypesOK
<1> QED
  BY <1>1, <1>2 DEF LoginTypesOK

(* Requests that only read the row when they begin.                        *)
LEMMA ReadKeeps ==
  ASSUME NEW r \in Logins, LoginInv,
         GetSolanaNonce(r) \/ AddWallet(r) \/ EditRow(r) \/ RemoveRow(r)
  PROVE  LoginInv'
<1>1. PICK kind \in LoginKinds, pc \in Stages \ {"makeUser", "setOwner", "done"} :
        /\ Open(r, kind, pc) /\ accepted' = accepted
        /\ pc \in {"clear", "delete"} => wallet.id # NoRow
  <2>1. CASE GetSolanaNonce(r)
    BY <2>1 DEF GetSolanaNonce, LoginKinds, Stages
  <2>2. CASE AddWallet(r)
    BY <2>2 DEF AddWallet, LoginKinds, Stages
  <2>3. CASE EditRow(r)
    BY <2>3 DEF EditRow, LoginKinds, Stages
  <2>4. CASE RemoveRow(r)
    BY <2>4 DEF RemoveRow, LoginKinds, Stages
  <2> QED
    BY <2>1, <2>2, <2>3, <2>4
<1>2. LoginTypesOK'
  BY <1>1, OpenTypes DEF LoginInv, LoginTypesOK
<1>3. ASSUME ~disturbed' PROVE WhileAlone'
  <2>1. /\ Alone' /\ OwnersOK' /\ \A q \in Logins : RequestOK(q)'
        /\ WhileAlone /\ At("clear") = {} /\ At("done") \subseteq At("done")'
    BY <1>1, <1>3, OpenKeeps
  <2>2. wallet' = wallet
    BY <1>1 DEF Open
  <2>3. NoncesOK'
    BY <1>1, <2>1, <2>2 DEF WhileAlone, NoncesOK
  <2> QED
    BY <2>1, <2>3 DEF WhileAlone
<1> QED
  BY <1>2, <1>3 DEF LoginInv

(* The nonce accepted was in the row, so it was not accepted before.       *)
LEMMA AcceptKeeps ==
  ASSUME NEW r \in Logins, NEW kind \in {"login", "link"}, LoginInv, Accept(r, kind)
  PROVE  LoginInv'
<1> DEFINE n == wallet.nonce
<1>1. /\ Open(r, kind, "clear") /\ n # Spent
      /\ accepted' = [accepted EXCEPT ![n] = @ + 1]
  BY DEF Accept
<1>2. kind \in LoginKinds /\ "clear" \in Stages \ {"makeUser", "setOwner", "done"}
  BY DEF LoginKinds, Stages
<1>3. n \in Logins
  BY <1>1, RowFields, MaxLoginsAssumption DEF LoginInv, LoginTypesOK, Logins, Spent
<1>4. accepted' \in [Logins -> Nat]
  BY <1>1, <1>3 DEF LoginInv, LoginTypesOK
<1>5. LoginTypesOK'
  <2>1. LoginTypesOK /\ wallet.id # NoRow
    BY <1>1, NoWalletIsRow DEF LoginInv, LoginTypesOK
  <2> QED
    BY <1>1, <1>2, <1>4, <2>1, OpenTypes
<1>6. ASSUME ~disturbed' PROVE WhileAlone'
  <2>1. /\ Alone' /\ OwnersOK' /\ \A q \in Logins : RequestOK(q)'
        /\ WhileAlone /\ At("clear") = {} /\ At("done") \subseteq At("done")'
    BY <1>1, <1>2, <1>6, OpenKeeps
  <2>2. wallet' = wallet
    BY <1>1 DEF Open
  <2>3. r \in At("clear")'
    BY <1>1, <1>2, OpenEffect DEF LoginInv, At
  <2>4. /\ n \in At("done") /\ accepted[n] = 0
        /\ \A m \in Logins : accepted[m] > 0 => m \in At("done")
        /\ \A m \in Logins : accepted[m] <= 1
    BY <1>1, <2>1 DEF WhileAlone, NoncesOK
  <2>5. accepted'[n] = 1 /\ \A m \in Logins : m # n => accepted'[m] = accepted[m]
    BY <1>1, <1>3, <2>4 DEF LoginInv, LoginTypesOK
  <2>6. \A m \in Logins : accepted'[m] <= 1 /\ (accepted'[m] > 0 => m \in At("done"))
    BY <2>4, <2>5
  <2> HIDE DEF n
  <2>7. NoncesOK'
    BY <2>1, <2>2, <2>3, <2>4, <2>6 DEF WhileAlone, NoncesOK, n
  <2> QED
    BY <2>1, <2>7 DEF WhileAlone
<1> QED
  BY <1>5, <1>6 DEF LoginInv

(* The types after a step of a request that wrote a row, or none.          *)
LEMMA StepTypes ==
  ASSUME LoginTypesOK, NEW r \in Logins, NEW pc \in Stages, Then(r, pc),
         wallet' \in WalletRow, wallet'.id = NoRow => wallet' = NoWallet,
         pc \in {"clear", "makeUser", "setOwner", "delete"} => logins[r].found.id # NoRow,
         accepted' = accepted, owners' \subseteq Logins \X Logins, disturbed' \in BOOLEAN
  PROVE  LoginTypesOK'
<1>1. /\ logins' \in [Logins -> LoginRequest]
      /\ logins'[r].pc = pc /\ logins'[r].found = logins[r].found
      /\ \A q \in Logins : q # r => logins'[q] = logins[q]
  BY ThenEffect
<1>2. \A q \in Logins : logins'[q].pc \in {"clear", "makeUser", "setOwner", "delete"} => logins'[q].found.id # NoRow
  BY <1>1 DEF LoginTypesOK
<1> QED
  BY <1>1, <1>2 DEF LoginTypesOK

LEMMA SetNonceKeeps ==
  ASSUME NEW r \in Logins, LoginInv, SetNonce(r) PROVE LoginInv'
<1> USE MaxLoginsAssumption
<1> DEFINE named == Issued(wallet, IdOf(r), r)
<1>1. /\ logins[r].pc = "setNonce" /\ Then(r, "done")
      /\ wallet' = IF SameRow(r) THEN named ELSE wallet
      /\ accepted' = accepted /\ owners' = owners /\ disturbed' = disturbed
  BY DEF SetNonce, Issued
<1>2. LoginTypesOK /\ r \in Pending /\ "done" \in Stages \ {"idle"} /\ r \in 0..MaxLogins /\ r # Spent
  BY <1>1 DEF LoginInv, Pending, Stages, Logins, Spent
<1>3. /\ named \in WalletRow /\ named.id = IdOf(r) /\ named.nonce = r /\ named.owner = wallet.owner
      /\ IdOf(r) \in Logins /\ IdOf(r) # NoRow
  <2>1. IdOf(r) \in Logins /\ IdOf(r) \in 0..MaxLogins /\ IdOf(r) # NoRow
    BY <1>2, FoundFields DEF Logins, NoRow
  <2>2. wallet \in WalletRow
    BY <1>2 DEF LoginTypesOK
  <2>3. /\ named \in WalletRow /\ named.id = IdOf(r)
        /\ named.nonce = r /\ named.owner = wallet.owner
    BY <1>2, <2>1, <2>2, RowIssued, ZenonT(120)
  <2> QED
    BY <2>1, <2>3, Zenon
<1>4. wallet' = named \/ wallet' = wallet
  BY <1>1, Zenon
<1> HIDE DEF named
<1>5. LoginTypesOK'
  <2>1. wallet' \in WalletRow /\ (wallet'.id = NoRow => wallet' = NoWallet)
    BY <1>2, <1>3, <1>4 DEF LoginTypesOK
  <2>2. owners' \subseteq Logins \X Logins /\ disturbed' \in BOOLEAN
    BY <1>1, <1>2, Zenon DEF LoginTypesOK
  <2> QED
    BY <1>1, <1>2, <2>1, <2>2, StepTypes
<1>6. ASSUME ~disturbed' PROVE WhileAlone'
  <2>1. /\ WhileAlone /\ Alone'
        /\ At("done") \subseteq At("done")'
        /\ \A q \in Logins : q # r => q \notin Pending /\ q \notin Pending'
        /\ \A q \in Logins : q # r => RequestOK(q)'
        /\ logins'[r].pc = "done"
    BY <1>1, <1>2, <1>6, ThenKeeps
  <2>2. logins[r].found = wallet
    BY <1>1, <2>1 DEF WhileAlone, RequestOK
  <2>3. wallet' = named
    BY <1>1, <2>2, Zenon DEF SameRow
  <2>4. r \in At("done")' /\ r \notin At("done")
    BY <1>1, <2>1 DEF At
  <2>5. accepted[r] = 0
    BY <1>2, <2>1, <2>4 DEF WhileAlone, NoncesOK, LoginTypesOK
  <2>6. IdOf(r) \in At("done")' /\ (IdOf(r) # wallet.id => IdOf(r) \notin At("done"))
    BY <2>1, <2>2, <2>4 DEF IdOf, WhileAlone, NoncesOK
  <2>7. NoncesOK'
    BY <1>1, <1>3, <2>1, <2>3, <2>4, <2>5, <2>6 DEF WhileAlone, NoncesOK
  <2>8. At("setOwner") = {}
    BY <1>1, <2>1 DEF At, Pending
  <2>9. OwnersOK'
    <3>1. \A a \in owners : a[1] = named.id => a[1] = wallet.id
      BY <1>3, <2>1, <2>6 DEF WhileAlone, OwnersOK
    <3> QED
      BY <1>1, <1>3, <2>1, <2>3, <2>8, <3>1 DEF WhileAlone, OwnersOK
  <2>10. RequestOK(r)'
    BY <2>1 DEF RequestOK
  <2> QED
    BY <2>1, <2>7, <2>9, <2>10 DEF WhileAlone
<1> QED
  BY <1>5, <1>6 DEF LoginInv

LEMMA ClearKeeps ==
  ASSUME NEW r \in Logins, LoginInv, Clear(r) PROVE LoginInv'
<1> USE MaxLoginsAssumption
<1> DEFINE next == AfterClear(r)
           cleared == [wallet EXCEPT !.nonce = Spent]
<1>1. /\ logins[r].pc = "clear" /\ Then(r, next)
      /\ wallet' = IF SameRow(r) THEN cleared ELSE wallet
      /\ accepted' = accepted /\ owners' = owners /\ disturbed' = disturbed
  BY DEF Clear
<1>2. /\ next \in {"setOwner", "makeUser", "done"} /\ (next = "makeUser" => logins[r].found.owner = Nobody)
      /\ next \in Stages \ {"idle"}
  BY DEF AfterClear, Stages
<1>3. LoginTypesOK /\ r \in Pending /\ logins[r].found.id # NoRow
  BY <1>1 DEF LoginInv, LoginTypesOK, Pending
<1>4. cleared \in WalletRow /\ cleared.id = wallet.id /\ cleared.nonce = Spent /\ cleared.owner = wallet.owner
  <2>1. Spent \in 0..MaxLogins /\ wallet \in WalletRow
    BY <1>3 DEF Spent, LoginTypesOK
  <2> QED
    BY <2>1, RowCleared
<1> HIDE DEF cleared, next
<1>5. LoginTypesOK'
  <2>1. wallet' \in WalletRow /\ (wallet'.id = NoRow => wallet' = NoWallet)
    BY <1>1, <1>3, <1>4 DEF LoginTypesOK, SameRow
  <2>2. owners' \subseteq Logins \X Logins /\ disturbed' \in BOOLEAN
    BY <1>1, <1>3, Zenon DEF LoginTypesOK
  <2> QED
    BY <1>1, <1>2, <1>3, <2>1, <2>2, StepTypes
<1>6. ASSUME ~disturbed' PROVE WhileAlone'
  <2>1. /\ WhileAlone /\ Alone'
        /\ At("done") \subseteq At("done")'
        /\ \A q \in Logins : q # r => q \notin Pending /\ q \notin Pending'
        /\ \A q \in Logins : q # r => RequestOK(q)'
        /\ logins'[r].pc = next /\ logins'[r].found = logins[r].found
    BY <1>1, <1>2, <1>3, <1>6, ThenKeeps
  <2>2. logins[r].found = wallet /\ wallet' = cleared
    BY <1>1, <2>1 DEF WhileAlone, RequestOK, SameRow
  <2>3. NoncesOK'
    BY <1>1, <1>4, <2>1, <2>2 DEF WhileAlone, NoncesOK
  <2>4. At("setOwner") = {}
    BY <1>1, <2>1 DEF At, Pending
  <2>5. OwnersOK'
    BY <1>1, <1>4, <2>1, <2>2, <2>4 DEF WhileAlone, OwnersOK
  <2>6. RequestOK(r)'
    BY <1>2, <1>4, <2>1, <2>2 DEF RequestOK
  <2> QED
    BY <2>1, <2>3, <2>5, <2>6 DEF WhileAlone
<1> QED
  BY <1>5, <1>6 DEF LoginInv

(* Nobody made a user for the row before: it would have an owner, or that  *)
(* request would still be about to set it.                                 *)
LEMMA MakeUserKeeps ==
  ASSUME NEW r \in Logins, LoginInv, MakeUser(r) PROVE LoginInv'
<1> DEFINE mine == <<logins[r].found.id, r>>
<1>1. /\ logins[r].pc = "makeUser" /\ Then(r, "setOwner")
      /\ owners' = owners \cup {mine}
      /\ wallet' = wallet /\ accepted' = accepted /\ disturbed' = disturbed
  BY DEF MakeUser
<1>2. LoginTypesOK /\ r \in Pending /\ "setOwner" \in Stages \ {"idle"} /\ logins[r].found.id # NoRow
  BY <1>1 DEF LoginInv, LoginTypesOK, Pending, Stages
<1>3. mine \in Logins \X Logins /\ mine[1] = logins[r].found.id
  BY <1>2, FoundFields
<1> HIDE DEF mine
<1>4. LoginTypesOK'
  <2>1. wallet' \in WalletRow /\ (wallet'.id = NoRow => wallet' = NoWallet)
    BY <1>1, <1>2 DEF LoginTypesOK
  <2>2. owners' \subseteq Logins \X Logins
    BY <1>1, <1>2, <1>3 DEF LoginTypesOK
  <2>3. disturbed' \in BOOLEAN
    BY <1>1, <1>2, Zenon DEF LoginTypesOK
  <2> QED
    BY <1>1, <1>2, <2>1, <2>2, <2>3, StepTypes
<1>5. ASSUME ~disturbed' PROVE WhileAlone'
  <2>1. /\ WhileAlone /\ Alone'
        /\ At("done") \subseteq At("done")'
        /\ \A q \in Logins : q # r => q \notin Pending /\ q \notin Pending'
        /\ \A q \in Logins : q # r => RequestOK(q)'
        /\ logins'[r].pc = "setOwner" /\ logins'[r].found = logins[r].found
    BY <1>1, <1>2, <1>5, ThenKeeps
  <2>2. At("clear") = {} /\ At("setOwner") = {}
    BY <1>1, <2>1 DEF At, Pending
  <2>3. NoncesOK'
    BY <1>1, <2>1, <2>2 DEF WhileAlone, NoncesOK
  <2>4. wallet.owner = Nobody /\ logins[r].found.id = wallet.id
    BY <1>1, <2>1 DEF WhileAlone, RequestOK
  <2>5. mine[1] = wallet.id /\ wallet.id \in At("done") /\ \A a \in owners : a[1] # wallet.id
    BY <1>2, <1>3, <2>1, <2>2, <2>4 DEF WhileAlone, NoncesOK, OwnersOK
  <2>6. r \in At("setOwner")'
    BY <2>1 DEF At
  <2>7. OwnersOK'
    BY <1>1, <2>1, <2>5, <2>6 DEF WhileAlone, OwnersOK
  <2>8. RequestOK(r)'
    BY <1>1, <2>1, <2>4 DEF RequestOK
  <2> QED
    BY <2>1, <2>3, <2>7, <2>8 DEF WhileAlone
<1> QED
  BY <1>4, <1>5 DEF LoginInv

LEMMA SetOwnerKeeps ==
  ASSUME NEW r \in Logins, LoginInv, SetOwner(r) PROVE LoginInv'
<1> USE MaxLoginsAssumption
<1> DEFINE o == IF logins[r].kind = "login" THEN r ELSE Someone
           owned == [wallet EXCEPT !.owner = o]
<1>1. /\ logins[r].pc = "setOwner" /\ Then(r, "done")
      /\ wallet' = IF SameRow(r) THEN owned ELSE wallet
      /\ accepted' = accepted /\ owners' = owners /\ disturbed' = disturbed
  BY DEF SetOwner
<1>2. LoginTypesOK /\ r \in Pending /\ "done" \in Stages \ {"idle"} /\ logins[r].found.id # NoRow
  BY <1>1 DEF LoginInv, LoginTypesOK, Pending, Stages
<1>3. o \in 0..Someone /\ o # Nobody
  BY DEF Someone, Nobody, Logins
<1> HIDE DEF o
<1>4. owned \in WalletRow /\ owned.id = wallet.id /\ owned.nonce = wallet.nonce /\ owned.owner = o
  <2>1. wallet \in WalletRow
    BY <1>2 DEF LoginTypesOK
  <2> QED
    BY <1>3, <2>1, RowOwned
<1> HIDE DEF owned
<1>5. LoginTypesOK'
  <2>1. wallet' \in WalletRow /\ (wallet'.id = NoRow => wallet' = NoWallet)
    BY <1>1, <1>2, <1>4 DEF LoginTypesOK, SameRow
  <2>2. owners' \subseteq Logins \X Logins /\ disturbed' \in BOOLEAN
    BY <1>1, <1>2, Zenon DEF LoginTypesOK
  <2> QED
    BY <1>1, <1>2, <2>1, <2>2, StepTypes
<1>6. ASSUME ~disturbed' PROVE WhileAlone'
  <2>1. /\ WhileAlone /\ Alone'
        /\ At("done") \subseteq At("done")'
        /\ \A q \in Logins : q # r => q \notin Pending /\ q \notin Pending'
        /\ \A q \in Logins : q # r => RequestOK(q)'
        /\ logins'[r].pc = "done"
    BY <1>1, <1>2, <1>6, ThenKeeps
  <2>2. At("clear") = {}
    BY <1>1, <2>1 DEF At, Pending
  <2>3. wallet' = owned
    BY <1>1, <2>1 DEF WhileAlone, RequestOK, SameRow
  <2>4. NoncesOK'
    BY <1>1, <1>4, <2>1, <2>2, <2>3 DEF WhileAlone, NoncesOK
  <2>5. OwnersOK'
    BY <1>1, <1>3, <1>4, <2>1, <2>3 DEF WhileAlone, OwnersOK
  <2>6. RequestOK(r)'
    BY <2>1 DEF RequestOK
  <2> QED
    BY <2>1, <2>4, <2>5, <2>6 DEF WhileAlone
<1> QED
  BY <1>5, <1>6 DEF LoginInv

(* The row saved is the row as it is but for its owner, or a new one       *)
(* without a nonce.                                                        *)
LEMMA MergeKeeps ==
  ASSUME NEW r \in Logins, LoginInv, NEW nonce \in 0..MaxLogins, NEW owner \in 0..Someone,
         Merge(r, nonce, owner)
  PROVE  LoginInv'
<1> USE MaxLoginsAssumption
<1> DEFINE saved == [id |-> IdOf(r), nonce |-> nonce, owner |-> owner]
<1>1. /\ logins[r].pc = "merge" /\ Then(r, "done")
      /\ logins[r].kind = "add" => nonce = logins[r].found.nonce /\ owner = Someone
      /\ wallet' = IF wallet.id \in {NoRow, logins[r].found.id} THEN saved ELSE wallet
      /\ accepted' = accepted /\ owners' = owners
  BY DEF Merge
<1>2. disturbed' = (disturbed \/ nonce # logins[r].found.nonce
                    \/ (logins[r].kind # "add" /\ owner # logins[r].found.owner))
  BY Zenon DEF Merge
<1>3. LoginTypesOK /\ r \in Pending /\ "done" \in Stages \ {"idle"}
  BY <1>1 DEF LoginInv, Pending, Stages
<1>4. disturbed' \in BOOLEAN /\ (~disturbed' => ~disturbed /\ nonce = logins[r].found.nonce
        /\ (logins[r].kind = "add" \/ owner = logins[r].found.owner))
  BY <1>2, <1>3, Zenon DEF LoginTypesOK
<1>5. saved \in WalletRow /\ saved.id = IdOf(r) /\ saved.id # NoRow /\ saved.nonce = nonce /\ saved.owner = owner
  <2>1. IdOf(r) \in 0..MaxLogins /\ IdOf(r) # NoRow
    BY <1>3, FoundFields DEF Logins, NoRow
  <2> QED
    BY <2>1 DEF WalletRow
<1> HIDE DEF saved
<1>6. LoginTypesOK'
  <2>1. wallet' \in WalletRow /\ (wallet'.id = NoRow => wallet' = NoWallet)
    BY <1>1, <1>3, <1>5 DEF LoginTypesOK
  <2>2. owners' \subseteq Logins \X Logins
    BY <1>1, <1>3 DEF LoginTypesOK
  <2> QED
    BY <1>1, <1>3, <1>4, <2>1, <2>2, StepTypes
<1>7. ASSUME ~disturbed' PROVE WhileAlone'
  <2>1. /\ WhileAlone /\ Alone'
        /\ At("done") \subseteq At("done")'
        /\ \A q \in Logins : q # r => q \notin Pending /\ q \notin Pending'
        /\ \A q \in Logins : q # r => RequestOK(q)'
        /\ logins'[r].pc = "done"
    BY <1>1, <1>3, <1>4, <1>7, ThenKeeps
  <2>2. logins[r].found = wallet /\ wallet' = saved
    BY <1>1, <2>1 DEF WhileAlone, RequestOK
  <2>3. nonce = wallet.nonce /\ (owner = Someone \/ owner = wallet.owner)
    BY <1>1, <1>4, <1>7, <2>2
  <2>4. At("clear") = {} /\ r \in At("done")' /\ r \notin At("done")
    BY <1>1, <2>1 DEF At, Pending
  <2>5. IdOf(r) \in At("done")' /\ (IdOf(r) # wallet.id => IdOf(r) \notin At("done"))
    BY <2>1, <2>2, <2>4 DEF IdOf, WhileAlone, NoncesOK
  <2>6. NoncesOK'
    BY <1>1, <1>5, <2>1, <2>2, <2>3, <2>4, <2>5 DEF WhileAlone, NoncesOK
  <2>7. OwnersOK'
    <3>1. \A a \in owners : a[1] = saved.id => a[1] = wallet.id
      BY <1>5, <2>1, <2>5 DEF WhileAlone, OwnersOK
    <3>2. At("setOwner") = {} /\ Someone # Nobody
      BY <1>1, <2>1 DEF At, Pending, Someone, Nobody
    <3> QED
      BY <1>1, <1>5, <2>1, <2>2, <2>3, <3>1, <3>2 DEF WhileAlone, OwnersOK
  <2>8. RequestOK(r)'
    BY <2>1 DEF RequestOK
  <2> QED
    BY <2>1, <2>6, <2>7, <2>8 DEF WhileAlone
<1> QED
  BY <1>6, <1>7 DEF LoginInv

LEMMA DeleteKeeps ==
  ASSUME NEW r \in Logins, LoginInv, Delete(r) PROVE LoginInv'
<1>1. /\ logins[r].pc = "delete" /\ Then(r, "done")
      /\ wallet' = IF SameRow(r) THEN NoWallet ELSE wallet
      /\ accepted' = accepted /\ owners' = owners /\ disturbed' = disturbed
  BY DEF Delete
<1>2. LoginTypesOK /\ r \in Pending /\ "done" \in Stages \ {"idle"}
  BY <1>1 DEF LoginInv, Pending, Stages
<1>3. LoginTypesOK'
  <2>1. wallet' \in WalletRow /\ (wallet'.id = NoRow => wallet' = NoWallet)
    BY <1>1, <1>2, NoWalletIsRow DEF LoginTypesOK
  <2>2. owners' \subseteq Logins \X Logins /\ disturbed' \in BOOLEAN
    BY <1>1, <1>2, Zenon DEF LoginTypesOK
  <2> QED
    BY <1>1, <1>2, <2>1, <2>2, StepTypes
<1>4. ASSUME ~disturbed' PROVE WhileAlone'
  <2>1. /\ WhileAlone /\ Alone'
        /\ At("done") \subseteq At("done")'
        /\ \A q \in Logins : q # r => q \notin Pending /\ q \notin Pending'
        /\ \A q \in Logins : q # r => RequestOK(q)'
        /\ logins'[r].pc = "done"
    BY <1>1, <1>2, <1>4, ThenKeeps
  <2>2. wallet' = NoWallet
    BY <1>1, <2>1 DEF WhileAlone, RequestOK, SameRow
  <2>3. NoncesOK'
    BY <1>1, <2>1, <2>2, NoWalletIsRow DEF WhileAlone, NoncesOK
  <2>4. NoRow \notin At("done")
    BY DEF At, Logins, NoRow
  <2>5. OwnersOK'
    BY <1>1, <2>1, <2>2, <2>4, NoWalletIsRow DEF WhileAlone, OwnersOK
  <2>6. RequestOK(r)'
    BY <2>1 DEF RequestOK
  <2> QED
    BY <2>1, <2>3, <2>5, <2>6 DEF WhileAlone
<1> QED
  BY <1>3, <1>4 DEF LoginInv

LEMMA StopKeeps ==
  ASSUME NEW r \in Logins, LoginInv, Stop(r) PROVE LoginInv'
<1>1. /\ r \in Pending /\ Then(r, "done")
      /\ wallet' = wallet /\ accepted' = accepted /\ owners' = owners
  BY DEF Stop
<1>2. disturbed' = (disturbed \/ logins[r].pc \in {"clear", "setOwner"})
  BY Zenon DEF Stop
<1>3. LoginTypesOK /\ "done" \in Stages \ {"idle"}
  BY DEF LoginInv, Stages
<1>4. disturbed' \in BOOLEAN /\ (~disturbed' => ~disturbed /\ logins[r].pc \notin {"clear", "setOwner"})
  BY <1>2, <1>3, Zenon DEF LoginTypesOK
<1>5. LoginTypesOK'
  <2>1. wallet' \in WalletRow /\ (wallet'.id = NoRow => wallet' = NoWallet)
    BY <1>1, <1>3 DEF LoginTypesOK
  <2>2. owners' \subseteq Logins \X Logins
    BY <1>1, <1>3 DEF LoginTypesOK
  <2> QED
    BY <1>1, <1>3, <1>4, <2>1, <2>2, StepTypes
<1>6. ASSUME ~disturbed' PROVE WhileAlone'
  <2>1. /\ WhileAlone /\ Alone'
        /\ At("done") \subseteq At("done")'
        /\ \A q \in Logins : q # r => q \notin Pending /\ q \notin Pending'
        /\ \A q \in Logins : q # r => RequestOK(q)'
        /\ logins'[r].pc = "done"
    BY <1>1, <1>3, <1>4, <1>6, ThenKeeps
  <2>2. At("clear") = {} /\ At("setOwner") = {}
    BY <1>4, <1>6, <2>1 DEF At, Pending
  <2>3. NoncesOK'
    BY <1>1, <2>1, <2>2 DEF WhileAlone, NoncesOK
  <2>4. OwnersOK'
    BY <1>1, <2>1, <2>2 DEF WhileAlone, OwnersOK
  <2>5. RequestOK(r)'
    BY <2>1 DEF RequestOK
  <2> QED
    BY <2>1, <2>3, <2>4, <2>5 DEF WhileAlone
<1> QED
  BY <1>5, <1>6 DEF LoginInv

LEMMA LoginInvStep == LoginInv /\ [LoginStep]_loginVars => LoginInv'
<1> SUFFICES ASSUME LoginInv, [LoginStep]_loginVars PROVE LoginInv'
  OBVIOUS
<1>1. CASE LoginStep
  <2>1. PICK r \in Logins :
          \/ GetSolanaNonce(r) \/ Accept(r, "login") \/ Accept(r, "link") \/ AddWallet(r)
          \/ EditRow(r) \/ RemoveRow(r)
          \/ SetNonce(r) \/ Clear(r) \/ MakeUser(r) \/ SetOwner(r) \/ Delete(r) \/ Stop(r)
          \/ \E nonce \in 0..MaxLogins, owner \in 0..Someone : Merge(r, nonce, owner)
    BY <1>1, Zenon DEF LoginStep
  <2>2. CASE GetSolanaNonce(r) \/ AddWallet(r) \/ EditRow(r) \/ RemoveRow(r)
    BY <2>2, ReadKeeps, Zenon
  <2>3. CASE Accept(r, "login") \/ Accept(r, "link")
    BY <2>3, AcceptKeeps
  <2>4. CASE SetNonce(r) \/ Clear(r) \/ MakeUser(r) \/ SetOwner(r) \/ Delete(r) \/ Stop(r)
    BY <2>4, SetNonceKeeps, ClearKeeps, MakeUserKeeps, SetOwnerKeeps, DeleteKeeps, StopKeeps, Zenon
  <2>5. CASE \E nonce \in 0..MaxLogins, owner \in 0..Someone : Merge(r, nonce, owner)
    BY <2>5, MergeKeeps, Zenon
  <2> QED
    BY <2>1, <2>2, <2>3, <2>4, <2>5, Zenon
<1>2. CASE UNCHANGED loginVars
  BY <1>2 DEF loginVars, LoginInv, LoginTypesOK, WhileAlone, Alone, NoncesOK, OwnersOK,
              RequestOK, Pending, At
<1> QED
  BY <1>1, <1>2

(* Unless requests overlap or stop half way, the signature of a nonce is   *)
(* accepted once and a row of the wallet makes at most one account,        *)
(* whoever it is linked to and however it is edited.                       *)
THEOREM NonceAlwaysLogsInOnce == LoginSpec => []NonceLogsInOnce
<1>1. LoginInit => LoginInv
  BY LoginInvInit
<1>2. LoginInv /\ [LoginStep]_loginVars => LoginInv'
  BY LoginInvStep
<1>3. LoginInv => NonceLogsInOnce
  BY Zenon DEF LoginInv, WhileAlone, NoncesOK, OwnersOK, NonceLogsInOnce
<1> QED
  BY <1>1, <1>2, <1>3, PTL DEF LoginSpec

(* A request accepts one signature at most and requests are numbered as    *)
(* they come, so no nonce is accepted more often than there are requests.  *)
AcceptedOK ==
  \A n \in Logins : /\ accepted[n] <= MaxLogins
                    /\ \A r \in Logins : logins[r].pc = "idle" => accepted[n] <= r - 1

LEMMA AcceptedStep == LoginInv /\ AcceptedOK /\ [LoginStep]_loginVars => AcceptedOK'
<1> SUFFICES ASSUME LoginInv, AcceptedOK, [LoginStep]_loginVars PROVE AcceptedOK'
  OBVIOUS
<1>0. LoginTypesOK /\ MaxLogins \in Nat
  BY MaxLoginsAssumption DEF LoginInv
<1>1. ASSUME NEW r \in Logins, NEW kind \in LoginKinds, NEW pc \in Stages \ {"idle"}, Open(r, kind, pc),
             UNCHANGED accepted
      PROVE  AcceptedOK'
  <2>1. \A q \in Logins : logins'[q].pc = "idle" => logins[q].pc = "idle"
    BY <1>0, <1>1, OpenEffect
  <2> QED BY <1>1, <2>1 DEF AcceptedOK
<1>2. ASSUME NEW r \in Logins, NEW pc \in Stages \ {"idle"}, Then(r, pc), UNCHANGED accepted
      PROVE  AcceptedOK'
  <2>1. \A q \in Logins : logins'[q].pc = "idle" => logins[q].pc = "idle"
    BY <1>0, <1>2, ThenEffect
  <2> QED BY <1>2, <2>1 DEF AcceptedOK
<1>3. ASSUME NEW r \in Logins, NEW kind \in LoginKinds, Accept(r, kind) PROVE AcceptedOK'
  <2>1. /\ Open(r, kind, "clear") /\ wallet.nonce # Spent
        /\ accepted' = [accepted EXCEPT ![wallet.nonce] = @ + 1]
    BY <1>3 DEF Accept
  <2>2. wallet.nonce \in Logins /\ accepted \in [Logins -> Nat] /\ wallet \in WalletRow
    BY <1>0, <2>1, RowFields DEF LoginTypesOK, Logins, Spent
  <2>3. "clear" \in Stages
    BY DEF Stages
  <2>4. /\ logins[r].pc = "idle" /\ logins'[r].pc = "clear"
        /\ \A q \in Logins : q # r => logins'[q] = logins[q]
    BY <1>0, <2>1, <2>3, OpenEffect
  <2>5. \A q \in 1..(r - 1) : logins[q].pc # "idle"
    BY <2>1 DEF Open
  <2>6. ASSUME NEW n \in Logins
        PROVE  /\ accepted'[n] <= MaxLogins
               /\ \A q \in Logins : logins'[q].pc = "idle" => accepted'[n] <= q - 1
    <3>1. accepted'[n] \in Nat /\ accepted'[n] <= accepted[n] + 1
      BY <2>1, <2>2
    <3>2. accepted[n] <= r - 1 /\ r \in 1..MaxLogins /\ accepted[n] \in Nat
      BY <2>2, <2>4 DEF AcceptedOK, Logins
    <3>3. ASSUME NEW q \in Logins, logins'[q].pc = "idle" PROVE r <= q - 1
      <4>1. q # r /\ logins[q].pc = "idle" /\ q \in 1..MaxLogins
        BY <2>4, <3>3 DEF Logins
      <4>2. ~(q < r)
        BY <2>5, <3>2, <4>1
      <4> QED BY <3>2, <4>1, <4>2
    <3>4. accepted'[n] <= r
      BY <3>1, <3>2
    <3>5. accepted'[n] <= MaxLogins
      BY <1>0, <3>1, <3>2, <3>4
    <3>6. ASSUME NEW q \in Logins, logins'[q].pc = "idle" PROVE accepted'[n] <= q - 1
      <4>1. r <= q - 1 /\ q \in 1..MaxLogins
        BY <3>3, <3>6 DEF Logins
      <4> QED BY <3>1, <3>2, <3>4, <4>1
    <3> QED BY <3>5, <3>6
  <2> QED BY <2>6 DEF AcceptedOK
<1>4. ASSUME NEW r \in Logins,
             NEW nonce, NEW owner,
             GetSolanaNonce(r) \/ Accept(r, "login") \/ Accept(r, "link") \/ AddWallet(r)
               \/ EditRow(r) \/ RemoveRow(r) \/ SetNonce(r) \/ Clear(r) \/ MakeUser(r)
               \/ SetOwner(r) \/ Merge(r, nonce, owner) \/ Delete(r) \/ Stop(r)
      PROVE  AcceptedOK'
  <2>1. CASE GetSolanaNonce(r)
    BY <1>1, <2>1 DEF GetSolanaNonce, LoginKinds, Stages
  <2>2. CASE Accept(r, "login") \/ Accept(r, "link")
    BY <1>3, <2>2 DEF LoginKinds
  <2>3. CASE AddWallet(r)
    BY <1>1, <2>3 DEF AddWallet, LoginKinds, Stages
  <2>9. CASE EditRow(r)
    BY <1>1, <2>9 DEF EditRow, LoginKinds, Stages
  <2>10. CASE RemoveRow(r)
    BY <1>1, <2>10 DEF RemoveRow, LoginKinds, Stages
  <2>4. CASE SetNonce(r)
    BY <1>2, <2>4 DEF SetNonce, Stages
  <2>5. CASE Clear(r)
    BY <1>2, <2>5 DEF Clear, AfterClear, Stages
  <2>6. CASE MakeUser(r)
    BY <1>2, <2>6 DEF MakeUser, Stages
  <2>7. CASE SetOwner(r)
    BY <1>2, <2>7 DEF SetOwner, Stages
  <2>8. CASE Merge(r, nonce, owner) \/ Delete(r) \/ Stop(r)
    BY <1>2, <2>8 DEF Merge, Delete, Stop, Stages
  <2> QED BY <1>4, <2>1, <2>2, <2>3, <2>4, <2>5, <2>6, <2>7, <2>8, <2>9, <2>10
<1>5. CASE UNCHANGED loginVars
  BY <1>5 DEF loginVars, AcceptedOK
<1>6. CASE LoginStep
  <2>1. PICK r \in Logins :
          \/ GetSolanaNonce(r) \/ Accept(r, "login") \/ Accept(r, "link") \/ AddWallet(r)
          \/ EditRow(r) \/ RemoveRow(r)
          \/ SetNonce(r) \/ Clear(r) \/ MakeUser(r) \/ SetOwner(r) \/ Delete(r) \/ Stop(r)
          \/ \E nonce \in 0..MaxLogins, owner \in 0..Someone : Merge(r, nonce, owner)
    BY <1>6, Zenon DEF LoginStep
  <2>2. PICK nonce, owner :
          \/ GetSolanaNonce(r) \/ Accept(r, "login") \/ Accept(r, "link") \/ AddWallet(r)
          \/ EditRow(r) \/ RemoveRow(r) \/ SetNonce(r) \/ Clear(r) \/ MakeUser(r)
          \/ SetOwner(r) \/ Merge(r, nonce, owner) \/ Delete(r) \/ Stop(r)
    BY <2>1, Zenon
  <2> QED
    BY <1>4, <2>2, Zenon
<1> QED BY <1>5, <1>6

(* The row, the requests and what was accepted have their types.           *)
THEOREM LoginTypes == LoginSpec => []LoginTypeOK
<1>1. LoginInit => AcceptedOK
  BY MaxLoginsAssumption DEF LoginInit, AcceptedOK, Logins
<1>2. LoginInv /\ AcceptedOK => LoginTypeOK
  <2> SUFFICES ASSUME LoginInv, AcceptedOK PROVE LoginTypeOK
    OBVIOUS
  <2>1. accepted \in [Logins -> 0..MaxLogins]
    BY MaxLoginsAssumption DEF LoginInv, LoginTypesOK, AcceptedOK
  <2> QED BY <2>1, Zenon DEF LoginInv, LoginTypesOK, LoginTypeOK, LoginRequest, LoginKinds, Stages
<1> QED
  BY <1>1, <1>2, AcceptedStep, LoginInvInit, LoginInvStep, PTL DEF LoginSpec

(***************************************************************************)
(* DefaultWallet.  One default wallet for each user, for any number of     *)
(* users, wallets and requests.                                            *)
(***************************************************************************)
DefaultSpec == DefaultInit /\ [][DefaultStep]_defaultVars

SetterStages == {"clear", "set", "merged", "update", "insert"}
SetterRequest == [pc : SetterStages, owner : RowOwners, address : Addresses,
                  default : BOOLEAN, columns : SUBSET RowColumns]
Setter == {Idle} \cup SetterRequest

DefaultTables ==
  /\ ownerOf \in [Addresses -> RowOwners \cup {Unborn, Removed}]
  /\ isDefault \subseteq WalletTable
  /\ setters \in [Setters -> Setter]

SettersAlone == \A s, t \in Setting : s = t

(* Nothing was linked since the request began: its wallet, if it is still  *)
(* there, is the user's, and the user's other wallets are cleared.         *)
SetterOK(s) ==
  LET r == setters[s] IN
  /\ r.owner \in Owners /\ r.address \in Addresses /\ ownerOf[r.address] \in {r.owner, Removed}
  /\ r.pc = "set" => \A a \in isDefault : ownerOf[a] # r.owner

OneEach ==
  \A a, b \in isDefault : ownerOf[a] = ownerOf[b] /\ ownerOf[a] \in Owners => a = b

WhileUntangled == SettersAlone /\ OneEach /\ \A s \in Setting : SetterOK(s)

DefaultInv == DefaultTables /\ (~tangled => WhileUntangled)

LEMMA IdleIsSetter == Idle \in Setter /\ Idle.pc = "idle"
  BY DEF Idle, Setter

LEMMA RequestIsSetter ==
  ASSUME NEW r \in Setter, r.pc # "idle" PROVE r \in SetterRequest
  BY IdleIsSetter DEF Setter

LEMMA DefaultInvInit == DefaultInit => DefaultInv
<1> SUFFICES ASSUME DefaultInit PROVE DefaultInv
  OBVIOUS
<1>1. DefaultTables
  BY IdleIsSetter DEF DefaultInit, DefaultTables, RowOwners
<1>2. Setting = {}
  BY IdleIsSetter DEF DefaultInit, Setting
<1>3. WhileUntangled
  BY <1>2 DEF DefaultInit, WhileUntangled, SettersAlone, OneEach
<1> QED
  BY <1>1, <1>3 DEF DefaultInv

(* A step that makes no wallet a default, changes the hands of no default  *)
(* wallet and of no wallet that is being set, and begins no setting.       *)
LEMMA NothingSet ==
  ASSUME WhileUntangled, isDefault' \subseteq isDefault,
         \A b \in isDefault' : ownerOf'[b] = ownerOf[b],
         \A s \in Setting' : s \in Setting /\ setters'[s] = setters[s],
         \A s \in Setting' : ownerOf'[setters[s].address] \in {ownerOf[setters[s].address], Removed}
  PROVE  WhileUntangled'
<1>1. SettersAlone'
  BY DEF WhileUntangled, SettersAlone
<1>2. OneEach'
  BY DEF WhileUntangled, OneEach
<1>3. ASSUME NEW s \in Setting' PROVE SetterOK(s)'
  <2>1. SetterOK(s) /\ setters'[s] = setters[s]
    BY <1>3 DEF WhileUntangled
  <2> QED
    BY <1>3, <2>1 DEF SetterOK
<1> QED
  BY <1>1, <1>2, <1>3 DEF WhileUntangled

(* A request takes a new stage, or ends.                                   *)
LEMMA StagesTaken ==
  ASSUME DefaultTables, NEW s \in Setters, NEW r \in Setter, setters' = [setters EXCEPT ![s] = r]
  PROVE  /\ setters' \in [Setters -> Setter] /\ setters'[s] = r
         /\ \A t \in Setters : t # s => setters'[t] = setters[t]
         /\ r.pc \notin {"clear", "set"} => \A t \in Setting' : t \in Setting /\ t # s /\ setters'[t] = setters[t]
  BY DEF DefaultTables, Setting

LEMMA SetDefaultKeeps ==
  ASSUME DefaultInv, NEW s \in Setters, NEW u \in Owners, NEW a \in Addresses, SetDefaultForAddress(s, u, a)
  PROVE  DefaultInv'
<1> DEFINE new == [pc |-> "clear", owner |-> u, address |-> a, default |-> TRUE, columns |-> {}]
<1>1. new \in Setter /\ new.pc = "clear" /\ new.owner = u /\ new.address = a
  BY DEF Setter, SetterRequest, SetterStages, RowOwners
<1> HIDE DEF new
<1>2. /\ ownerOf[a] = u /\ setters' = [setters EXCEPT ![s] = new]
      /\ UNCHANGED <<ownerOf, isDefault>>
      /\ tangled' = (tangled \/ Setting # {})
  BY Zenon DEF SetDefaultForAddress, BeginSetter, new
<1>3. setters' \in [Setters -> Setter] /\ setters'[s] = new /\ \A t \in Setters : t # s => setters'[t] = setters[t]
  BY <1>1, <1>2, StagesTaken DEF DefaultInv
<1>4. DefaultTables'
  BY <1>2, <1>3 DEF DefaultInv, DefaultTables, WalletTable
<1>5. ASSUME ~tangled' PROVE WhileUntangled'
  <2>1. Setting = {} /\ WhileUntangled
    BY <1>2, <1>5, Zenon DEF DefaultInv
  <2>2. Setting' = {s}
    BY <1>1, <1>3, <2>1 DEF Setting
  <2>3. SettersAlone'
    BY <2>2 DEF SettersAlone
  <2>4. OneEach'
    BY <1>2, <2>1 DEF WhileUntangled, OneEach
  <2>5. SetterOK(s)'
    BY <1>1, <1>2, <1>3 DEF SetterOK
  <2> QED
    BY <2>2, <2>3, <2>4, <2>5 DEF WhileUntangled
<1> QED
  BY <1>4, <1>5 DEF DefaultInv

LEMMA ClearOthersKeeps ==
  ASSUME DefaultInv, NEW s \in Setters, ClearOthers(s) PROVE DefaultInv'
<1> DEFINE new == [setters[s] EXCEPT !.pc = "set"]
<1>1. setters[s] \in SetterRequest
  BY RequestIsSetter DEF DefaultInv, DefaultTables, ClearOthers
<1>2. new \in Setter /\ new.pc = "set" /\ new.owner = setters[s].owner /\ new.address = setters[s].address
  BY <1>1 DEF Setter, SetterRequest, SetterStages
<1>3. setters' = [setters EXCEPT ![s] = new]
  BY DEF ClearOthers, DefaultInv, DefaultTables
<1> HIDE DEF new
<1>4. /\ setters[s].pc = "clear"
      /\ isDefault' = {a \in isDefault : ownerOf[a] # setters[s].owner}
      /\ UNCHANGED <<ownerOf, tangled>>
  BY DEF ClearOthers
<1>5. setters' \in [Setters -> Setter] /\ setters'[s] = new /\ \A t \in Setters : t # s => setters'[t] = setters[t]
  BY <1>2, <1>3, StagesTaken DEF DefaultInv
<1>6. DefaultTables'
  BY <1>4, <1>5 DEF DefaultInv, DefaultTables, WalletTable
<1>7. ASSUME ~tangled' PROVE WhileUntangled'
  <2>1. WhileUntangled /\ s \in Setting
    BY <1>4, <1>7, Zenon DEF DefaultInv, Setting
  <2>2. Setting = {s} /\ Setting' = {s}
    BY <1>2, <1>5, <2>1 DEF WhileUntangled, SettersAlone, Setting
  <2>3. SettersAlone'
    BY <2>2 DEF SettersAlone
  <2>4. OneEach'
    BY <1>4, <2>1 DEF WhileUntangled, OneEach
  <2>5. SetterOK(s)'
    BY <1>2, <1>4, <1>5, <2>1 DEF WhileUntangled, SetterOK
  <2> QED
    BY <2>2, <2>3, <2>4, <2>5 DEF WhileUntangled
<1> QED
  BY <1>6, <1>7 DEF DefaultInv

LEMMA SetOneKeeps ==
  ASSUME DefaultInv, NEW s \in Setters, SetOne(s) PROVE DefaultInv'
<1>1. /\ setters[s].pc = "set" /\ isDefault' = isDefault \cup ({setters[s].address} \cap WalletTable)
      /\ setters' = [setters EXCEPT ![s] = Idle] /\ UNCHANGED <<ownerOf, tangled>>
  BY DEF SetOne, EndSetter
<1>2. setters' \in [Setters -> Setter] /\ \A t \in Setting' : t \in Setting /\ t # s /\ setters'[t] = setters[t]
  BY <1>1, IdleIsSetter, StagesTaken DEF DefaultInv
<1>3. DefaultTables'
  BY <1>1, <1>2 DEF DefaultInv, DefaultTables, WalletTable
<1>4. ASSUME ~tangled' PROVE WhileUntangled'
  <2>1. WhileUntangled /\ s \in Setting
    BY <1>1, <1>4, Zenon DEF DefaultInv, Setting
  <2>2. Setting' = {}
    BY <1>2, <2>1 DEF WhileUntangled, SettersAlone
  <2>3. setters[s].address \in WalletTable => ownerOf[setters[s].address] = setters[s].owner
    BY <2>1, NamesAssumption DEF WhileUntangled, SetterOK, WalletTable, RowOwners, NoOwner, Removed
  <2>4. \A a \in isDefault : ownerOf[a] # setters[s].owner
    BY <1>1, <2>1 DEF WhileUntangled, SetterOK
  <2>5. OneEach'
    BY <1>1, <2>1, <2>3, <2>4 DEF WhileUntangled, OneEach
  <2> QED
    BY <2>2, <2>5 DEF WhileUntangled, SettersAlone
<1> QED
  BY <1>3, <1>4 DEF DefaultInv

LEMMA InsertWalletKeeps ==
  ASSUME DefaultInv, NEW u \in RowOwners, NEW a \in Addresses, NEW d \in BOOLEAN, InsertWallet(a, u, d)
  PROVE  DefaultInv'
<1>1. /\ ownerOf[a] = Unborn /\ ownerOf' = [ownerOf EXCEPT ![a] = u] /\ setters' = setters
      /\ isDefault' = IF d THEN isDefault \cup {a} ELSE isDefault
  BY DEF InsertWallet
<1>2. ~tangled' => ~tangled /\ ~d
  BY Zenon DEF InsertWallet
<1>3. DefaultTables'
  BY <1>1 DEF DefaultInv, DefaultTables, WalletTable
<1>4. ASSUME ~tangled' PROVE WhileUntangled'
  <2>1. WhileUntangled /\ isDefault' = isDefault
    BY <1>1, <1>2, <1>4, Zenon DEF DefaultInv
  <2>2. Unborn \notin RowOwners /\ Unborn # Removed
    BY NamesAssumption DEF RowOwners, NoOwner, Unborn, Removed
  <2>3. a \notin isDefault
    BY <1>1, <2>2 DEF DefaultInv, DefaultTables, WalletTable
  <2>4. \A b \in isDefault' : ownerOf'[b] = ownerOf[b]
    BY <1>1, <2>1, <2>3 DEF DefaultInv, DefaultTables, WalletTable
  <2>5. Setting' = Setting
    BY <1>1 DEF Setting
  <2>6. ASSUME NEW s \in Setting' PROVE ownerOf'[setters[s].address] = ownerOf[setters[s].address]
    BY <1>1, <2>1, <2>2, <2>5, <2>6 DEF WhileUntangled, SetterOK, DefaultInv, DefaultTables, RowOwners
  <2> QED
    BY <1>1, <2>1, <2>4, <2>5, <2>6, NothingSet
<1> QED
  BY <1>3, <1>4 DEF DefaultInv

LEMMA LinkToKeeps ==
  ASSUME DefaultInv, NEW u \in Owners, NEW a \in Addresses, LinkTo(u, a) PROVE DefaultInv'
<1>1. /\ a \in WalletTable /\ ownerOf' = [ownerOf EXCEPT ![a] = u] /\ UNCHANGED <<isDefault, setters>>
  BY DEF LinkTo
<1>2. ~tangled' => ~tangled /\ a \notin isDefault /\ Setting = {}
  BY Zenon DEF LinkTo
<1>3. DefaultTables'
  BY <1>1 DEF DefaultInv, DefaultTables, WalletTable, RowOwners
<1>4. ASSUME ~tangled' PROVE WhileUntangled'
  <2>1. WhileUntangled /\ Setting' = {}
    BY <1>1, <1>2, <1>4 DEF DefaultInv, Setting
  <2>2. \A b \in isDefault' : ownerOf'[b] = ownerOf[b]
    BY <1>1, <1>2, <1>4 DEF DefaultInv, DefaultTables, WalletTable
  <2> QED
    BY <1>1, <2>1, <2>2, NothingSet
<1> QED
  BY <1>3, <1>4 DEF DefaultInv

LEMMA RemoveWalletKeeps ==
  ASSUME DefaultInv, NEW a \in Addresses, RemoveWallet(a) PROVE DefaultInv'
<1>1. /\ ownerOf' = [ownerOf EXCEPT ![a] = Removed] /\ isDefault' = isDefault \ {a}
      /\ UNCHANGED <<setters, tangled>>
  BY DEF RemoveWallet
<1>2. DefaultTables'
  BY <1>1 DEF DefaultInv, DefaultTables, WalletTable
<1>3. ASSUME ~tangled' PROVE WhileUntangled'
  <2>1. WhileUntangled /\ Setting' = Setting
    BY <1>1, <1>3 DEF DefaultInv, Setting
  <2>2. \A b \in isDefault' : ownerOf'[b] = ownerOf[b]
    BY <1>1 DEF DefaultInv, DefaultTables, WalletTable
  <2>3. \A s \in Setting' : ownerOf'[setters[s].address] \in {ownerOf[setters[s].address], Removed}
    BY <1>1, <2>1 DEF WhileUntangled, SetterOK, DefaultInv, DefaultTables
  <2> QED
    BY <1>1, <2>1, <2>2, <2>3, NothingSet
<1> QED
  BY <1>2, <1>3 DEF DefaultInv

LEMMA FindRowKeeps ==
  ASSUME DefaultInv, NEW s \in Setters, NEW u \in RowOwners, NEW a \in Addresses, NEW d \in BOOLEAN,
         FindRow(s, a, u, d)
  PROVE  DefaultInv'
<1> DEFINE new == [pc |-> "merged", owner |-> u, address |-> a, default |-> d, columns |-> {}]
<1>1. new \in Setter /\ new.pc \notin {"clear", "set"}
  BY DEF Setter, SetterRequest, SetterStages
<1> HIDE DEF new
<1>2. setters' = [setters EXCEPT ![s] = new] /\ UNCHANGED <<ownerOf, isDefault, tangled>>
  BY Zenon DEF FindRow, BeginSetter, new
<1>3. setters' \in [Setters -> Setter] /\ \A t \in Setting' : t \in Setting /\ setters'[t] = setters[t]
  BY <1>1, <1>2, StagesTaken DEF DefaultInv
<1>4. DefaultTables'
  BY <1>2, <1>3 DEF DefaultInv, DefaultTables, WalletTable
<1>5. ~tangled' => WhileUntangled'
  BY <1>2, <1>3, NothingSet DEF DefaultInv
<1> QED
  BY <1>4, <1>5 DEF DefaultInv

LEMMA CompareRowKeeps ==
  ASSUME DefaultInv, NEW s \in Setters, CompareRow(s) PROVE DefaultInv'
<1> DEFINE pc == IF setters[s].address \in WalletTable THEN "update" ELSE "insert"
           new == [setters[s] EXCEPT !.pc = pc, !.columns = DifferingColumns(s)]
<1>1. setters[s] \in SetterRequest /\ DifferingColumns(s) \in SUBSET RowColumns
  BY RequestIsSetter DEF DefaultInv, DefaultTables, CompareRow, DifferingColumns
<1>2. new \in Setter /\ new.pc \notin {"clear", "set"}
  BY <1>1 DEF Setter, SetterRequest, SetterStages
<1>3. setters' = [setters EXCEPT ![s] = new]
  BY DEF CompareRow, DefaultInv, DefaultTables
<1> HIDE DEF new
<1>4. UNCHANGED <<ownerOf, isDefault, tangled>>
  BY DEF CompareRow
<1>5. setters' \in [Setters -> Setter] /\ \A t \in Setting' : t \in Setting /\ setters'[t] = setters[t]
  BY <1>2, <1>3, StagesTaken DEF DefaultInv
<1>6. DefaultTables'
  BY <1>4, <1>5 DEF DefaultInv, DefaultTables, WalletTable
<1>7. ~tangled' => WhileUntangled'
  BY <1>4, <1>5, NothingSet DEF DefaultInv
<1> QED
  BY <1>6, <1>7 DEF DefaultInv

(* What a save writes, once its request has ended.                         *)
LEMMA WriteColumnsKeeps ==
  ASSUME DefaultInv, NEW s \in Setters, EndSetter(s), setters[s].pc \in {"update", "insert"},
         NEW columns \in SUBSET RowColumns, WriteColumns(s, columns),
         setters[s].address \in WalletTable \/ columns = RowColumns
  PROVE  DefaultInv'
<1> DEFINE a == setters[s].address
           d == IF "default" \in columns THEN setters[s].default ELSE a \in isDefault
<1>1. /\ ownerOf' = IF "owner" \in columns THEN [ownerOf EXCEPT ![a] = setters[s].owner] ELSE ownerOf
      /\ isDefault' = IF d THEN isDefault \cup {a} ELSE isDefault \ {a}
  BY DEF WriteColumns
<1>2. ~tangled' => /\ ~tangled /\ ~("default" \in columns /\ d)
                   /\ "owner" \in columns => ~d /\ Setting = {}
  BY Zenon DEF WriteColumns
<1>3. setters' \in [Setters -> Setter] /\ \A t \in Setting' : t \in Setting /\ setters'[t] = setters[t]
  BY IdleIsSetter, StagesTaken DEF DefaultInv, EndSetter
<1>4. setters[s].owner \in RowOwners /\ a \in Addresses
  BY RequestIsSetter DEF DefaultInv, DefaultTables, SetterRequest
<1>5. DefaultTables'
  <2>1. ownerOf' \in [Addresses -> RowOwners \cup {Unborn, Removed}]
    BY <1>1, <1>4 DEF DefaultInv, DefaultTables
  <2>2. \A b \in Addresses : b # a => ownerOf'[b] = ownerOf[b]
    BY <1>1 DEF DefaultInv, DefaultTables
  <2>3. ownerOf'[a] \in RowOwners
    BY <1>1, <1>4 DEF DefaultInv, DefaultTables, WalletTable, RowColumns
  <2>4. isDefault' \subseteq WalletTable'
    BY <1>1, <1>4, <2>2, <2>3 DEF DefaultInv, DefaultTables, WalletTable
  <2> QED
    BY <1>3, <2>1, <2>4 DEF DefaultTables
<1>6. ASSUME ~tangled' PROVE WhileUntangled'
  <2>1. WhileUntangled
    BY <1>2, <1>6 DEF DefaultInv
  <2>2. isDefault' \subseteq isDefault
    BY <1>1, <1>2, <1>6
  <2>3. \A b \in isDefault' : ownerOf'[b] = ownerOf[b]
    BY <1>1, <1>2, <1>6, <2>2 DEF DefaultInv, DefaultTables, WalletTable
  <2>4. \A t \in Setting' : ownerOf' = ownerOf
    BY <1>1, <1>2, <1>3, <1>6
  <2> QED
    BY <1>3, <2>1, <2>2, <2>3, <2>4, NothingSet
<1> QED
  BY <1>5, <1>6 DEF DefaultInv

LEMMA NothingWritten ==
  ASSUME DefaultInv, NEW s \in Setters, EndSetter(s), UNCHANGED <<ownerOf, isDefault, tangled>>
  PROVE  DefaultInv'
<1>1. setters' \in [Setters -> Setter] /\ \A t \in Setting' : t \in Setting /\ setters'[t] = setters[t]
  BY IdleIsSetter, StagesTaken DEF DefaultInv, EndSetter
<1>2. DefaultTables'
  BY <1>1 DEF DefaultInv, DefaultTables, WalletTable
<1>3. ~tangled' => WhileUntangled'
  BY <1>1, NothingSet DEF DefaultInv
<1> QED
  BY <1>2, <1>3 DEF DefaultInv

LEMMA UpdateRowKeeps ==
  ASSUME DefaultInv, NEW s \in Setters, UpdateRow(s) PROVE DefaultInv'
<1>1. setters[s].columns \in SUBSET RowColumns
  BY RequestIsSetter DEF DefaultInv, DefaultTables, UpdateRow, SetterRequest
<1>2. CASE setters[s].address \in WalletTable
  BY <1>1, <1>2, WriteColumnsKeeps DEF UpdateRow, WalletTable
<1>3. CASE setters[s].address \notin WalletTable
  BY <1>3, NothingWritten DEF UpdateRow
<1> QED
  BY <1>2, <1>3

LEMMA InsertRowKeeps ==
  ASSUME DefaultInv, NEW s \in Setters, InsertRow(s) PROVE DefaultInv'
<1>1. CASE setters[s].address \notin WalletTable
  BY <1>1, WriteColumnsKeeps DEF InsertRow
<1>2. CASE setters[s].address \in WalletTable
  BY <1>2, NothingWritten DEF InsertRow
<1> QED
  BY <1>1, <1>2

LEMMA DefaultInvStep == DefaultInv /\ [DefaultStep]_defaultVars => DefaultInv'
<1> SUFFICES ASSUME DefaultInv, [DefaultStep]_defaultVars PROVE DefaultInv'
  OBVIOUS
<1>1. CASE UNCHANGED defaultVars
  BY <1>1 DEF defaultVars, DefaultInv, DefaultTables, WhileUntangled, SettersAlone, OneEach, SetterOK,
              Setting, WalletTable
<1> QED
  BY <1>1, SetDefaultKeeps, ClearOthersKeeps, SetOneKeeps, InsertWalletKeeps, LinkToKeeps, RemoveWalletKeeps,
     FindRowKeeps, CompareRowKeeps, UpdateRowKeeps, InsertRowKeeps, Zenon DEF DefaultStep

LEMMA DefaultInvAlways == DefaultSpec => []DefaultInv
  BY DefaultInvInit, DefaultInvStep, PTL DEF DefaultSpec

(* A set whose elements are all the same has at most one.                  *)
LEMMA AtMostOne ==
  ASSUME NEW S, \A a, b \in S : a = b PROVE Cardinality(S) <= 1
<1>1. CASE S = {}
  BY <1>1, FS_EmptySet
<1>2. CASE S # {}
  <2>1. PICK a \in S : TRUE
    BY <1>2
  <2>2. S = {a}
    BY <2>1
  <2> QED
    BY <2>2, FS_Singleton
<1> QED
  BY <1>1, <1>2

(* A user has at most one default wallet, however requests, additions,     *)
(* removals, links and saves interleave, unless two requests set the       *)
(* default at once, a default wallet changes hands, or a row is written    *)
(* with is_default true.                                                   *)
THEOREM OneDefaultAlways == DefaultSpec => []OneDefault
<1>1. DefaultInv => OneDefault
  <2> SUFFICES ASSUME DefaultInv, ~tangled, NEW u \in Owners
               PROVE  Cardinality({a \in isDefault : ownerOf[a] = u}) <= 1
    BY DEF OneDefault
  <2>1. OneEach
    BY DEF DefaultInv, WhileUntangled
  <2>2. \A x, y \in {a \in isDefault : ownerOf[a] = u} : x = y
    BY <2>1, NamesAssumption DEF OneEach
  <2> QED
    BY <2>2, AtMostOne, Zenon
<1> QED
  BY <1>1, DefaultInvAlways, PTL

TangledOK == tangled \in BOOLEAN

LEMMA TangledStep == TangledOK /\ [DefaultStep]_defaultVars => TangledOK'
  BY Zenon DEF TangledOK, DefaultStep, defaultVars, SetDefaultForAddress, ClearOthers, SetOne, LinkTo, RemoveWallet,
                  InsertWallet, FindRow, CompareRow, UpdateRow, InsertRow, WriteColumns

(* The owners, the default wallets and the requests have their types.      *)
THEOREM DefaultTypes == DefaultSpec => []DefaultTypeOK
<1>1. DefaultInit => TangledOK
  BY DEF DefaultInit, TangledOK
<1>2. DefaultInv /\ TangledOK => DefaultTypeOK
  <2> SUFFICES ASSUME DefaultInv, TangledOK, NEW s \in Setters 
               PROVE  setters[s].pc \in {"idle", "clear", "set", "merged", "update", "insert"}
    BY DEF DefaultInv, DefaultTables, TangledOK, DefaultTypeOK
  <2>1. setters[s] \in Setter
    BY DEF DefaultInv, DefaultTables
  <2> QED BY <2>1, IdleIsSetter DEF Setter, SetterRequest, SetterStages
<1>3. DefaultSpec => []TangledOK
  BY <1>1, TangledStep, PTL DEF DefaultSpec
<1> QED
  BY <1>2, <1>3, DefaultInvAlways, PTL

(***************************************************************************)
(* Subscriptions.  A verified channel was proved, for any number of tokens *)
(* and any places.                                                         *)
(***************************************************************************)
SubSpec == SubInit /\ [][SubStep]_subVars

SubRow == [place : Places \cup {Nowhere}, token : 0..MaxTokens, verified : BOOLEAN]
Check  == [token : Tokens, place : Places]

SubTypesOK ==
  /\ channel \in {"email", "chat"}
  /\ sub \in SubRow
  /\ current \in 0..MaxTokens
  /\ checking \subseteq Check
  /\ issued \in [Tokens -> Places \cup {Nowhere, "unissued"}]
  /\ proof \in [Tokens -> Places \cup {Nowhere}]

SubFlagsOK == expired \subseteq Tokens /\ crossed \in BOOLEAN

(* The token in the row is the one issued last; by e-mail it was sent to   *)
(* the address in the row.                                                 *)
TokenOK ==
  sub.token # NoToken =>
    /\ current = sub.token
    /\ channel = "email" => issued[sub.token] = sub.place

(* What a verification under way found is still so.                        *)
CheckOK(c) ==
  /\ sub.token = c.token
  /\ ~sub.verified
  /\ proof[c.token] = c.place
  /\ channel = "email" => sub.place = c.place

SubInv ==
  /\ SubTypesOK
  /\ TokenOK
  /\ ~crossed => \A c \in checking : CheckOK(c)
  /\ VerifiedIsProved

LEMMA SubInvInit == SubInit => SubInv
  BY MaxTokensAssumption
  DEF SubInit, SubInv, SubTypesOK, TokenOK, CheckOK, VerifiedIsProved, SubRow, Check, Tokens, NoToken, Nowhere

(* A new token takes the row over; verifications under way are crossed.    *)
LEMMA IssueKeeps ==
  ASSUME SubInv, NEW place \in Places \cup {Nowhere}, Issue(place)
  PROVE  SubInv'
<1>1. PICK t \in Tokens :
        /\ sub' = [place |-> place, token |-> t, verified |-> FALSE]
        /\ issued' = [issued EXCEPT ![t] = place]
        /\ current' = t
        /\ crossed' = (crossed \/ checking # {})
        /\ UNCHANGED <<channel, checking, proof>>
  BY DEF Issue
<1>2. SubTypesOK'
  <2>1. sub' \in SubRow /\ current' \in 0..MaxTokens
    BY <1>1, MaxTokensAssumption DEF SubRow, Tokens
  <2> QED
    BY <1>1, <2>1 DEF SubInv, SubTypesOK
<1>3. TokenOK'
  BY <1>1 DEF SubInv, SubTypesOK, TokenOK
<1>4. ~crossed' => \A c \in checking' : CheckOK(c)'
  BY <1>1
<1>5. VerifiedIsProved'
  BY <1>1 DEF VerifiedIsProved
<1> QED
  BY <1>2, <1>3, <1>4, <1>5 DEF SubInv

(* A token is presented: the row is the one it was issued for.             *)
LEMMA PresentKeeps ==
  ASSUME SubInv, NEW t \in Tokens, NEW p \in Places, Present(t, p)
  PROVE  SubInv'
<1> DEFINE new == [token |-> t, place |-> p]
<1>1. /\ sub.token = t /\ ~sub.verified
      /\ channel = "email" => issued[t] = p
      /\ channel = "chat" => checking = {}
      /\ checking' = checking \cup {new}
      /\ proof' = [proof EXCEPT ![t] = p]
      /\ UNCHANGED <<channel, sub, issued, current, crossed>>
  BY DEF Present
<1>2. SubTypesOK'
  BY <1>1 DEF SubInv, SubTypesOK, Check
<1>3. TokenOK'
  BY <1>1 DEF SubInv, TokenOK
<1>4. ASSUME ~crossed', NEW c \in checking' PROVE CheckOK(c)'
  <2>1. t # NoToken /\ proof'[t] = p
    BY <1>1, MaxTokensAssumption DEF Tokens, NoToken, SubInv, SubTypesOK
  <2>2. channel = "email" => sub.place = p
    BY <1>1, <2>1 DEF SubInv, TokenOK
  <2>3. CASE c = new
    BY <1>1, <2>1, <2>2, <2>3 DEF CheckOK
  <2>4. CASE c \in checking
    <3>1. CheckOK(c)
      BY <1>1, <1>4, <2>4 DEF SubInv
    <3>2. channel = "email"
      BY <1>1, <2>4 DEF SubInv, SubTypesOK
    <3>3. c.place = p
      BY <1>1, <2>2, <3>1, <3>2 DEF CheckOK
    <3> QED
      BY <1>1, <2>1, <3>1, <3>3 DEF CheckOK
  <2> QED
    BY <1>1, <2>3, <2>4
<1>5. VerifiedIsProved'
  BY <1>1 DEF VerifiedIsProved
<1> QED
  BY <1>2, <1>3, <1>4, <1>5 DEF SubInv

(* The update by id: what was found is still so, or another one crossed.   *)
LEMMA MarkVerifiedKeeps ==
  ASSUME SubInv, NEW c \in checking, MarkVerified(c)
  PROVE  SubInv'
<1>1. /\ sub' = Verified(c)
      /\ crossed' = (crossed \/ checking # {c})
      /\ checking' = checking \ {c}
      /\ UNCHANGED <<channel, issued, current, proof>>
  BY DEF MarkVerified
<1>2. /\ sub'.token = NoToken
      /\ sub'.place = IF channel = "email" THEN sub.place ELSE c.place
  BY <1>1 DEF Verified
<1>3. SubTypesOK'
  <2>1. c \in Check /\ sub \in SubRow
    BY DEF SubInv, SubTypesOK
  <2>2. sub' \in SubRow
    BY <1>1, <2>1, MaxTokensAssumption DEF Verified, SubRow, Check, NoToken
  <2> QED
    BY <1>1, <2>2 DEF SubInv, SubTypesOK
<1>4. TokenOK'
  BY <1>2 DEF TokenOK
<1>5. ~crossed' => checking' = {}
  BY <1>1
<1>6. ASSUME ~crossed' PROVE current # NoToken /\ proof[current] = sub'.place
  <2>1. CheckOK(c)
    BY <1>1, <1>6 DEF SubInv
  <2>2. c.token # NoToken
    BY MaxTokensAssumption DEF SubInv, SubTypesOK, Check, Tokens, NoToken
  <2>3. current = c.token
    BY <2>1, <2>2 DEF SubInv, TokenOK, CheckOK
  <2> QED
    BY <1>2, <2>1, <2>2, <2>3 DEF CheckOK
<1>7. VerifiedIsProved'
  BY <1>1, <1>6 DEF VerifiedIsProved
<1> QED
  BY <1>3, <1>4, <1>5, <1>7 DEF SubInv

LEMMA DisconnectKeeps == ASSUME SubInv, Disconnect PROVE SubInv'
<1>1. /\ sub' = [place |-> Nowhere, token |-> NoToken, verified |-> FALSE]
      /\ current' = NoToken
      /\ crossed' = (crossed \/ checking # {})
      /\ UNCHANGED <<channel, issued, checking, proof>>
  BY DEF Disconnect
<1>2. SubTypesOK'
  <2>1. sub' \in SubRow /\ current' \in 0..MaxTokens
    BY <1>1, MaxTokensAssumption DEF SubRow, NoToken
  <2> QED
    BY <1>1, <2>1 DEF SubInv, SubTypesOK
<1> QED
  BY <1>1, <1>2 DEF SubInv, TokenOK, VerifiedIsProved

(* Neither a verification that ends nor time changes the row.              *)
LEMMA RowStays ==
  ASSUME SubInv, checking' \subseteq checking,
         UNCHANGED <<channel, sub, issued, current, proof, crossed>>
  PROVE  SubInv'
<1>1. SubTypesOK' /\ TokenOK' /\ VerifiedIsProved'
  BY DEF SubInv, SubTypesOK, TokenOK, VerifiedIsProved
<1>2. ASSUME ~crossed', NEW c \in checking' PROVE CheckOK(c)'
  BY <1>2 DEF SubInv, CheckOK
<1> QED
  BY <1>1, <1>2 DEF SubInv

LEMMA SubInvStep == SubInv /\ [SubStep]_subVars => SubInv'
<1> SUFFICES ASSUME SubInv, [SubStep]_subVars PROVE SubInv'
  OBVIOUS
<1>1. ASSUME NEW p \in Places, InitiateVerification(p) PROVE SubInv'
  BY <1>1, IssueKeeps DEF InitiateVerification
<1>2. CASE GenerateToken
  BY <1>2, IssueKeeps DEF GenerateToken
<1>3. ASSUME NEW p \in Places, NEW t \in Tokens, Present(t, p) PROVE SubInv'
  BY <1>3, PresentKeeps
<1>4. ASSUME NEW c \in checking, MarkVerified(c) PROVE SubInv'
  BY <1>4, MarkVerifiedKeeps
<1>5. ASSUME NEW c \in checking, VerificationFails(c) PROVE SubInv'
  BY <1>5, RowStays DEF VerificationFails
<1>6. CASE Disconnect
  BY <1>6, DisconnectKeeps
<1>7. CASE Expire
  BY <1>7, RowStays DEF Expire
<1>8. CASE UNCHANGED subVars
  BY <1>8, RowStays DEF subVars
<1> QED
  BY <1>1, <1>2, <1>3, <1>4, <1>5, <1>6, <1>7, <1>8 DEF SubStep

LEMMA SubInvAlways == SubSpec => []SubInv
  BY SubInvInit, SubInvStep, PTL DEF SubSpec

(* The two flags; the types of the rest are in SubInv.         *)
LEMMA FlagsAlways == SubSpec => []SubFlagsOK
<1>1. SubInit => SubFlagsOK
  BY Zenon DEF SubInit, SubFlagsOK
<1>2. SubInv /\ SubFlagsOK /\ [SubStep]_subVars => SubFlagsOK'
  <2> SUFFICES ASSUME SubInv, SubFlagsOK, [SubStep]_subVars PROVE SubFlagsOK'
    OBVIOUS
  <2>1. ASSUME NEW p \in Places \cup {Nowhere}, Issue(p) PROVE SubFlagsOK'
    BY <2>1, Zenon DEF Issue, SubFlagsOK
  <2>2. ASSUME NEW p \in Places, NEW t \in Tokens, Present(t, p) PROVE SubFlagsOK'
    BY <2>2, Zenon DEF Present, SubFlagsOK
  <2>3. ASSUME NEW c \in checking, MarkVerified(c) PROVE SubFlagsOK'
    BY <2>3, Zenon DEF MarkVerified, SubFlagsOK
  <2>4. ASSUME NEW c \in checking, VerificationFails(c) PROVE SubFlagsOK'
    BY <2>4, Zenon DEF VerificationFails, SubFlagsOK
  <2>5. CASE Disconnect
    BY <2>5, Zenon DEF Disconnect, SubFlagsOK
  <2>6. CASE Expire
    <3>1. sub.token \in Tokens
      BY <2>6, MaxTokensAssumption DEF Expire, SubInv, SubTypesOK, SubRow, Tokens, NoToken
    <3> QED
      BY <2>6, <3>1, Zenon DEF Expire, SubFlagsOK
  <2>7. CASE UNCHANGED subVars
    BY <2>7, Zenon DEF subVars, SubFlagsOK
  <2> QED
    BY <2>1, <2>2, <2>3, <2>4, <2>5, <2>6, <2>7
    DEF SubStep, InitiateVerification, GenerateToken
<1> QED
  BY <1>1, <1>2, SubInvAlways, PTL DEF SubSpec

(* The row, the tokens, the verifications and the flags have their types.  *)
THEOREM SubTypes == SubSpec => []SubTypeOK
<1>1. SubInv /\ SubFlagsOK => SubTypeOK
  BY DEF SubInv, SubTypesOK, SubFlagsOK, SubTypeOK, SubRow, Check
<1> QED
  BY <1>1, SubInvAlways, FlagsAlways, PTL

(* Alerts go only to the place that proved the token issued last, unless a *)
(* new token, a disconnect or a second verification came between the find  *)
(* and the update of a verification.                                       *)
THEOREM VerifiedIsAlwaysProved == SubSpec => []VerifiedIsProved
<1>1. SubInv => VerifiedIsProved
  BY DEF SubInv
<1> QED
  BY <1>1, SubInvAlways, PTL

(***************************************************************************)
(* WalletAlerts.  An alert is told the events that concern it, for any     *)
(* alerts, events and wallets.                                             *)
(***************************************************************************)
AlertPcs == {"waiting", "wallet", "alert", "remember", "done"}
Telling == {"wallet", "alert", "remember"}
Signatures == {e.signature : e \in Events} \cup {NoSignature}
Handler == [pc : AlertPcs, event : Events \cup {NoEvent}, wallets : Seq(STRING), todo : SUBSET Alerts,
            seen : [Alerts -> Signatures], alert : Alerts \cup {"none"}]

IsTold(s, x) == \E i \in DOMAIN s : s[i].signature = x
LastOf(s) == IF s = <<>> THEN NoSignature ELSE s[Len(s)].signature
NoRepeats(s) == \A i \in 2..Len(s) : s[i].signature # s[i - 1].signature

(* What a handler has read of an alert it was told, whatever the others    *)
(* did since.                                                              *)
HandlerRight(h, t) ==
  /\ h.pc \in Telling => h.event \in Events
  /\ h.pc \in {"waiting", "wallet"} => h.todo = {}
  /\ h.pc = "remember" => h.alert \in Alerts \ h.todo /\ IsTold(t[h.alert], h.event.signature)
  /\ \A a \in Alerts : h.seen[a] = NoSignature \/ IsTold(t[a], h.seen[a])

OwedRight ==
  /\ owed \in [Alerts -> SUBSET Events] /\ \A a \in Alerts : owed[a] # {} => a \in active
  /\ active \subseteq Alerts /\ edits \in 0..MaxEdits
  /\ copies \in [Alerts -> SUBSET Signatures]

AlertTables ==
  /\ last \in [Alerts -> Signatures]
  /\ deliveries \in [1..MaxDeliveries -> Handler]
  /\ told \in [Alerts -> Seq(Events)]
  /\ OwedRight

(* So was what an edit has read.                                           *)
LastIsTold ==
  \A a \in Alerts : /\ last[a] = NoSignature \/ IsTold(told[a], last[a])
                   /\ \A s \in copies[a] : s = NoSignature \/ IsTold(told[a], s)

(* What is still to be told: the handler has the alert in hand, or has not *)
(* come to the wallet yet.                                                 *)
StillToTell(h, a, e) ==
  /\ h.pc \in Telling /\ h.event = e
  /\ a \in h.todo \/ \E i \in DOMAIN h.wallets : h.wallets[i] = a.wallet

NothingMissed ==
  \A a \in Alerts : \A e \in owed[a] :
    Concerns(a, e) => IsTold(told[a], e.signature) \/ \E d \in 1..MaxDeliveries : StillToTell(deliveries[d], a, e)

(* Handlers that do not overlap: the last signature is the last event told *)
(* but between the two steps of one handler, and what it compares is       *)
(* current.                                                                *)
DeliveriesApart ==
  \A d, q \in 1..MaxDeliveries : deliveries[d].pc \in Telling /\ deliveries[q].pc \in Telling => d = q

Settled ==
  /\ \A a \in Alerts :
       \/ LastOf(told[a]) = last[a]
       \/ \E d \in 1..MaxDeliveries : deliveries[d].pc = "remember" /\ deliveries[d].alert = a
  /\ \A d \in 1..MaxDeliveries :
       /\ deliveries[d].pc = "remember" => LastOf(told[deliveries[d].alert]) = deliveries[d].event.signature
       /\ deliveries[d].pc \in {"alert", "remember"} =>
            \A a \in deliveries[d].todo : deliveries[d].seen[a] = last[a]
  /\ \A a \in Alerts : NoRepeats(told[a])

AlertInv ==
  /\ AlertTables /\ LastIsTold
  /\ \A d \in 1..MaxDeliveries : HandlerRight(deliveries[d], told)

Whole == ~dropped => NothingMissed
InOrder == ~dropped /\ ~crowded => DeliveriesApart /\ Settled
AlertFlags == crowded \in BOOLEAN /\ dropped \in BOOLEAN

-------------------------------------------------------------------------------
LEMMA AlertHandlerFields ==
  ASSUME NEW h \in Handler
  PROVE  /\ h.pc \in AlertPcs /\ h.event \in Events \cup {NoEvent} /\ h.wallets \in Seq(STRING)
         /\ h.todo \in SUBSET Alerts /\ h.seen \in [Alerts -> Signatures]
         /\ h.alert \in Alerts \cup {"none"}
BY DEF Handler

LEMMA ToldGrows ==
  ASSUME NEW s \in Seq(Events), NEW e \in Events
  PROVE  /\ Append(s, e) \in Seq(Events) /\ IsTold(Append(s, e), e.signature) /\ LastOf(Append(s, e)) = e.signature
         /\ \A x : IsTold(s, x) => IsTold(Append(s, e), x)
         /\ NoRepeats(s) /\ LastOf(s) # e.signature => NoRepeats(Append(s, e))
<1> DEFINE t == Append(s, e)
<1>1. /\ t \in Seq(Events) /\ Len(t) = Len(s) + 1 /\ t[Len(t)] = e /\ Len(s) \in Nat
      /\ \A i \in 1..Len(s) : t[i] = s[i]
      /\ DOMAIN s = 1..Len(s) /\ DOMAIN t = 1..Len(t) /\ t # <<>> /\ (s = <<>> => Len(s) = 0)
  OBVIOUS
<1> HIDE DEF t
<1>2. IsTold(t, e.signature) /\ LastOf(t) = e.signature
  BY <1>1 DEF IsTold, LastOf
<1>3. ASSUME NEW x, IsTold(s, x) PROVE IsTold(t, x)
  <2>1. PICK i \in DOMAIN s : s[i].signature = x
    BY <1>3 DEF IsTold
  <2>2. i \in DOMAIN t /\ t[i].signature = x
    BY <1>1, <2>1
  <2> QED BY <2>2 DEF IsTold
<1>4. ASSUME NoRepeats(s), LastOf(s) # e.signature PROVE NoRepeats(t)
  <2>1. SUFFICES ASSUME NEW i \in 2..Len(t) PROVE t[i].signature # t[i - 1].signature
    BY DEF NoRepeats
  <2>2. CASE i <= Len(s)
    <3>1. s[i].signature # s[i - 1].signature /\ i \in 1..Len(s) /\ i - 1 \in 1..Len(s)
      BY <1>1, <1>4, <2>1, <2>2 DEF NoRepeats
    <3> QED BY <1>1, <3>1
  <2>3. CASE i = Len(t)
    <3>1. i - 1 = Len(s) /\ Len(s) \in 1..Len(s) /\ s # <<>>
      BY <1>1, <2>1, <2>3
    <3>2. s[Len(s)].signature # e.signature
      BY <1>4, <3>1 DEF LastOf
    <3> QED BY <1>1, <2>3, <3>1, <3>2
  <2> QED BY <1>1, <2>1, <2>2, <2>3
<1> QED BY <1>1, <1>2, <1>3, <1>4 DEF t

LEMMA HandlerOf ==
  ASSUME AlertInv, NEW d \in 1..MaxDeliveries
  PROVE  /\ deliveries[d] \in Handler /\ HandlerRight(deliveries[d], told)
         /\ deliveries \in [1..MaxDeliveries -> Handler]
BY DEF AlertInv, AlertTables

(* A step of one handler: what the others know stays right, and what is    *)
(* pending stays so when it stays so for the handler that moved.           *)
LEMMA HandlerMoves ==
  ASSUME AlertInv, NEW d \in 1..MaxDeliveries, NEW q \in Handler, deliveries' = [deliveries EXCEPT ![d] = q],
         last' \in [Alerts -> Signatures], told' \in [Alerts -> Seq(Events)],
         OwedRight', LastIsTold',
         \A a \in Alerts : \A x : IsTold(told[a], x) => IsTold(told'[a], x),
         HandlerRight(q, told')
  PROVE  /\ AlertInv' /\ deliveries'[d] = q
         /\ \A r \in 1..MaxDeliveries : r # d => deliveries'[r] = deliveries[r]
<1>1. deliveries \in [1..MaxDeliveries -> Handler]
  BY DEF AlertInv, AlertTables
<1>2. deliveries' \in [1..MaxDeliveries -> Handler]
  BY <1>1, Zenon
<1>3. deliveries'[d] = q /\ \A r \in 1..MaxDeliveries : r # d => deliveries'[r] = deliveries[r]
  BY <1>1, Zenon
<1>4. ASSUME NEW r \in 1..MaxDeliveries PROVE HandlerRight(deliveries'[r], told')
  <2>1. CASE r = d
    BY <1>3, <2>1, Zenon
  <2>2. CASE r # d
    <3> DEFINE h == deliveries[r]
    <3>1. h \in Handler /\ HandlerRight(h, told)
      BY HandlerOf
    <3> HIDE DEF h
    <3>2. HandlerRight(h, told')
      BY <3>1, AlertHandlerFields, Zenon DEF HandlerRight
    <3> QED BY <1>3, <2>2, <3>2, Zenon DEF h
  <2> QED BY <2>1, <2>2, Zenon
<1>5. AlertTables'
  BY <1>2 DEF AlertTables
<1> QED BY <1>3, <1>4, <1>5, Zenon DEF AlertInv

LEMMA StillWhole ==
  ASSUME NothingMissed, NEW d \in 1..MaxDeliveries, NEW q, deliveries'[d] = q,
         \A r \in 1..MaxDeliveries : r # d => deliveries'[r] = deliveries[r],
         \A a \in Alerts : \A x : IsTold(told[a], x) => IsTold(told'[a], x),
         \A a \in Alerts : \A e \in owed[a] :
           Concerns(a, e) /\ StillToTell(deliveries[d], a, e) => IsTold(told'[a], e.signature) \/ StillToTell(q, a, e),
         \A a \in Alerts : \A e \in owed'[a] : e \in owed[a] \/ (Concerns(a, e) => StillToTell(q, a, e))
  PROVE  NothingMissed'
<1>1. SUFFICES ASSUME NEW a \in Alerts, NEW e \in owed'[a], Concerns(a, e)
               PROVE  IsTold(told'[a], e.signature) \/ \E r \in 1..MaxDeliveries : StillToTell(deliveries'[r], a, e)
  BY Zenon DEF NothingMissed
<1>2. CASE e \notin owed[a]
  BY <1>1, <1>2, Zenon
<1>3. CASE e \in owed[a]
  <2>1. IsTold(told[a], e.signature) \/ \E r \in 1..MaxDeliveries : StillToTell(deliveries[r], a, e)
    BY <1>1, <1>3, Zenon DEF NothingMissed
  <2>2. CASE IsTold(told[a], e.signature)
    BY <2>2, Zenon
  <2>3. ASSUME NEW r \in 1..MaxDeliveries, StillToTell(deliveries[r], a, e)
        PROVE  IsTold(told'[a], e.signature) \/ \E p \in 1..MaxDeliveries : StillToTell(deliveries'[p], a, e)
    <3>1. CASE r = d
      BY <1>1, <1>3, <2>3, <3>1, Zenon
    <3>2. CASE r # d
      BY <2>3, <3>2, Zenon
    <3> QED BY <3>1, <3>2, Zenon
  <2> QED BY <2>1, <2>2, <2>3, Zenon
<1> QED BY <1>2, <1>3, Zenon

(* While one handler runs alone, order is a matter of its record.          *)
LEMMA OwnSettled ==
  ASSUME DeliveriesApart, Settled, NEW d \in 1..MaxDeliveries, deliveries[d].pc \in Telling
  PROVE  /\ \A a \in Alerts : \/ LastOf(told[a]) = last[a]
                              \/ deliveries[d].pc = "remember" /\ deliveries[d].alert = a
         /\ deliveries[d].pc = "remember" => LastOf(told[deliveries[d].alert]) = deliveries[d].event.signature
         /\ deliveries[d].pc \in {"alert", "remember"} =>
              \A a \in deliveries[d].todo : deliveries[d].seen[a] = last[a]
         /\ \A a \in Alerts : NoRepeats(told[a])
<1>1. ASSUME NEW a \in Alerts, LastOf(told[a]) # last[a]
      PROVE  deliveries[d].pc = "remember" /\ deliveries[d].alert = a
  <2>1. PICK r \in 1..MaxDeliveries : deliveries[r].pc = "remember" /\ deliveries[r].alert = a
    BY <1>1, Zenon DEF Settled
  <2>2. deliveries[r].pc \in Telling
    BY <2>1 DEF Telling
  <2>3. r = d
    BY <2>2, Zenon DEF DeliveriesApart
  <2> QED BY <2>1, <2>3, Zenon
<1> QED BY <1>1, Zenon DEF Settled

LEMMA StillSettled ==
  ASSUME NEW d \in 1..MaxDeliveries, \A r \in 1..MaxDeliveries : r # d => deliveries[r].pc \notin Telling,
         NEW q, deliveries'[d] = q,
         \A r \in 1..MaxDeliveries : r # d => deliveries'[r] = deliveries[r],
         \A a \in Alerts : LastOf(told'[a]) = last'[a] \/ (q.pc = "remember" /\ q.alert = a),
         q.pc = "remember" => LastOf(told'[q.alert]) = q.event.signature,
         q.pc \in {"alert", "remember"} => \A a \in q.todo : q.seen[a] = last'[a],
         \A a \in Alerts : NoRepeats(told'[a])
  PROVE  DeliveriesApart' /\ Settled'
<1>1. \A r \in 1..MaxDeliveries : deliveries'[r].pc \in Telling => r = d
  BY Zenon
<1>2. DeliveriesApart'
  BY <1>1, Zenon DEF DeliveriesApart
<1>3. {"alert", "remember"} \subseteq Telling /\ "remember" \in Telling
  BY DEF Telling
<1>4. ASSUME NEW r \in 1..MaxDeliveries
      PROVE  /\ deliveries'[r].pc = "remember" => LastOf(told'[deliveries'[r].alert]) = deliveries'[r].event.signature
             /\ deliveries'[r].pc \in {"alert", "remember"} =>
                  \A a \in deliveries'[r].todo : deliveries'[r].seen[a] = last'[a]
  <2>1. CASE r = d
    BY <2>1, Zenon
  <2>2. CASE r # d
    BY <1>1, <1>3, <2>2, Zenon
  <2> QED BY <2>1, <2>2, Zenon
<1>5. \A a \in Alerts : \/ LastOf(told'[a]) = last'[a]
                        \/ \E r \in 1..MaxDeliveries : deliveries'[r].pc = "remember" /\ deliveries'[r].alert = a
  BY Zenon
<1> QED BY <1>2, <1>4, <1>5, Zenon DEF Settled

LEMMA BusyAlone ==
  ASSUME DeliveriesApart, NEW d \in 1..MaxDeliveries, deliveries[d].pc \in Telling
  PROVE  \A r \in 1..MaxDeliveries : r # d => deliveries[r].pc \notin Telling
BY Zenon DEF DeliveriesApart

-------------------------------------------------------------------------------
LEMMA AlertInit0 == AlertInit => AlertInv /\ Whole /\ InOrder /\ AlertFlags
<1> SUFFICES ASSUME AlertInit PROVE AlertInv /\ Whole /\ InOrder /\ AlertFlags
  OBVIOUS
<1>1. /\ last = [a \in Alerts |-> NoSignature] /\ told = [a \in Alerts |-> <<>>] /\ owed = [a \in Alerts |-> {}]
      /\ active = Alerts /\ copies = [a \in Alerts |-> {}] /\ edits = 0
      /\ deliveries = [d \in 1..MaxDeliveries |-> Waiting]
  BY DEF AlertInit
<1>2. last \in [Alerts -> Signatures] /\ \A a \in Alerts : last[a] = NoSignature
  BY <1>1 DEF Signatures
<1>3. /\ Waiting \in Handler /\ Waiting.pc = "waiting" /\ Waiting.todo = {}
      /\ Waiting.seen = last
  <2>1. <<>> \in Seq(STRING)
    OBVIOUS
  <2> QED BY <1>2, <2>1 DEF Waiting, Handler, AlertPcs
<1>4. \A d \in 1..MaxDeliveries : deliveries[d] = Waiting
  BY <1>1
<1>5. HandlerRight(Waiting, told)
  BY <1>2, <1>3 DEF HandlerRight, Telling
<1>6. AlertInv
  <2>1. OwedRight
    BY <1>1, AlertsAssumption DEF OwedRight
  <2>2. LastIsTold
    BY <1>1, <1>2 DEF LastIsTold
  <2> QED BY <1>1, <1>2, <1>3, <1>4, <1>5, <2>1, <2>2 DEF AlertInv, AlertTables
<1>7. NothingMissed
  BY <1>1 DEF NothingMissed
<1>8. DeliveriesApart
  BY <1>3, <1>4 DEF DeliveriesApart, Telling
<1>9. Settled
  <2>1. \A a \in Alerts : told[a] = <<>>
    BY <1>1
  <2>2. LastOf(<<>>) = NoSignature /\ NoRepeats(<<>>)
    BY DEF LastOf, NoRepeats
  <2>3. \A d \in 1..MaxDeliveries : deliveries[d].pc # "remember" /\ deliveries[d].pc \notin {"alert", "remember"}
    BY <1>3, <1>4
  <2> QED BY <1>2, <2>1, <2>2, <2>3, Zenon DEF Settled
<1>10. AlertFlags
  BY Zenon DEF AlertInit, AlertFlags
<1> QED BY <1>6, <1>7, <1>8, <1>9, <1>10, Zenon DEF Whole, InOrder

LEMMA HandleKeeps ==
  ASSUME AlertInv, Whole, InOrder, NEW d \in 1..MaxDeliveries, NEW e \in Events, Handle(d, e)
  PROVE  AlertInv' /\ Whole' /\ InOrder'
<1> DEFINE h == deliveries[d]
           q == [h EXCEPT !.pc = "wallet", !.event = e, !.wallets = e.wallets]
<1>1. /\ h.pc = "waiting" /\ owed' = [a \in Alerts |-> owed[a] \cup (IF a \in active THEN {e} ELSE {})] /\ UNCHANGED <<last, active, copies, edits, told, dropped>>
      /\ deliveries' = [deliveries EXCEPT ![d].pc = "wallet", ![d].event = e, ![d].wallets = e.wallets]
  BY Zenon DEF Handle
<1>2. h \in Handler /\ HandlerRight(h, told)
  BY HandlerOf, Zenon
<1>3. deliveries' = [deliveries EXCEPT ![d] = q]
  BY <1>1
<1>4. /\ q \in Handler /\ q.pc = "wallet" /\ q.event = e /\ q.wallets = e.wallets
      /\ q.seen = h.seen /\ q.todo = h.todo
  <2>1. e.wallets \in Seq(STRING)
    BY AlertsAssumption
  <2> HIDE DEF h
  <2> QED BY <1>2, <2>1 DEF Handler, AlertPcs
<1> HIDE DEF q
<1>5. HandlerRight(q, told')
  <2>1. q.pc # "remember" /\ q.todo = {}
    BY <1>1, <1>2, <1>4 DEF HandlerRight
  <2> QED BY <1>1, <1>2, <1>4, <2>1, Zenon DEF HandlerRight
<1>6. AlertInv' /\ deliveries'[d] = q /\ \A r \in 1..MaxDeliveries : r # d => deliveries'[r] = deliveries[r]
  <2>1. /\ last' \in [Alerts -> Signatures] /\ told' \in [Alerts -> Seq(Events)]
        /\ OwedRight' /\ LastIsTold'
    <3>1. OwedRight'
      BY <1>1 DEF AlertInv, AlertTables, OwedRight
    <3> QED BY <1>1, <3>1 DEF AlertInv, AlertTables, LastIsTold
  <2> QED BY <1>1, <1>3, <1>4, <1>5, <2>1, HandlerMoves, Zenon
<1>7. ASSUME ~dropped' PROVE NothingMissed'
  <2>1. NothingMissed
    BY <1>1, <1>7, Zenon DEF Whole
  <2>2. h.pc \notin Telling /\ "wallet" \in Telling
    BY <1>1 DEF Telling
  <2>3. \A a \in Alerts : Concerns(a, e) => StillToTell(q, a, e)
    BY <1>4, <2>2, Zenon DEF Concerns, StillToTell
  <2>4. \A a \in Alerts : \A x \in owed[a] : ~StillToTell(h, a, x)
    BY <2>2, Zenon DEF StillToTell
  <2>5. \A a \in Alerts : \A x : IsTold(told[a], x) => IsTold(told'[a], x)
    BY <1>1, Zenon
  <2>6. \A a \in Alerts : \A x \in owed'[a] : x \in owed[a] \/ (Concerns(a, x) => StillToTell(q, a, x))
    <3>1. \A a \in Alerts : \A x \in owed'[a] : x \in owed[a] \/ x = e
      BY <1>1
    <3> QED BY <2>3, <3>1, Zenon
  <2> QED BY <1>6, <2>1, <2>4, <2>5, <2>6, StillWhole, Zenon
<1>8. ASSUME ~dropped', ~crowded' PROVE DeliveriesApart' /\ Settled'
  <2>0. ~crowded' => ~crowded /\ Handling = {}
    BY Zenon DEF Handle
  <2>1. ~crowded /\ Handling = {} /\ ~dropped
    BY <1>1, <1>8, <2>0, Zenon
  <2>2. \A r \in 1..MaxDeliveries : deliveries[r].pc \notin Telling
    BY <2>1 DEF Handling, Telling
  <2>3. Settled
    BY <2>1, Zenon DEF InOrder
  <2>4. "remember" \in Telling /\ q.pc # "remember" /\ q.pc \notin {"alert", "remember"}
    BY <1>4 DEF Telling
  <2>5. \A a \in Alerts : LastOf(told[a]) = last[a] /\ NoRepeats(told[a])
    BY <2>2, <2>3, <2>4, ZenonT(60) DEF Settled
  <2> QED BY <1>1, <1>6, <2>2, <2>4, <2>5, StillSettled, Zenon
<1> QED BY <1>6, <1>7, <1>8, Zenon DEF Whole, InOrder

LEMMA ReadAlertsKeeps ==
  ASSUME AlertInv, Whole, InOrder, NEW d \in 1..MaxDeliveries, ReadAlerts(d)
  PROVE  AlertInv' /\ Whole' /\ InOrder'
<1> DEFINE h == deliveries[d]
           todo == {a \in active : a.wallet = Head(h.wallets) /\ Fires(a, h.event)}
           q == [h EXCEPT !.pc = "alert", !.wallets = Tail(@), !.seen = last, !.todo = todo]
<1>1. /\ h.pc = "wallet" /\ h.wallets # <<>> /\ UNCHANGED <<last, active, copies, edits, told, owed, crowded, dropped>>
      /\ deliveries' = [deliveries EXCEPT ![d] = q]
  BY Zenon DEF ReadAlerts
<1>2. /\ h \in Handler /\ HandlerRight(h, told) /\ last \in [Alerts -> Signatures]
      /\ active \subseteq Alerts /\ todo \subseteq Alerts
  BY HandlerOf, Zenon DEF AlertInv, AlertTables, OwedRight
<1>3. h.wallets \in Seq(STRING) /\ h.event \in Events
  <2>1. h.pc \in Telling
    BY <1>1 DEF Telling
  <2> QED BY <1>2, <2>1, AlertHandlerFields, Zenon DEF HandlerRight
<1>4. /\ q \in Handler /\ q.pc = "alert" /\ q.event = h.event /\ q.wallets = Tail(h.wallets)
      /\ q.seen = last /\ q.todo = todo
  <2>0. \A s \in Seq(STRING) : s # <<>> => Tail(s) \in Seq(STRING)
    OBVIOUS
  <2>1. Tail(h.wallets) \in Seq(STRING)
    BY <1>1, <1>3, <2>0, Zenon
  <2> HIDE DEF h, todo
  <2> QED BY <1>2, <2>1 DEF Handler, AlertPcs
<1>5. \A i \in DOMAIN h.wallets : h.wallets[i] = Head(h.wallets) \/ \E j \in DOMAIN Tail(h.wallets) : Tail(h.wallets)[j] = h.wallets[i]
  <2> DEFINE s == h.wallets
  <2>1. s \in Seq(STRING) /\ s # <<>>
    BY <1>1, <1>3
  <2> HIDE DEF h, s
  <2>2. ASSUME NEW i \in DOMAIN s, i # 1 PROVE i - 1 \in DOMAIN Tail(s) /\ Tail(s)[i - 1] = s[i]
    BY <2>1, <2>2
  <2>3. s[1] = Head(s)
    BY <2>1
  <2>4. \A i \in DOMAIN s : s[i] = Head(s) \/ \E j \in DOMAIN Tail(s) : Tail(s)[j] = s[i]
    BY <2>2, <2>3, Zenon
  <2> QED BY <2>4 DEF s
<1> HIDE DEF q
<1>6. HandlerRight(q, told')
  <2>1. q.pc # "remember" /\ q.pc \notin {"waiting", "wallet"} /\ h.pc \in Telling
    BY <1>1, <1>4 DEF Telling
  <2>2. \A a \in Alerts : last[a] = NoSignature \/ IsTold(told[a], last[a])
    BY DEF AlertInv, LastIsTold
  <2> QED BY <1>1, <1>3, <1>4, <2>1, <2>2, Zenon DEF HandlerRight
<1>7. AlertInv' /\ deliveries'[d] = q /\ \A r \in 1..MaxDeliveries : r # d => deliveries'[r] = deliveries[r]
  <2>1. /\ last' \in [Alerts -> Signatures] /\ told' \in [Alerts -> Seq(Events)]
        /\ OwedRight' /\ LastIsTold'
    BY <1>1 DEF AlertInv, AlertTables, OwedRight, LastIsTold
  <2> QED BY <1>1, <1>4, <1>6, <2>1, HandlerMoves, Zenon
<1>8. ASSUME ~dropped' PROVE NothingMissed'
  <2>1. NothingMissed
    BY <1>1, <1>8, Zenon DEF Whole
  <2>2. "alert" \in Telling
    BY DEF Telling
  <2>3. \A a \in Alerts : \A e \in owed[a] : Concerns(a, e) /\ StillToTell(h, a, e) => StillToTell(q, a, e)
    <3>1. SUFFICES ASSUME NEW a \in Alerts, NEW e \in owed[a], Fires(a, e), h.event = e,
                          a \in h.todo \/ \E i \in DOMAIN h.wallets : h.wallets[i] = a.wallet
                   PROVE  a \in q.todo \/ \E i \in DOMAIN q.wallets : q.wallets[i] = a.wallet
      BY <1>4, <2>2, Zenon DEF StillToTell, Concerns
    <3>2. h.todo = {}
      BY <1>1, <1>2 DEF HandlerRight
    <3>3. PICK i \in DOMAIN h.wallets : h.wallets[i] = a.wallet
      BY <3>1, <3>2, Zenon
    <3>4. a \in active
      BY <3>1 DEF AlertInv, AlertTables, OwedRight
    <3> QED BY <1>4, <1>5, <3>1, <3>3, <3>4, Zenon
  <2>4. \A a \in Alerts : \A x : IsTold(told[a], x) => IsTold(told'[a], x)
    BY <1>1, Zenon
  <2> QED BY <1>1, <1>7, <2>1, <2>3, <2>4, StillWhole, Zenon
<1>9. ASSUME ~dropped', ~crowded' PROVE DeliveriesApart' /\ Settled'
  <2>1. DeliveriesApart /\ Settled
    BY <1>1, <1>9, Zenon DEF InOrder
  <2>2. h.pc \in Telling /\ h.pc # "remember" /\ q.pc # "remember"
    BY <1>1, <1>4 DEF Telling
  <2>3. \A a \in Alerts : LastOf(told[a]) = last[a] /\ NoRepeats(told[a])
    BY <2>1, <2>2, OwnSettled, Zenon
  <2>4. \A r \in 1..MaxDeliveries : r # d => deliveries[r].pc \notin Telling
    BY <2>1, <2>2, BusyAlone, Zenon
  <2>5. \A a \in q.todo : q.seen[a] = last'[a]
    BY <1>1, <1>4, Zenon
  <2> QED BY <1>1, <1>7, <2>2, <2>3, <2>4, <2>5, StillSettled, ZenonT(60)
<1> QED BY <1>7, <1>8, <1>9, Zenon DEF Whole, InOrder
LEMMA NotifyKeeps ==
  ASSUME AlertInv, Whole, InOrder, NEW d \in 1..MaxDeliveries, Notify(d)
  PROVE  AlertInv' /\ Whole' /\ InOrder'
<1> DEFINE h == deliveries[d]
<1>1. h.pc = "alert" /\ UNCHANGED <<last, active, copies, edits, owed, crowded, dropped>> /\ h.pc \in Telling
  BY DEF Notify, Telling
<1>2. h \in Handler /\ HandlerRight(h, told) /\ h.event \in Events /\ h.todo \in SUBSET Alerts
  BY <1>1, HandlerOf, AlertHandlerFields, Zenon DEF HandlerRight
<1>3. told \in [Alerts -> Seq(Events)] /\ last \in [Alerts -> Signatures] /\ LastIsTold /\ OwedRight
  BY DEF AlertInv, AlertTables
<1>4. PICK a \in h.todo :
        IF NotTold(h, a)
          THEN /\ NotifyUser(a, h.event)
               /\ deliveries' = [deliveries EXCEPT ![d].pc = "remember", ![d].alert = a, ![d].todo = @ \ {a}]
          ELSE /\ deliveries' = [deliveries EXCEPT ![d].todo = @ \ {a}]
               /\ UNCHANGED told
  BY Zenon DEF Notify
<1>5. a \in Alerts
  BY <1>2, Zenon
<1>6. CASE NotTold(h, a)
  <2> DEFINE q == [h EXCEPT !.pc = "remember", !.alert = a, !.todo = @ \ {a}]
  <2>1. told' = [told EXCEPT ![a] = Append(@, h.event)]
    BY <1>4, <1>6, Zenon DEF NotifyUser
  <2>2. deliveries' = [deliveries EXCEPT ![d].pc = "remember", ![d].alert = a, ![d].todo = @ \ {a}]
    BY <1>4, <1>6, Zenon
  <2>3. deliveries' = [deliveries EXCEPT ![d] = q]
    BY <2>2
  <2>4. /\ q \in Handler /\ q.pc = "remember" /\ q.event = h.event /\ q.wallets = h.wallets
        /\ q.seen = h.seen /\ q.todo = h.todo \ {a} /\ q.alert = a
    <3> HIDE DEF h
    <3> QED BY <1>2, <1>5 DEF Handler, AlertPcs
  <2> HIDE DEF q, h
  <2>5. told'[a] = Append(told[a], h.event) /\ \A x \in Alerts : x # a => told'[x] = told[x]
    BY <1>3, <1>5, <2>1, Zenon
  <2>6. /\ told'[a] \in Seq(Events) /\ IsTold(told'[a], h.event.signature) /\ LastOf(told'[a]) = h.event.signature
        /\ \A x : IsTold(told[a], x) => IsTold(told'[a], x)
        /\ NoRepeats(told[a]) /\ LastOf(told[a]) # h.event.signature => NoRepeats(told'[a])
    <3>1. told[a] \in Seq(Events)
      BY <1>3, <1>5
    <3> DEFINE t == Append(told[a], h.event)
    <3>2. /\ t \in Seq(Events) /\ IsTold(t, h.event.signature) /\ LastOf(t) = h.event.signature
          /\ \A x : IsTold(told[a], x) => IsTold(t, x)
          /\ NoRepeats(told[a]) /\ LastOf(told[a]) # h.event.signature => NoRepeats(t)
      BY <1>2, <3>1, ToldGrows, Zenon
    <3>3. told'[a] = t
      BY <2>5
    <3> HIDE DEF t
    <3> QED BY <3>2, <3>3, Zenon
  <2>7. \A b \in Alerts : \A x : IsTold(told[b], x) => IsTold(told'[b], x)
    BY <2>5, <2>6, Zenon
  <2>8. told' \in [Alerts -> Seq(Events)]
    <3>1. Append(told[a], h.event) \in Seq(Events)
      BY <2>5, <2>6
    <3> QED BY <1>3, <2>1, <3>1, Zenon
  <2>9. LastIsTold'
    BY <1>1, <1>3, <2>7, ZenonT(60) DEF LastIsTold
  <2>10. HandlerRight(q, told')
    <3>1. q.pc \notin {"waiting", "wallet"} /\ q.alert \in Alerts \ q.todo
      BY <1>5, <2>4
    <3> QED BY <1>2, <2>4, <2>6, <2>7, <3>1, Zenon DEF HandlerRight
  <2>11. AlertInv' /\ deliveries'[d] = q /\ \A r \in 1..MaxDeliveries : r # d => deliveries'[r] = deliveries[r]
    <3>1. last' \in [Alerts -> Signatures] /\ OwedRight'
      BY <1>1, <1>3 DEF OwedRight
    <3> QED BY <2>3, <2>4, <2>7, <2>8, <2>9, <2>10, <3>1, HandlerMoves, Zenon
  <2>12. ASSUME ~dropped' PROVE NothingMissed'
    <3>1. NothingMissed
      BY <1>1, <2>12, Zenon DEF Whole
    <3>2. q.pc \in Telling
      BY <2>4 DEF Telling
    <3>3. \A b \in Alerts : \A e \in owed[b] : StillToTell(h, b, e) => IsTold(told'[b], e.signature) \/ StillToTell(q, b, e)
      <4>1. SUFFICES ASSUME NEW b \in Alerts, NEW e \in owed[b], StillToTell(h, b, e), b # a
                     PROVE  StillToTell(q, b, e)
        BY <2>6, Zenon DEF StillToTell
      <4> QED BY <2>4, <3>2, <4>1, Zenon DEF StillToTell
    <3>4. owed' = owed
      BY <1>1, Zenon
    <3> QED BY <2>7, <2>11, <3>1, <3>3, <3>4, StillWhole, Zenon DEF h
  <2>13. ASSUME ~dropped', ~crowded' PROVE DeliveriesApart' /\ Settled'
    <3>1. DeliveriesApart /\ Settled
      BY <1>1, <2>13, Zenon DEF InOrder
    <3>2. h.pc # "remember" /\ h.pc \in {"alert", "remember"}
      BY <1>1
    <3>3. /\ \A b \in Alerts : LastOf(told[b]) = last[b] /\ NoRepeats(told[b])
          /\ \A b \in h.todo : h.seen[b] = last[b]
      BY <1>1, <3>1, <3>2, OwnSettled, Zenon DEF h
    <3>4. \A r \in 1..MaxDeliveries : r # d => deliveries[r].pc \notin Telling
      BY <1>1, <3>1, BusyAlone, Zenon DEF h
    <3>5. LastOf(told[a]) # h.event.signature
      BY <1>5, <1>6, <3>3, Zenon DEF NotTold, h
    <3>6. \A b \in Alerts : NoRepeats(told'[b])
      BY <2>5, <2>6, <3>3, <3>5, Zenon
    <3>7. \A b \in Alerts : LastOf(told'[b]) = last'[b] \/ (q.pc = "remember" /\ q.alert = b)
      BY <1>1, <2>4, <2>5, <3>3, Zenon
    <3>8. q.pc = "remember" => LastOf(told'[q.alert]) = q.event.signature
      BY <2>4, <2>6, Zenon
    <3>9. q.pc \in {"alert", "remember"} => \A b \in q.todo : q.seen[b] = last'[b]
      BY <1>1, <2>4, <3>3, Zenon
    <3>10. deliveries'[d] = q /\ \A r \in 1..MaxDeliveries : r # d => deliveries'[r] = deliveries[r]
      BY <2>11, Zenon
    <3> QED BY <3>4, <3>6, <3>7, <3>8, <3>9, <3>10, StillSettled
  <2> QED BY <2>11, <2>12, <2>13, Zenon DEF Whole, InOrder
<1>7. CASE ~NotTold(h, a)
  <2> DEFINE q == [h EXCEPT !.todo = @ \ {a}]
  <2>1. told' = told /\ deliveries' = [deliveries EXCEPT ![d].todo = @ \ {a}]
    BY <1>4, <1>7, Zenon
  <2>2. deliveries' = [deliveries EXCEPT ![d] = q]
    BY <2>1
  <2>3. /\ q \in Handler /\ q.pc = "alert" /\ q.event = h.event /\ q.wallets = h.wallets
        /\ q.seen = h.seen /\ q.todo = h.todo \ {a}
    <3> HIDE DEF h
    <3> QED BY <1>1, <1>2, <1>5 DEF Handler, AlertPcs
  <2>4. h.seen[a] = h.event.signature
    BY <1>7, Zenon DEF NotTold
  <2> HIDE DEF q, h
  <2>5. IsTold(told[a], h.event.signature)
    <3>1. h.event.signature # NoSignature
      BY <1>2, AlertsAssumption, Zenon
    <3> QED BY <1>2, <1>5, <2>4, <3>1, Zenon DEF HandlerRight
  <2>6. HandlerRight(q, told')
    <3>1. q.pc \notin {"waiting", "wallet"} /\ q.pc # "remember"
      BY <2>3
    <3> QED BY <1>2, <2>1, <2>3, <3>1, Zenon DEF HandlerRight
  <2>7. /\ last' \in [Alerts -> Signatures] /\ told' \in [Alerts -> Seq(Events)]
        /\ OwedRight' /\ LastIsTold'
        /\ \A b \in Alerts : \A x : IsTold(told[b], x) => IsTold(told'[b], x)
    BY <1>1, <1>3, <2>1 DEF LastIsTold, OwedRight
  <2>8. AlertInv' /\ deliveries'[d] = q /\ \A r \in 1..MaxDeliveries : r # d => deliveries'[r] = deliveries[r]
    BY <2>2, <2>3, <2>6, <2>7, HandlerMoves, Zenon
  <2>9. ASSUME ~dropped' PROVE NothingMissed'
    <3>1. NothingMissed
      BY <1>1, <2>9, Zenon DEF Whole
    <3>2. q.pc \in Telling
      BY <2>3 DEF Telling
    <3>3. \A b \in Alerts : \A e \in owed[b] : StillToTell(h, b, e) => IsTold(told'[b], e.signature) \/ StillToTell(q, b, e)
      <4>1. SUFFICES ASSUME NEW b \in Alerts, NEW e \in owed[b], StillToTell(h, b, e), b # a
                     PROVE  StillToTell(q, b, e)
        BY <2>1, <2>5, Zenon DEF StillToTell
      <4> QED BY <2>3, <3>2, <4>1, Zenon DEF StillToTell
    <3>4. owed' = owed
      BY <1>1, Zenon
    <3> QED BY <2>7, <2>8, <3>1, <3>3, <3>4, StillWhole, Zenon DEF h
  <2>10. ASSUME ~dropped', ~crowded' PROVE DeliveriesApart' /\ Settled'
    <3>1. DeliveriesApart /\ Settled
      BY <1>1, <2>10, Zenon DEF InOrder
    <3>2. h.pc # "remember" /\ h.pc \in {"alert", "remember"} /\ q.pc # "remember"
      BY <1>1, <2>3
    <3>3. /\ \A b \in Alerts : LastOf(told[b]) = last[b] /\ NoRepeats(told[b])
          /\ \A b \in h.todo : h.seen[b] = last[b]
      BY <1>1, <3>1, <3>2, OwnSettled, Zenon DEF h
    <3>4. \A r \in 1..MaxDeliveries : r # d => deliveries[r].pc \notin Telling
      BY <1>1, <3>1, BusyAlone, Zenon DEF h
    <3>5. /\ \A b \in Alerts : LastOf(told'[b]) = last'[b] /\ NoRepeats(told'[b])
          /\ \A b \in q.todo : q.seen[b] = last'[b]
      BY <1>1, <2>1, <2>3, <3>3, Zenon
    <3> QED BY <2>8, <3>2, <3>4, <3>5, StillSettled, Zenon
  <2> QED BY <2>8, <2>9, <2>10, Zenon DEF Whole, InOrder
<1> QED BY <1>6, <1>7, Zenon
LEMMA RememberKeeps ==
  ASSUME AlertInv, Whole, InOrder, NEW d \in 1..MaxDeliveries, Remember(d)
  PROVE  AlertInv' /\ Whole' /\ InOrder'
<1> DEFINE h == deliveries[d]
           q == [h EXCEPT !.pc = "alert", !.alert = "none"]
<1>1. /\ h.pc = "remember" /\ UNCHANGED <<active, copies, edits, told, owed, crowded, dropped>>
      /\ last' = [last EXCEPT ![h.alert] = h.event.signature]
      /\ deliveries' = [deliveries EXCEPT ![d].pc = "alert", ![d].alert = "none"]
  BY Zenon DEF Remember
<1>2. h \in Handler /\ HandlerRight(h, told) /\ h.pc \in Telling
  BY <1>1, HandlerOf DEF Telling
<1>3. h.event \in Events /\ h.alert \in Alerts /\ h.alert \notin h.todo /\ IsTold(told[h.alert], h.event.signature)
  BY <1>1, <1>2 DEF HandlerRight
<1>4. told \in [Alerts -> Seq(Events)] /\ last \in [Alerts -> Signatures] /\ LastIsTold /\ OwedRight
  BY DEF AlertInv, AlertTables
<1>5. deliveries' = [deliveries EXCEPT ![d] = q]
  BY <1>1
<1>6. /\ q \in Handler /\ q.pc = "alert" /\ q.event = h.event /\ q.wallets = h.wallets
      /\ q.seen = h.seen /\ q.todo = h.todo
  <2> HIDE DEF h
  <2> QED BY <1>2 DEF Handler, AlertPcs
<1> HIDE DEF q, h
<1>7. last'[h.alert] = h.event.signature /\ \A b \in Alerts : b # h.alert => last'[b] = last[b]
  BY <1>1, <1>3, <1>4, Zenon
<1>8. last' \in [Alerts -> Signatures] /\ LastIsTold'
  <2>1. last' \in [Alerts -> Signatures]
    BY <1>1, <1>3, <1>4 DEF Signatures
  <2>2. ASSUME NEW b \in Alerts PROVE last'[b] = NoSignature \/ IsTold(told'[b], last'[b])
    <3>1. CASE b = h.alert
      BY <1>1, <1>3, <1>7, <3>1, Zenon
    <3>2. CASE b # h.alert
      BY <1>1, <1>4, <1>7, <3>2, Zenon DEF LastIsTold
    <3> QED BY <3>1, <3>2, Zenon
  <2> QED BY <1>1, <1>4, <2>1, <2>2, Zenon DEF LastIsTold
<1>9. HandlerRight(q, told')
  <2>1. q.pc \notin {"waiting", "wallet"} /\ q.pc # "remember"
    BY <1>6
  <2> QED BY <1>1, <1>2, <1>3, <1>6, <2>1, Zenon DEF HandlerRight
<1>10. /\ told' \in [Alerts -> Seq(Events)] /\ OwedRight'
       /\ \A b \in Alerts : \A x : IsTold(told[b], x) => IsTold(told'[b], x)
  BY <1>1, <1>4 DEF OwedRight
<1>11. AlertInv' /\ deliveries'[d] = q /\ \A r \in 1..MaxDeliveries : r # d => deliveries'[r] = deliveries[r]
  BY <1>5, <1>6, <1>8, <1>9, <1>10, HandlerMoves, Zenon
<1>12. ASSUME ~dropped' PROVE NothingMissed'
  <2>1. NothingMissed /\ owed' = owed
    BY <1>1, <1>12, Zenon DEF Whole
  <2>2. q.pc \in Telling
    BY <1>6 DEF Telling
  <2>3. \A b \in Alerts : \A e \in owed[b] : StillToTell(h, b, e) => StillToTell(q, b, e)
    BY <1>6, <2>2, Zenon DEF StillToTell
  <2> QED BY <1>10, <1>11, <2>1, <2>3, StillWhole, Zenon DEF h
<1>13. ASSUME ~dropped', ~crowded' PROVE DeliveriesApart' /\ Settled'
  <2>1. DeliveriesApart /\ Settled
    BY <1>1, <1>13, Zenon DEF InOrder
  <2>2. q.pc # "remember" /\ h.pc \in {"alert", "remember"}
    BY <1>1, <1>6
  <2>3. /\ \A b \in Alerts : LastOf(told[b]) = last[b] \/ h.alert = b
        /\ LastOf(told[h.alert]) = h.event.signature
        /\ \A b \in h.todo : h.seen[b] = last[b]
        /\ \A b \in Alerts : NoRepeats(told[b])
    BY <1>1, <1>2, <2>1, <2>2, OwnSettled, Zenon DEF h
  <2>4. \A r \in 1..MaxDeliveries : r # d => deliveries[r].pc \notin Telling
    BY <1>2, <2>1, BusyAlone, Zenon DEF h
  <2>5. \A b \in Alerts : LastOf(told'[b]) = last'[b] /\ NoRepeats(told'[b])
    BY <1>1, <1>7, <2>3, Zenon
  <2>6. \A b \in q.todo : q.seen[b] = last'[b]
    <3>1. h.todo \subseteq Alerts
      BY <1>2, AlertHandlerFields, Zenon
    <3> QED BY <1>3, <1>6, <1>7, <2>3, <3>1, Zenon
  <2> QED BY <1>11, <2>2, <2>4, <2>5, <2>6, StillSettled, Zenon
<1> QED BY <1>11, <1>12, <1>13, Zenon DEF Whole, InOrder

(* A handler goes on to its next wallet, ends, or fails.                   *)
LEMMA OnlyPcMoves ==
  ASSUME AlertInv, NEW d \in 1..MaxDeliveries, NEW pc \in {"wallet", "done"},
         deliveries' = [deliveries EXCEPT ![d].pc = pc], UNCHANGED <<last, active, copies, edits, told, owed>>,
         pc = "wallet" => deliveries[d].todo = {}, deliveries[d].pc \in Telling
  PROVE  /\ AlertInv'
         /\ deliveries[d].todo = {} /\ (pc = "done" => deliveries[d].wallets = <<>>) /\ NothingMissed => NothingMissed'
         /\ deliveries[d].pc # "remember" /\ DeliveriesApart /\ Settled => DeliveriesApart' /\ Settled'
<1> DEFINE h == deliveries[d]
           q == [h EXCEPT !.pc = pc]
<1>1. h \in Handler /\ HandlerRight(h, told)
  BY HandlerOf, Zenon
<1>2. deliveries' = [deliveries EXCEPT ![d] = q]
  OBVIOUS
<1>3. /\ q \in Handler /\ q.pc = pc /\ q.event = h.event /\ q.wallets = h.wallets
      /\ q.seen = h.seen /\ q.todo = h.todo
  <2> HIDE DEF h
  <2> QED BY <1>1 DEF Handler, AlertPcs
<1> HIDE DEF q
<1>4. /\ last' \in [Alerts -> Signatures] /\ told' \in [Alerts -> Seq(Events)]
      /\ OwedRight' /\ LastIsTold'
      /\ \A b \in Alerts : \A x : IsTold(told[b], x) => IsTold(told'[b], x)
  BY DEF AlertInv, AlertTables, LastIsTold, OwedRight
<1>5. HandlerRight(q, told')
  <2>1. q.pc # "remember" /\ q.pc # "waiting" /\ (q.pc = "wallet" => q.todo = {})
    BY <1>3
  <2>2. (q.pc \in {"waiting", "wallet"} => q.todo = {}) /\ told' = told
    BY <2>1
  <2> QED BY <1>1, <1>3, <2>1, <2>2, Zenon DEF HandlerRight
<1>6. AlertInv' /\ deliveries'[d] = q /\ \A r \in 1..MaxDeliveries : r # d => deliveries'[r] = deliveries[r]
  BY <1>2, <1>3, <1>4, <1>5, HandlerMoves, Zenon
<1>7. ASSUME h.todo = {}, pc = "done" => h.wallets = <<>>, NothingMissed PROVE NothingMissed'
  <2>1. \A b \in Alerts : \A e \in owed[b] : StillToTell(h, b, e) => StillToTell(q, b, e)
    <3>1. CASE pc = "done"
      <4>1. DOMAIN h.wallets = {}
        BY <1>7, <3>1
      <4> QED BY <1>7, <4>1, Zenon DEF StillToTell
    <3>2. CASE pc = "wallet"
      <4>1. q.pc \in Telling
        BY <1>3, <3>2 DEF Telling
      <4> QED BY <1>3, <4>1, Zenon DEF StillToTell
    <3> QED BY <3>1, <3>2
  <2>2. owed' = owed
    OBVIOUS
  <2> QED BY <1>4, <1>6, <1>7, <2>1, <2>2, StillWhole, Zenon
<1>8. ASSUME h.pc # "remember", DeliveriesApart, Settled PROVE DeliveriesApart' /\ Settled'
  <2>1. q.pc # "remember" /\ q.pc \notin {"alert", "remember"}
    BY <1>3
  <2>2. \A b \in Alerts : LastOf(told[b]) = last[b] /\ NoRepeats(told[b])
    BY <1>8, OwnSettled, Zenon
  <2>3. \A r \in 1..MaxDeliveries : r # d => deliveries[r].pc \notin Telling
    BY <1>8, BusyAlone, Zenon
  <2>4. told' = told /\ last' = last
    OBVIOUS
  <2>5. \A b \in Alerts : LastOf(told'[b]) = last'[b] /\ NoRepeats(told'[b])
    BY <2>2, <2>4, Zenon
  <2> QED BY <1>6, <2>1, <2>3, <2>5, StillSettled, Zenon
<1> QED BY <1>6, <1>7, <1>8, Zenon

LEMMA EndKeeps ==
  ASSUME AlertInv, Whole, InOrder, NEW d \in 1..MaxDeliveries, EndOfAlerts(d)
  PROVE  AlertInv' /\ Whole' /\ InOrder'
<1> DEFINE pc == IF deliveries[d].wallets = <<>> THEN "done" ELSE "wallet"
<1>1. /\ deliveries' = [deliveries EXCEPT ![d].pc = pc]
      /\ UNCHANGED <<last, active, copies, edits, told, owed, crowded, dropped>>
      /\ deliveries[d].pc = "alert" /\ deliveries[d].todo = {}
  BY Zenon DEF EndOfAlerts
<1>2. pc \in {"wallet", "done"} /\ (pc = "done" => deliveries[d].wallets = <<>>)
  OBVIOUS
<1>3. deliveries[d].pc \in Telling /\ deliveries[d].pc # "remember"
  BY <1>1 DEF Telling
<1> HIDE DEF pc
<1>4. AlertInv' /\ (NothingMissed => NothingMissed') /\ (DeliveriesApart /\ Settled => DeliveriesApart' /\ Settled')
  BY <1>1, <1>2, <1>3, OnlyPcMoves, Zenon
<1> QED BY <1>1, <1>4, Zenon DEF Whole, InOrder

LEMMA FailureKeeps ==
  ASSUME AlertInv, NEW d \in 1..MaxDeliveries, HandlerFails(d)
  PROVE  AlertInv' /\ Whole' /\ InOrder'
<1>1. deliveries' = [deliveries EXCEPT ![d].pc = "done"] /\ UNCHANGED <<last, active, copies, edits, told, owed>>
  BY DEF HandlerFails
<1>2. dropped'
  BY Zenon DEF HandlerFails
<1>3. deliveries[d].pc \in Telling
  BY HandlerOf, AlertHandlerFields DEF HandlerFails, Handling, AlertPcs, Telling
<1>4. AlertInv'
  BY <1>1, <1>3, OnlyPcMoves
<1> QED BY <1>2, <1>4, Zenon DEF Whole, InOrder

(* An edit reads the last signature, and writes it back.                   *)
LEMMA FindAlertKeeps ==
  ASSUME AlertInv, Whole, InOrder, NEW a \in Alerts, FindAlert(a)
  PROVE  AlertInv' /\ Whole' /\ InOrder'
<1>1. /\ UNCHANGED <<last, active, deliveries, told, owed, crowded, dropped>>
      /\ copies' = [copies EXCEPT ![a] = {last[a]}] /\ edits' = edits + 1 /\ edits < MaxEdits
  BY DEF FindAlert
<1>2. OwedRight' /\ LastIsTold'
  <2>1. AlertTables /\ LastIsTold /\ OwedRight
    BY DEF AlertInv, AlertTables
  <2>2. copies' \in [Alerts -> SUBSET Signatures]
    BY <1>1, <2>1 DEF AlertTables, OwedRight
  <2>3. \A b \in Alerts : copies'[b] = copies[b] \/ copies'[b] = {last[b]}
    BY <1>1, <2>1 DEF OwedRight
  <2>4. LastIsTold'
    BY <1>1, <2>1, <2>3 DEF LastIsTold
  <2> QED BY <1>1, <2>1, <2>2, <2>4, AlertsAssumption DEF OwedRight
<1>3. AlertInv'
  BY <1>1, <1>2 DEF AlertInv, AlertTables
<1>4. Whole'
  BY <1>1, Zenon DEF Whole, NothingMissed
<1>5. InOrder'
  BY <1>1, Zenon DEF InOrder, DeliveriesApart, Settled
<1> QED BY <1>3, <1>4, <1>5

LEMMA SaveAlertKeeps ==
  ASSUME AlertInv, Whole, InOrder, NEW a \in Alerts, NEW isActive \in BOOLEAN, SaveAlert(a, isActive)
  PROVE  AlertInv' /\ Whole' /\ InOrder'
<1>1. PICK s \in copies[a] : last' = [last EXCEPT ![a] = s] /\ crowded' = (crowded \/ s # last[a])
  BY Zenon DEF SaveAlert
<1>2. /\ copies' = [copies EXCEPT ![a] = {}] /\ UNCHANGED <<edits, deliveries, told>>
      /\ \/ (active' = active \cup {a} /\ owed' = owed)
         \/ (active' = active \ {a} /\ owed' = [owed EXCEPT ![a] = {}])
  BY Zenon DEF SaveAlert
<1>3. dropped' = dropped
  BY Zenon DEF SaveAlert
<1>4. AlertTables /\ LastIsTold /\ OwedRight /\ last \in [Alerts -> Signatures]
  BY DEF AlertInv, AlertTables
<1>5. \A b \in Alerts : owed'[b] \subseteq owed[b]
  BY <1>2, <1>4 DEF OwedRight
<1>6. /\ s \in Signatures /\ (s = NoSignature \/ IsTold(told[a], s))
      /\ last' \in [Alerts -> Signatures] /\ last'[a] = s /\ \A b \in Alerts : b # a => last'[b] = last[b]
  BY <1>1, <1>4 DEF LastIsTold, OwedRight
<1>7. \A b \in Alerts : copies'[b] \subseteq copies[b]
  BY <1>2, <1>4 DEF OwedRight
<1>8. OwedRight'
  BY <1>2, <1>4 DEF OwedRight
<1>9. LastIsTold'
  BY <1>2, <1>4, <1>6, <1>7 DEF LastIsTold
<1>10. AlertInv'
  BY <1>2, <1>6, <1>8, <1>9 DEF AlertInv, AlertTables
<1>11. Whole'
  BY <1>2, <1>3, <1>5, Zenon DEF Whole, NothingMissed
<1>12. ASSUME ~dropped', ~crowded' PROVE DeliveriesApart' /\ Settled'
  <2>1. ~crowded /\ ~dropped /\ s = last[a]
    BY <1>1, <1>3, <1>12, Zenon
  <2>2. last' = last
    BY <1>1, <1>4, <2>1
  <2> QED BY <1>2, <2>1, <2>2, Zenon DEF InOrder, DeliveriesApart, Settled
<1> QED BY <1>10, <1>11, <1>12, Zenon DEF InOrder

LEMMA AlertInvStep == AlertInv /\ Whole /\ InOrder /\ [AlertStep]_alertVars => AlertInv' /\ Whole' /\ InOrder'
<1> SUFFICES ASSUME AlertInv, Whole, InOrder, [AlertStep]_alertVars PROVE AlertInv' /\ Whole' /\ InOrder'
  OBVIOUS
<1>1. CASE UNCHANGED alertVars
  <2>1. AlertInv'
    BY <1>1 DEF alertVars, AlertInv, AlertTables, OwedRight, LastIsTold
  <2>2. Whole'
    BY <1>1, Zenon DEF alertVars, Whole, NothingMissed
  <2>3. InOrder'
    BY <1>1, Zenon DEF alertVars, InOrder, DeliveriesApart, Settled
  <2> QED BY <2>1, <2>2, <2>3
<1>2. CASE AlertStep
  BY <1>2, HandleKeeps, ReadAlertsKeeps, NotifyKeeps, RememberKeeps, EndKeeps, FailureKeeps,
     FindAlertKeeps, SaveAlertKeeps, Zenon DEF AlertStep
<1> QED BY <1>1, <1>2

LEMMA AlertFlagsStep == AlertFlags /\ [AlertStep]_alertVars => AlertFlags'
<1> SUFFICES ASSUME AlertFlags, [AlertStep]_alertVars PROVE AlertFlags'
  OBVIOUS
<1>1. ASSUME NEW d, NEW e, Handle(d, e) PROVE AlertFlags'
  BY <1>1, Zenon DEF Handle, AlertFlags
<1>2. ASSUME NEW d, HandlerFails(d) PROVE AlertFlags'
  BY <1>2, Zenon DEF HandlerFails, AlertFlags
<1>3. ASSUME NEW a, NEW isActive, SaveAlert(a, isActive) PROVE AlertFlags'
  <2>1. PICK s : crowded' = (crowded \/ s # last[a])
    BY <1>3, Zenon DEF SaveAlert
  <2>2. dropped' = dropped
    BY <1>3, Zenon DEF SaveAlert
  <2> QED BY <2>1, <2>2, Zenon DEF AlertFlags
<1>4. CASE UNCHANGED <<crowded, dropped>>
  BY <1>4, Zenon DEF AlertFlags
<1>5. CASE AlertStep
  BY <1>1, <1>2, <1>3, <1>4, <1>5, Zenon DEF AlertStep, ReadAlerts, Notify, Remember, EndOfAlerts, FindAlert
<1> QED
  BY <1>4, <1>5, Zenon DEF alertVars

AlertSpec == AlertInit /\ [][AlertStep]_alertVars

LEMMA AlertInvAlways == AlertSpec => [](AlertInv /\ Whole /\ InOrder /\ AlertFlags)
BY AlertInit0, AlertInvStep, AlertFlagsStep, PTL DEF AlertSpec

(* The deliveries under way, what each alert remembers and what it was     *)
(* told have their types.                                                  *)
THEOREM AlertTypes == AlertSpec => []AlertTypeOK
<1>1. AlertInv /\ AlertFlags => AlertTypeOK
  <2> SUFFICES ASSUME AlertInv, AlertFlags PROVE AlertTypeOK
    OBVIOUS
  <2>1. \A d \in 1..MaxDeliveries : deliveries[d].pc \in {"waiting", "wallet", "alert", "remember", "done"}
    BY HandlerOf, AlertHandlerFields, Zenon DEF AlertPcs
  <2>2. \A a \in Alerts : last[a] \in Signatures /\ told[a] \in Seq(Events)
    BY DEF AlertInv, AlertTables
  <2>3. active \subseteq Alerts /\ edits \in 0..MaxEdits /\ \A a \in Alerts : owed[a] \subseteq Events
    BY DEF AlertInv, AlertTables, OwedRight
  <2> QED BY <2>1, <2>2, <2>3, Zenon DEF AlertTypeOK, AlertFlags, Signatures
<1> QED BY <1>1, AlertInvAlways, PTL

(* With no delivery under way and none failed, an active alert was told of *)
(* every transaction with an event that concerns it and, unless deliveries *)
(* overlapped or an edit brought back a signature, of none twice in a row, *)
(* for any alerts, events and lists of wallets.                            *)
THEOREM AlertsAreAlwaysToldOnce == AlertSpec => []AlertsAreToldOnce
<1>1. AlertInv /\ Whole /\ InOrder => AlertsAreToldOnce
  <2> SUFFICES ASSUME AlertInv, Whole, InOrder, Handling = {}, ~dropped, NEW a \in Alerts
               PROVE  /\ \A e \in owed[a] : Concerns(a, e) =>
                           \E i \in DOMAIN told[a] : told[a][i].signature = e.signature
                      /\ crowded \/ \A i \in 2..Len(told[a]) : told[a][i].signature # told[a][i - 1].signature
    BY Zenon DEF AlertsAreToldOnce
  <2>1. \A d \in 1..MaxDeliveries : deliveries[d].pc \notin Telling
    BY DEF Handling, Telling
  <2>2. \A e \in owed[a] : Concerns(a, e) => IsTold(told[a], e.signature)
    BY <2>1, Zenon DEF Whole, NothingMissed, StillToTell
  <2>3. ~crowded => NoRepeats(told[a])
    BY Zenon DEF InOrder, Settled
  <2> QED BY <2>2, <2>3, Zenon DEF IsTold, NoRepeats
<1> QED BY <1>1, AlertInvAlways, PTL
===============================================================================
