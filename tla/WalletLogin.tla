------------------------------ MODULE WalletLogin -----------------------------
(***************************************************************************)
(* Logging in with one Solana wallet, or linking it to an account: the     *)
(* wallet signs the nonce of its row, which is cleared once it was used.   *)
(* Meanwhile the row is added by hand, edited and removed.                 *)
(***************************************************************************)
EXTENDS Integers

CONSTANT MaxLogins      \* bound: requests; a request's number is the nonce, the row or the user it makes

ASSUME MaxLoginsAssumption == MaxLogins \in Nat

VARIABLES
  wallet,     \* the row: its id (NoRow: there is none), nonce and owner
  logins,     \* the requests, each with the row as it found it
  accepted,   \* history: per nonce, how often its signature was accepted
  owners,     \* history: the users made by a login, each with the row it was made for
  disturbed   \* history: requests overlapped or stopped half way, or an edit named nonce or owner

loginVars == <<wallet, logins, accepted, owners, disturbed>>

Logins == 1..MaxLogins
Nobody == 0
Spent  == 0     \* a nonce that is null
NoRow  == 0
Someone == MaxLogins + 1    \* a user with an account who links the wallet
WalletRow == [id : 0..MaxLogins, nonce : 0..MaxLogins, owner : 0..Someone]
NoWallet == [id |-> NoRow, nonce |-> Spent, owner |-> Nobody]

LoginTypeOK ==
  /\ wallet \in WalletRow
  /\ logins \in [Logins -> [kind : {"none", "nonce", "login", "link", "add", "edit", "remove"},
                            pc : {"idle", "setNonce", "clear", "makeUser", "setOwner", "merge", "delete", "done"},
                            found : WalletRow]]
  /\ accepted \in [Logins -> 0..MaxLogins]
  /\ owners \subseteq Logins \X Logins
  /\ disturbed \in BOOLEAN

LoginInit ==
  /\ wallet = NoWallet
  /\ logins = [r \in Logins |-> [kind |-> "none", pc |-> "idle", found |-> NoWallet]]
  /\ accepted = [r \in Logins |-> 0]
  /\ owners = {} /\ disturbed = FALSE

Pending == {r \in Logins : logins[r].pc \notin {"idle", "done"}}

Open(r, kind, pc) ==
  /\ logins[r].pc = "idle"
  /\ \A q \in 1..(r - 1) : logins[q].pc # "idle"
  /\ logins' = [logins EXCEPT ![r].kind = kind, ![r].pc = pc, ![r].found = wallet]
  /\ disturbed' = (disturbed \/ Pending # {})
  /\ UNCHANGED <<wallet, owners>>

Then(r, pc) == logins' = [logins EXCEPT ![r].pc = pc]

(* An update by the id of the row that was found reaches it; an insertion  *)
(* succeeds, as the address is unique.                                     *)
SameRow(r) == wallet.id = logins[r].found.id
IdOf(r) == IF logins[r].found.id = NoRow THEN r ELSE logins[r].found.id

(* getSolanaNonce: findOneByAddress.                                       *)
GetSolanaNonce(r) ==
  /\ Open(r, "nonce", "setNonce")
  /\ UNCHANGED accepted

(* loginWithSolana and verifySolanaWallet, up to the check of a signature  *)
(* of the nonce in the row.                                                *)
Accept(r, kind) ==
  /\ wallet.nonce # Spent
  /\ Open(r, kind, "clear")
  /\ accepted' = [accepted EXCEPT ![wallet.nonce] = @ + 1]

(* create: adding a wallet by hand, no signature asked for.                *)
AddWallet(r) ==
  /\ wallet.owner \in {Nobody, Someone}
  /\ Open(r, "add", "merge")
  /\ UNCHANGED accepted

(* update and updateByAddress, which verifyWallet and its like call.       *)
EditRow(r) ==
  /\ wallet.id # NoRow
  /\ Open(r, "edit", "merge")
  /\ UNCHANGED accepted

(* delete, deleteByAddress and deleteAllByUserId.                          *)
RemoveRow(r) ==
  /\ wallet.id # NoRow
  /\ Open(r, "remove", "delete")
  /\ UNCHANGED accepted

(* updateNonce, or createWithNonce.                                        *)
SetNonce(r) ==
  /\ logins[r].pc = "setNonce"
  /\ wallet' = IF SameRow(r) THEN [wallet EXCEPT !.id = IdOf(r), !.nonce = r] ELSE wallet
  /\ Then(r, "done")
  /\ UNCHANGED <<accepted, owners, disturbed>>

AfterClear(r) ==
  IF logins[r].kind = "link" THEN "setOwner"
  ELSE IF logins[r].found.owner = Nobody THEN "makeUser" ELSE "done"

(* Mutant: the nonce is only cleared for a wallet without owner.           *)
ClearMutant(r) ==
  /\ logins[r].pc = "clear"
  /\ wallet' = IF SameRow(r) /\ logins[r].found.owner = Nobody THEN [wallet EXCEPT !.nonce = Spent] ELSE wallet
  /\ Then(r, AfterClear(r))
  /\ UNCHANGED <<accepted, owners, disturbed>>

(* updateNonce(null), then the owner found: a login ends with it.          *)
Clear(r) ==
  /\ logins[r].pc = "clear"
  /\ wallet' = IF SameRow(r) THEN [wallet EXCEPT !.nonce = Spent] ELSE wallet
  /\ Then(r, AfterClear(r))
  /\ UNCHANGED <<accepted, owners, disturbed>>

(* The user of a wallet that had none when it was read.                    *)
MakeUser(r) ==
  /\ logins[r].pc = "makeUser"
  /\ owners' = owners \cup {<<logins[r].found.id, r>>}
  /\ Then(r, "setOwner")
  /\ UNCHANGED <<wallet, accepted, disturbed>>

(* updateUser, whoever owns the wallet.                                    *)
SetOwner(r) ==
  /\ logins[r].pc = "setOwner"
  /\ wallet' = IF SameRow(r) THEN [wallet EXCEPT !.owner = IF logins[r].kind = "login" THEN r ELSE Someone] ELSE wallet
  /\ Then(r, "done")
  /\ UNCHANGED <<accepted, owners, disturbed>>

(* save of the row found, merged with the owner or with the body of an     *)
(* edit, which may name the owner and clear the nonce: an update of what   *)
(* differs, or an insertion when the row is gone.                          *)
Merge(r, nonce, owner) ==
  /\ logins[r].pc = "merge"
  /\ nonce \in {Spent, logins[r].found.nonce}
  /\ logins[r].kind = "add" => nonce = logins[r].found.nonce /\ owner = Someone
  /\ wallet' = IF wallet.id \in {NoRow, logins[r].found.id}
                 THEN [id |-> IdOf(r), nonce |-> nonce, owner |-> owner] ELSE wallet
  /\ Then(r, "done")
  /\ disturbed' = (disturbed \/ nonce # logins[r].found.nonce
                              \/ (logins[r].kind # "add" /\ owner # logins[r].found.owner))
  /\ UNCHANGED <<accepted, owners>>

Delete(r) ==
  /\ logins[r].pc = "delete"
  /\ wallet' = IF SameRow(r) THEN NoWallet ELSE wallet
  /\ Then(r, "done")
  /\ UNCHANGED <<accepted, owners, disturbed>>

(* A statement fails and ends the request.                                 *)
Stop(r) ==
  /\ r \in Pending
  /\ Then(r, "done")
  /\ disturbed' = (disturbed \/ logins[r].pc \in {"clear", "setOwner"})
  /\ UNCHANGED <<wallet, accepted, owners>>

LoginStep ==
  \E r \in Logins :
    \/ GetSolanaNonce(r) \/ Accept(r, "login") \/ Accept(r, "link") \/ AddWallet(r)
    \/ EditRow(r) \/ RemoveRow(r)
    \/ SetNonce(r) \/ Clear(r) \/ MakeUser(r) \/ SetOwner(r) \/ Delete(r) \/ Stop(r)
    \/ \E nonce \in 0..MaxLogins, owner \in 0..Someone : Merge(r, nonce, owner)

-------------------------------------------------------------------------------
(***************************************************************************)
(* Properties                                                              *)
(***************************************************************************)

(* Unless requests overlap or stop half way, a nonce is accepted once and  *)
(* a row of the wallet makes at most one account, whoever it is linked to  *)
(* and however it is edited.  (Overlapping logins use one nonce twice and  *)
(* each makes an account; so does a login whose update failed; a wallet    *)
(* saved while another request clears the nonce brings it back; an edit    *)
(* may name both; and a wallet removed is a new one to the next login.)    *)
NonceLogsInOnce ==
  ~disturbed => (\A n \in Logins : accepted[n] <= 1) /\ (\A a, b \in owners : a[1] = b[1] => a = b)
===============================================================================
