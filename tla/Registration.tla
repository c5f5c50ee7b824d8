----------------------------- MODULE Registration -----------------------------
(***************************************************************************)
(* Registration of one e-mail address.  A registration waits in Redis      *)
(* under the token of the link mailed; the key of the address names the    *)
(* newest token.  Following the link creates the account.  RedisService    *)
(* logs the error of a command and answers as though nothing were there.   *)
(***************************************************************************)
EXTENDS Integers, FiniteSets

CONSTANT MaxSignups     \* bound: requests; a request's number is its token and its password

ASSUME MaxSignupsAssumption == MaxSignups \in Nat

VARIABLES
  links,       \* tokens with a pending registration in Redis
  newest,      \* the key of the address: a token, 0 without
  account,     \* whose password the row of users has: a request, 0 without a row
  signups,     \* the requests
  passwordOf,  \* the password in the data of each token
  wanted,      \* history: the request that registered last, or Google's
  mixed,       \* history: requests overlapped
  slipped      \* history: an error kept a registration from the links before it

signupVars == <<links, newest, account, signups, passwordOf, wanted, mixed, slipped>>

Signups == 1..MaxSignups
Nothing == 0

SignupTypeOK ==
  /\ links \subseteq Signups /\ newest \in 0..MaxSignups
  /\ account \in 0..MaxSignups /\ wanted \in 0..MaxSignups
  /\ signups \in [Signups -> [kind : {"none", "register", "resend", "verify", "google"},
                              pc : {"idle", "pending", "getKey", "delOld", "setToken", "setKey", "exists",
                                    "create", "delToken", "delKey", "done"},
                              token : 0..MaxSignups]]
  /\ passwordOf \in [Signups -> Signups]
  /\ mixed \in BOOLEAN /\ slipped \in BOOLEAN

SignupInit ==
  /\ links = {} /\ newest = Nothing /\ account = Nothing /\ wanted = Nothing
  /\ signups = [r \in Signups |-> [kind |-> "none", pc |-> "idle", token |-> Nothing]]
  /\ passwordOf = [r \in Signups |-> r]
  /\ mixed = FALSE /\ slipped = FALSE

Busy == {r \in Signups : signups[r].pc \notin {"idle", "done"}}

Arrive(r, kind, pc, token) ==
  /\ signups[r].pc = "idle"
  /\ \A q \in 1..(r - 1) : signups[q].pc # "idle"
  /\ signups' = [signups EXCEPT ![r] = [kind |-> kind, pc |-> pc, token |-> token]]
  /\ mixed' = (mixed \/ Busy # {})
  /\ UNCHANGED <<links, newest, account, passwordOf, slipped>>

Step(r, from, to) ==
  /\ signups[r].pc = from
  /\ signups' = [signups EXCEPT ![r].pc = to]
  /\ UNCHANGED mixed

(* register: the address is free; the password is hashed meanwhile.        *)
Register(r) ==
  /\ account = Nothing
  /\ Arrive(r, "register", "getKey", Nothing)
  /\ wanted' = r

Resend(r) ==
  /\ newest # Nothing
  /\ Arrive(r, "resend", "pending", newest)
  /\ UNCHANGED wanted

(* A link that was mailed is followed.                                     *)
Verify(r) ==
  /\ \E q \in Signups :
       /\ signups[q].kind \in {"register", "resend"} /\ signups[q].pc = "done"
       /\ Arrive(r, "verify", "pending", q)
  /\ UNCHANGED wanted

(* handleOauthLogin of an address without account.                         *)
Google(r) ==
  /\ account = Nothing
  /\ Arrive(r, "google", "create", r)
  /\ wanted' = r

(* findPendingRegistrationByToken; an error is an invalid link.            *)
ReadPending(r) ==
  /\ \/ Step(r, "pending", "done")
     \/ /\ signups[r].token \in links
        /\ Step(r, "pending", IF signups[r].kind = "resend" THEN "getKey" ELSE "exists")
  /\ passwordOf' = IF signups[r].kind = "resend"
                     THEN [passwordOf EXCEPT ![r] = passwordOf[signups[r].token]] ELSE passwordOf
  /\ UNCHANGED <<links, newest, account, wanted, slipped>>

(* savePendingRegistration, one action per command of Redis.  Mutant: the  *)
(* link mailed before is kept.                                             *)
GetKeyMutant(r) ==
  /\ signups[r].pc = "getKey"
  /\ signups' = [signups EXCEPT ![r].pc = "setToken", ![r].token = newest]
  /\ UNCHANGED <<links, newest, account, passwordOf, wanted, mixed, slipped>>

GetKey(r) ==
  /\ signups[r].pc = "getKey"
  /\ \/ signups' = [signups EXCEPT ![r].pc = IF newest = Nothing THEN "setToken" ELSE "delOld", ![r].token = newest]
        /\ UNCHANGED slipped
     \/ signups' = [signups EXCEPT ![r].pc = "setToken", ![r].token = Nothing] /\ slipped' = TRUE
  /\ UNCHANGED <<links, newest, account, passwordOf, wanted, mixed>>

DelOld(r) ==
  /\ Step(r, "delOld", "setToken")
  /\ \/ links' = links \ {signups[r].token} /\ UNCHANGED slipped
     \/ slipped' = TRUE /\ UNCHANGED links
  /\ UNCHANGED <<newest, account, passwordOf, wanted>>

SetToken(r) ==
  /\ Step(r, "setToken", "setKey")
  /\ links' \in {links \cup {r}, links}
  /\ UNCHANGED <<newest, account, passwordOf, wanted, slipped>>

SetKey(r) ==
  /\ Step(r, "setKey", "done")
  /\ \/ newest' = r /\ UNCHANGED slipped
     \/ slipped' = TRUE /\ UNCHANGED newest
  /\ UNCHANGED <<links, account, passwordOf, wanted>>

Exists(r) ==
  /\ Step(r, "exists", IF account = Nothing THEN "create" ELSE "delToken")
  /\ UNCHANGED <<links, newest, account, passwordOf, wanted, slipped>>

(* The e-mail is unique: a second row is an error that ends the request.   *)
Create(r) ==
  /\ Step(r, "create", IF account # Nothing \/ signups[r].kind = "google" THEN "done" ELSE "delToken")
  /\ account' = IF account # Nothing THEN account ELSE passwordOf[signups[r].token]
  /\ UNCHANGED <<links, newest, passwordOf, wanted, slipped>>

(* deletePendingRegistration: the token, then the key, whatever it names.  *)
DelToken(r) ==
  /\ Step(r, "delToken", "delKey")
  /\ links' \in {links \ {signups[r].token}, links}
  /\ UNCHANGED <<newest, account, passwordOf, wanted, slipped>>

DelKey(r) ==
  /\ Step(r, "delKey", "done")
  /\ newest' \in {Nothing, newest}
  /\ UNCHANGED <<links, account, passwordOf, wanted, slipped>>

(* A day later; a token was written before its key and ends before it.     *)
LinkExpires ==
  /\ \/ \E token \in links : links' = links \ {token} /\ UNCHANGED newest
     \/ newest \notin links \cup {Nothing} /\ newest' = Nothing /\ UNCHANGED links
  /\ Busy = {}
  /\ UNCHANGED <<account, signups, passwordOf, wanted, mixed, slipped>>

SignupStep ==
  \/ \E r \in Signups :
       \/ Register(r) \/ Resend(r) \/ Verify(r) \/ Google(r) \/ ReadPending(r)
       \/ GetKey(r) \/ DelOld(r) \/ SetToken(r) \/ SetKey(r)
       \/ Exists(r) \/ Create(r) \/ DelToken(r) \/ DelKey(r)
  \/ LinkExpires

-------------------------------------------------------------------------------
(***************************************************************************)
(* Properties                                                              *)
(***************************************************************************)

(* An address registered again, with its links resent or followed in any   *)
(* order, gets the password of its last registration: older links are      *)
(* dead.  Requests that overlap (two registrations save at once, a link is *)
(* followed during one) may leave an older password, and so may an error   *)
(* of the GET or the SET of the address's key or of the DEL of the link    *)
(* before; errors of the other commands are harmless.                      *)
AccountHasLastPassword == ~mixed /\ ~slipped /\ account # Nothing => account = wanted
===============================================================================
