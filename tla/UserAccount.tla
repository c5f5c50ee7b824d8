----------------------------- MODULE UserAccount ------------------------------
(***************************************************************************)
(* The row of one user and the requests that change it.  Every update of   *)
(* the repositories finds the row, merges the change into what it found    *)
(* and saves the whole of it: save() writes every column that differs from *)
(* the row of that moment, so a column changed in between is put back to   *)
(* what was found.  The password alone is not selected and never put back. *)
(***************************************************************************)
EXTENDS Integers, FiniteSets

CONSTANT MaxUpdates     \* bound: requests

ASSUME MaxUpdatesAssumption == MaxUpdates \in Nat

VARIABLES
  user,      \* the row of users
  updates,   \* the requests, in the order of their arrival
  lapsed,    \* codes and tokens whose time is over
  banned,    \* history: what the last ban or unban saved decided
  spent,     \* history: the codes that reset the password
  reused,    \* history: a reset was let in with a code that had reset the password
  stale      \* history: a save put back a column that had changed

userVars == <<user, updates, lapsed, banned, spent, reused, stale>>

Updates == 1..MaxUpdates
NoCode == 0
Row == [otp : 0..MaxUpdates, mail : 0..MaxUpdates, active : BOOLEAN, verified : BOOLEAN, password : 0..MaxUpdates]

UserTypeOK ==
  /\ user \in Row
  /\ updates \in [Updates -> [kind : {"none", "login", "forgot", "reset", "ban", "unban", "resend", "verify"},
                              pc : {"idle", "find", "save", "done"}, code : 0..MaxUpdates, found : Row]]
  /\ lapsed \subseteq Updates /\ spent \subseteq Updates
  /\ banned \in BOOLEAN /\ reused \in BOOLEAN /\ stale \in BOOLEAN

(* A verified account, or one made before registrations were kept in Redis.*)
UserInit ==
  /\ \E v \in BOOLEAN : user = [otp |-> NoCode, mail |-> NoCode, active |-> TRUE, verified |-> v, password |-> 0]
  /\ updates = [r \in Updates |-> [kind |-> "none", pc |-> "idle", code |-> NoCode, found |-> user]]
  /\ lapsed = {} /\ banned = FALSE /\ spent = {} /\ reused = FALSE /\ stale = FALSE

Ask(r, kind, code) ==
  /\ updates[r].pc = "idle"
  /\ \A q \in 1..(r - 1) : updates[q].pc # "idle"
  /\ updates' = [updates EXCEPT ![r].kind = kind, ![r].pc = "find", ![r].code = code]
  /\ reused' = (reused \/ (kind = "reset" /\ code \in spent))
  /\ UNCHANGED <<user, lapsed, banned, spent, stale>>

(* login: the password is compared with the row read here; the update of   *)
(* lastLoginAt is not awaited.                                             *)
Login(r) == user.active /\ user.verified /\ Ask(r, "login", NoCode)

(* The logins with Google and with a wallet do not look at isActive.       *)
OauthLogin(r) == Ask(r, "login", NoCode)

ForgotPassword(r) == user.active /\ Ask(r, "forgot", NoCode)

(* validatePasswordResetOtp, and the wait for the hash of the password.    *)
ResetPassword(r) ==
  /\ user.otp # NoCode /\ user.otp \notin lapsed
  /\ Ask(r, "reset", user.otp)

Ban(r)   == Ask(r, "ban", NoCode)
Unban(r) == Ask(r, "unban", NoCode)

(* The parts of resendVerificationEmail and verifyEmail for a row without  *)
(* pending registration.                                                   *)
ResendVerification(r) == ~user.verified /\ Ask(r, "resend", NoCode)

VerifyEmail(r) ==
  /\ user.mail # NoCode /\ user.mail \notin lapsed
  /\ Ask(r, "verify", user.mail)

(* update, first half: the row as it is now.                               *)
Find(r) ==
  /\ updates[r].pc = "find"
  /\ updates' = [updates EXCEPT ![r].pc = "save", ![r].found = user]
  /\ UNCHANGED <<user, lapsed, banned, spent, reused, stale>>

(* Mutant: the code is not cleared with the new password.                  *)
MergedMutant(r) ==
  LET row == updates[r].found  kind == updates[r].kind
  IN  [row EXCEPT !.active = (kind = "unban" \/ (@ /\ kind # "ban")), !.verified = (@ \/ kind = "verify"),
                  !.otp = IF kind = "forgot" THEN r ELSE @, !.mail = IF kind = "resend" THEN r ELSE @]

Merged(r) ==
  LET row == updates[r].found  kind == updates[r].kind
  IN  [row EXCEPT
        !.active   = (kind = "unban" \/ (@ /\ kind # "ban")),
        !.verified = (@ \/ kind = "verify"),
        !.otp  = IF kind = "forgot" THEN r ELSE IF kind = "reset" THEN NoCode ELSE @,
        !.mail = IF kind = "resend" THEN r ELSE IF kind = "verify" THEN NoCode ELSE @]

(* update, second half: save writes back every selected column.            *)
Save(r) ==
  LET kind == updates[r].kind
  IN  /\ updates[r].pc = "save"
      /\ user' = [Merged(r) EXCEPT !.password = IF kind = "reset" THEN r ELSE user.password]
      /\ updates' = [updates EXCEPT ![r].pc = "done", ![r].found = user']
      /\ stale' = (stale \/ updates[r].found # [user EXCEPT !.password = updates[r].found.password])
      /\ banned' = (kind = "ban" \/ (banned /\ kind # "unban"))
      /\ spent' = spent \cup (IF kind = "reset" THEN {updates[r].code} ELSE {})
      /\ UNCHANGED <<lapsed, reused>>

(* Ten minutes for a code, a day for a token of a verification.            *)
Lapse ==
  /\ \E c \in {user.otp, user.mail} \ {NoCode} : lapsed' = lapsed \cup {c}
  /\ lapsed' # lapsed
  /\ UNCHANGED <<user, updates, banned, spent, reused, stale>>

UserStep ==
  \/ \E r \in Updates :
       \/ Login(r) \/ OauthLogin(r) \/ ForgotPassword(r) \/ ResetPassword(r) \/ Ban(r) \/ Unban(r)
       \/ ResendVerification(r) \/ VerifyEmail(r) \/ Find(r) \/ Save(r)
  \/ Lapse

-------------------------------------------------------------------------------
(***************************************************************************)
(* Properties                                                              *)
(***************************************************************************)

(* Until a save puts back a column, a banned user is inactive until the    *)
(* unban, and no reset is let in with a code that has reset the password:  *)
(* only resets that were let in before the first of them saved can each    *)
(* set a password with one code.  A login that overlaps a ban or a reset   *)
(* can undo both.                                                          *)
DecisionsHold == ~stale => (user.active <=> ~banned) /\ ~reused
===============================================================================
