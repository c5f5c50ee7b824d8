--------------------------- MODULE Accounts_proofs ----------------------------
(***************************************************************************)
(* Proofs about rows that requests share: what they may do to the row of a *)
(* user, how a registration opens one, and how a new mint gets its own.    *)
(***************************************************************************)
EXTENDS UserAccount, Registration, TokenSync, TLAPS

(***************************************************************************)
(* UserAccount.  Bans and used codes hold while no save puts a column      *)
(* back, for any number of requests.                                       *)
(***************************************************************************)
UserSpec == UserInit /\ [][UserStep]_userVars

Request == [kind : {"none", "login", "forgot", "reset", "ban", "unban", "resend", "verify"},
            pc : {"idle", "find", "save", "done"}, code : 0..MaxUpdates, found : Row]

UserTypesOK ==
  /\ user \in Row
  /\ updates \in [Updates -> Request]
  /\ lapsed \subseteq Updates /\ spent \subseteq Updates

UserFlagsOK == banned \in BOOLEAN /\ stale \in BOOLEAN

(* A code is the number of a request that is over.                         *)
Over == {q \in Updates : updates[q].pc = "done"}

(* Every code is of a request that is over: those in the row and in what   *)
(* was found of it, and those used.  A reset has a code.                   *)
CodesOK ==
  /\ user.otp \in Over \cup {NoCode}
  /\ \A r \in Updates : updates[r].found.otp \in Over \cup {NoCode}
  /\ \A r \in Updates : updates[r].kind = "reset" => updates[r].code \in Over
  /\ spent \subseteq Over

(* Until a save puts back a column, a code is gone once it was used.       *)
CodesGone == ~stale => (user.active <=> ~banned) /\ user.otp \notin spent

NoneReused == reused \in BOOLEAN /\ (~stale => ~reused)

UserInv == UserTypesOK /\ UserFlagsOK /\ CodesOK /\ CodesGone

LEMMA UserInvInit == UserInit => UserInv
<1> SUFFICES ASSUME UserInit PROVE UserInv
  OBVIOUS
<1>1. user \in Row /\ user.otp = NoCode /\ user.active
  BY MaxUpdatesAssumption DEF UserInit, Row, NoCode
<1>2. UserTypesOK /\ CodesOK
  <2>1. [kind |-> "none", pc |-> "idle", code |-> NoCode, found |-> user] \in Request
    BY <1>1, MaxUpdatesAssumption DEF Request, NoCode
  <2> QED
    BY <1>1, <2>1 DEF UserInit, UserTypesOK, CodesOK
<1>3. UserFlagsOK
  BY Zenon DEF UserInit, UserFlagsOK
<1>4. CodesGone
  BY <1>1 DEF UserInit, CodesGone
<1> QED
  BY <1>2, <1>3, <1>4 DEF UserInv

(* A request arrives.  Its code, if it has one, is that of the row.        *)
LEMMA AskKeeps ==
  ASSUME UserInv, NEW r \in Updates,
         NEW kind \in {"login", "forgot", "reset", "ban", "unban", "resend", "verify"},
         NEW code \in 0..MaxUpdates,
         kind = "reset" => code # NoCode /\ code = user.otp,
         Ask(r, kind, code)
  PROVE  UserInv'
<1> DEFINE asked == [updates[r] EXCEPT !.kind = kind, !.pc = "find", !.code = code]
<1>1. /\ updates' = [updates EXCEPT ![r] = asked]
      /\ updates[r].pc = "idle"
      /\ UNCHANGED <<user, lapsed, banned, spent, stale>>
  BY DEF Ask
<1>2. updates[r] \in Request
  BY DEF UserInv, UserTypesOK
<1>3. /\ asked \in Request
      /\ asked.kind = kind /\ asked.pc = "find" /\ asked.code = code
      /\ asked.found = updates[r].found
  BY <1>2 DEF Request
<1>4. UserTypesOK'
  BY <1>1, <1>3 DEF UserInv, UserTypesOK
<1>5. Over \subseteq Over'
  BY <1>1 DEF UserInv, UserTypesOK, Over
<1>6. CodesOK'
  <2>1. user'.otp \in Over' \cup {NoCode} /\ spent' \subseteq Over'
    BY <1>1, <1>5 DEF UserInv, CodesOK
  <2>2. ASSUME NEW q \in Updates
        PROVE  /\ updates'[q].found.otp \in Over' \cup {NoCode}
               /\ updates'[q].kind = "reset" => updates'[q].code \in Over'
    <3>1. CASE q = r
      BY <1>1, <1>3, <1>5, <3>1 DEF UserInv, UserTypesOK, CodesOK
    <3>2. CASE q # r
      BY <1>1, <1>5, <3>2 DEF UserInv, UserTypesOK, CodesOK
    <3> QED
      BY <3>1, <3>2
  <2> QED
    BY <2>1, <2>2 DEF CodesOK
<1>7. UserFlagsOK'
  BY <1>1, Zenon DEF UserInv, UserFlagsOK
<1>8. CodesGone'
  BY <1>1 DEF UserInv, CodesGone
<1> QED
  BY <1>4, <1>6, <1>7, <1>8 DEF UserInv

(* update, first half: what is found is the row.                           *)
LEMMA FindKeeps == ASSUME UserInv, NEW r \in Updates, Find(r) PROVE UserInv'
<1> DEFINE found == [updates[r] EXCEPT !.pc = "save", !.found = user]
<1>1. /\ updates' = [updates EXCEPT ![r] = found]
      /\ updates[r].pc = "find"
      /\ UNCHANGED <<user, lapsed, banned, spent, stale>>
  BY DEF Find
<1>2. /\ found \in Request
      /\ found.kind = updates[r].kind /\ found.pc = "save" /\ found.code = updates[r].code
      /\ found.found = user
  BY DEF UserInv, UserTypesOK, Request
<1>3. UserTypesOK'
  BY <1>1, <1>2 DEF UserInv, UserTypesOK
<1>4. Over \subseteq Over'
  BY <1>1 DEF UserInv, UserTypesOK, Over
<1>5. CodesOK'
  <2>1. user'.otp \in Over' \cup {NoCode} /\ spent' \subseteq Over'
    BY <1>1, <1>4 DEF UserInv, CodesOK
  <2>2. ASSUME NEW q \in Updates
        PROVE  /\ updates'[q].found.otp \in Over' \cup {NoCode}
               /\ updates'[q].kind = "reset" => updates'[q].code \in Over'
    <3>1. CASE q = r
      BY <1>1, <1>2, <1>4, <3>1 DEF UserInv, UserTypesOK, CodesOK
    <3>2. CASE q # r
      BY <1>1, <1>4, <3>2 DEF UserInv, UserTypesOK, CodesOK
    <3> QED
      BY <3>1, <3>2
  <2> QED
    BY <2>1, <2>2 DEF CodesOK
<1>6. UserFlagsOK'
  BY <1>1, Zenon DEF UserInv, UserFlagsOK
<1>7. CodesGone'
  BY <1>1 DEF UserInv, CodesGone
<1> QED
  BY <1>3, <1>5, <1>6, <1>7 DEF UserInv

(* What is saved is a row; its code is the request's own, none, or the one *)
(* that was found.                                                         *)
LEMMA MergedRow ==
  ASSUME UserInv, NEW r \in Updates
  PROVE  /\ Merged(r) \in Row
         /\ Merged(r).otp = IF updates[r].kind = "forgot" THEN r
                            ELSE IF updates[r].kind = "reset" THEN NoCode ELSE updates[r].found.otp
         /\ Merged(r).active = (updates[r].kind = "unban"
                                  \/ (updates[r].found.active /\ updates[r].kind # "ban"))
<1> DEFINE row == updates[r].found
           kind == updates[r].kind
           a == kind = "unban" \/ (row.active /\ kind # "ban")
           v == row.verified \/ kind = "verify"
           o == IF kind = "forgot" THEN r ELSE IF kind = "reset" THEN NoCode ELSE row.otp
           m == IF kind = "resend" THEN r ELSE IF kind = "verify" THEN NoCode ELSE row.mail
<1>1. row \in Row /\ r \in 0..MaxUpdates /\ NoCode \in 0..MaxUpdates
  BY MaxUpdatesAssumption DEF UserInv, UserTypesOK, Request, Updates, NoCode
<1>2. o \in 0..MaxUpdates /\ m \in 0..MaxUpdates
  <2>1. row.otp \in 0..MaxUpdates /\ row.mail \in 0..MaxUpdates
    BY <1>1 DEF Row
  <2> QED
    BY <1>1, <2>1
<1>3. a \in BOOLEAN /\ v \in BOOLEAN
  BY Zenon
<1>4. Merged(r) = [row EXCEPT !.active = a, !.verified = v, !.otp = o, !.mail = m]
  BY Zenon DEF Merged
<1> HIDE DEF a, v, o, m, row
<1> DEFINE new == [row EXCEPT !.active = a, !.verified = v, !.otp = o, !.mail = m]
<1>5. new \in Row /\ new.active = a /\ new.otp = o
  BY <1>1, <1>2, <1>3, Zenon DEF Row
<1> HIDE DEF new
<1>6. Merged(r) = new
  BY <1>4, Zenon DEF new
<1> QED
  BY <1>5, <1>6, Zenon DEF a, o, row

(* update, second half.  If the row had changed in between, a column may   *)
(* be put back, and the step says so.                                      *)
LEMMA SaveKeeps == ASSUME UserInv, NEW r \in Updates, Save(r) PROVE UserInv'
<1> DEFINE kind == updates[r].kind
           found == updates[r].found
           password == IF kind = "reset" THEN r ELSE user.password
           saved == [updates[r] EXCEPT !.pc = "done", !.found = user']
<1>1. /\ updates[r].pc = "save"
      /\ user' = [Merged(r) EXCEPT !.password = password]
      /\ updates' = [updates EXCEPT ![r] = saved]
      /\ spent' = spent \cup (IF kind = "reset" THEN {updates[r].code} ELSE {})
      /\ UNCHANGED lapsed
  BY DEF Save
<1>2. /\ stale' = (stale \/ found # [user EXCEPT !.password = found.password])
      /\ banned' = (kind = "ban" \/ (banned /\ kind # "unban"))
  BY Zenon DEF Save
<1>3. /\ user' \in Row /\ user'.otp = Merged(r).otp /\ user'.active = Merged(r).active
  <2>1. password \in 0..MaxUpdates
    BY MaxUpdatesAssumption DEF UserInv, UserTypesOK, Row, Updates
  <2> QED
    BY <1>1, <2>1, MergedRow DEF Row
<1>4. /\ saved \in Request
      /\ saved.pc = "done" /\ saved.kind = kind /\ saved.code = updates[r].code /\ saved.found = user'
  BY <1>3 DEF UserInv, UserTypesOK, Request
<1>5. UserTypesOK'
  <2>1. kind = "reset" => updates[r].code \in Updates
    BY DEF UserInv, CodesOK, Over
  <2> QED
    BY <1>1, <1>3, <1>4, <2>1 DEF UserInv, UserTypesOK
<1>6. Over \subseteq Over' /\ r \in Over' /\ r \notin Over
  BY <1>1, <1>4 DEF UserInv, UserTypesOK, Over
<1>7. CodesOK'
  <2>1. user'.otp \in Over' \cup {NoCode}
    BY <1>3, <1>6, MergedRow DEF UserInv, CodesOK
  <2>2. spent' \subseteq Over'
    BY <1>1, <1>6 DEF UserInv, CodesOK
  <2>3. ASSUME NEW q \in Updates
        PROVE  /\ updates'[q].found.otp \in Over' \cup {NoCode}
               /\ updates'[q].kind = "reset" => updates'[q].code \in Over'
    <3>1. CASE q = r
      BY <1>1, <1>4, <1>6, <2>1, <3>1 DEF UserInv, UserTypesOK, CodesOK
    <3>2. CASE q # r
      BY <1>1, <1>6, <3>2 DEF UserInv, UserTypesOK, CodesOK
    <3> QED
      BY <3>1, <3>2
  <2> QED
    BY <2>1, <2>2, <2>3 DEF CodesOK
<1>8. UserFlagsOK'
  BY <1>2, Zenon DEF UserFlagsOK
<1>9. ASSUME ~stale' PROVE user'.otp \notin spent' /\ (user'.active <=> ~banned')
  <2>1. ~stale /\ found = [user EXCEPT !.password = found.password]
    BY <1>2, <1>9, Zenon
  <2>2. found.otp = user.otp /\ found.active = user.active
    BY <2>1 DEF UserInv, UserTypesOK, Row
  <2>3. user.otp \notin spent /\ (user.active <=> ~banned)
    BY <2>1 DEF UserInv, CodesGone
  <2>4. user'.otp \notin spent'
    <3>1. NoCode \notin Updates
      BY MaxUpdatesAssumption DEF NoCode, Updates
    <3>2. spent \subseteq Over /\ Over \subseteq Updates /\ (kind = "reset" => updates[r].code \in Over)
      BY DEF UserInv, CodesOK, Over
    <3>3. CASE kind = "forgot"
      BY <1>1, <1>3, <1>6, <3>2, <3>3, MergedRow
    <3>4. CASE kind = "reset"
      BY <1>1, <1>3, <3>1, <3>2, <3>4, MergedRow
    <3>5. CASE kind \notin {"forgot", "reset"}
      BY <1>1, <1>3, <2>2, <2>3, <3>5, MergedRow
    <3> QED
      BY <3>3, <3>4, <3>5
  <2>5. user'.active <=> ~banned'
    <3>1. user'.active = (kind = "unban" \/ (user.active /\ kind # "ban"))
      BY <1>3, <2>2, MergedRow, Zenon
    <3>2. CASE kind = "ban"
      <4>1. kind # "unban"
        BY <3>2
      <4> QED
        BY <1>2, <3>1, <3>2, <4>1, Zenon
    <3>3. CASE kind # "ban"
      BY <1>2, <2>3, <3>1, <3>3, Zenon
    <3> QED
      BY <3>2, <3>3
  <2> QED
    BY <2>4, <2>5
<1>10. CodesGone'
  BY <1>9 DEF CodesGone
<1> QED
  BY <1>5, <1>7, <1>8, <1>10 DEF UserInv

LEMMA UserInvStep == UserInv /\ [UserStep]_userVars => UserInv'
<1> SUFFICES ASSUME UserInv, [UserStep]_userVars PROVE UserInv'
  OBVIOUS
<1>1. NoCode \in 0..MaxUpdates /\ user.otp \in 0..MaxUpdates /\ user.mail \in 0..MaxUpdates
  BY MaxUpdatesAssumption DEF UserInv, UserTypesOK, Row, NoCode
<1>2. ASSUME NEW r \in Updates,
             Login(r) \/ OauthLogin(r) \/ ForgotPassword(r) \/ Ban(r) \/ Unban(r)
               \/ ResendVerification(r) \/ VerifyEmail(r)
      PROVE  UserInv'
  BY <1>1, <1>2, AskKeeps
  DEF Login, OauthLogin, ForgotPassword, Ban, Unban, ResendVerification, VerifyEmail
<1>3. ASSUME NEW r \in Updates, ResetPassword(r) PROVE UserInv'
  BY <1>1, <1>3, AskKeeps DEF ResetPassword
<1>4. ASSUME NEW r \in Updates, Find(r) PROVE UserInv'
  BY <1>4, FindKeeps
<1>5. ASSUME NEW r \in Updates, Save(r) PROVE UserInv'
  BY <1>5, SaveKeeps
<1>6. CASE Lapse
  <2>1. user.otp \in Updates \cup {NoCode} /\ user.mail \in Updates \cup {NoCode}
    BY <1>1, MaxUpdatesAssumption DEF Updates, NoCode
  <2>2. /\ lapsed' \subseteq Updates
        /\ UNCHANGED <<user, updates, banned, spent, stale>>
    BY <1>6, <2>1 DEF Lapse, UserInv, UserTypesOK
  <2>3. UserTypesOK' /\ CodesOK' /\ CodesGone'
    BY <2>2 DEF UserInv, UserTypesOK, CodesOK, Over, CodesGone
  <2>4. UserFlagsOK'
    BY <2>2, Zenon DEF UserInv, UserFlagsOK
  <2> QED
    BY <2>3, <2>4 DEF UserInv
<1>7. CASE UNCHANGED userVars
  <2>1. UserTypesOK' /\ CodesOK' /\ CodesGone'
    BY <1>7 DEF userVars, UserInv, UserTypesOK, CodesOK, Over, CodesGone
  <2>2. UserFlagsOK'
    BY <1>7, Zenon DEF userVars, UserInv, UserFlagsOK
  <2> QED
    BY <2>1, <2>2 DEF UserInv
<1> QED
  BY <1>2, <1>3, <1>4, <1>5, <1>6, <1>7 DEF UserStep

(* A reset is let in with the code of the row.                             *)
LEMMA NoneReusedStep == UserInv /\ NoneReused /\ [UserStep]_userVars => NoneReused'
<1> SUFFICES ASSUME UserInv, NoneReused, [UserStep]_userVars PROVE NoneReused'
  OBVIOUS
<1>1. ASSUME NEW r \in Updates, NEW kind, NEW code, Ask(r, kind, code), kind # "reset" PROVE NoneReused'
  BY <1>1, Zenon DEF Ask, NoneReused
<1>2. ASSUME NEW r \in Updates,
             Login(r) \/ OauthLogin(r) \/ ForgotPassword(r) \/ Ban(r) \/ Unban(r)
               \/ ResendVerification(r) \/ VerifyEmail(r)
      PROVE  NoneReused'
  <2>1. PICK kind, code : Ask(r, kind, code) /\ kind # "reset"
    BY <1>2 DEF Login, OauthLogin, ForgotPassword, Ban, Unban, ResendVerification, VerifyEmail
  <2> QED
    BY <1>1, <2>1
<1>3. ASSUME NEW r \in Updates, ResetPassword(r) PROVE NoneReused'
  <2>1. Ask(r, "reset", user.otp)
    BY <1>3 DEF ResetPassword
  <2>2. ~stale => user.otp \notin spent
    BY DEF UserInv, CodesGone
  <2> QED
    BY <2>1, <2>2, Zenon DEF Ask, NoneReused
<1>4. ASSUME reused' = reused, stale => stale' PROVE NoneReused'
  BY <1>4, Zenon DEF NoneReused
<1>5. ASSUME NEW r \in Updates, Find(r) PROVE NoneReused'
  BY <1>4, <1>5, Zenon DEF Find
<1>6. ASSUME NEW r \in Updates, Save(r) PROVE NoneReused'
  <2>1. stale' = (stale \/ updates[r].found # [user EXCEPT !.password = updates[r].found.password])
    BY <1>6, Zenon DEF Save
  <2>2. reused' = reused
    BY <1>6, Zenon DEF Save
  <2>3. stale => stale'
    BY <2>1, Zenon
  <2> QED
    BY <1>4, <2>2, <2>3, Zenon
<1>7. CASE Lapse
  BY <1>4, <1>7, Zenon DEF Lapse
<1>8. CASE UNCHANGED userVars
  BY <1>4, <1>8, Zenon DEF userVars
<1> QED
  BY <1>2, <1>3, <1>5, <1>6, <1>7, <1>8 DEF UserStep

LEMMA UserInvAlways == UserSpec => [](UserInv /\ NoneReused)
<1>1. UserInit => NoneReused
  BY Zenon DEF UserInit, NoneReused
<1> QED
  BY <1>1, UserInvInit, UserInvStep, NoneReusedStep, PTL DEF UserSpec

(* The row, the requests and the flags have their types.                   *)
THEOREM UserTypes == UserSpec => []UserTypeOK
<1>1. UserInv /\ NoneReused => UserTypeOK
  BY Zenon DEF UserInv, NoneReused, UserTypesOK, UserFlagsOK, UserTypeOK, Request
<1> QED
  BY <1>1, UserInvAlways, PTL

(* A banned user stays inactive until the unban, and no reset is let in    *)
(* with a code that has reset the password, until a save puts back a       *)
(* column that had changed.                                                *)
THEOREM DecisionsAlwaysHold == UserSpec => []DecisionsHold
<1>1. UserInv /\ NoneReused => DecisionsHold
  BY Zenon DEF UserInv, CodesGone, NoneReused, DecisionsHold
<1> QED
  BY <1>1, UserInvAlways, PTL

(***************************************************************************)
(* Registration.  A link that opens an account carries the last password,  *)
(* for any number of requests.                                             *)
(***************************************************************************)
SignupSpec == SignupInit /\ [][SignupStep]_signupVars

SignupKinds  == {"none", "register", "resend", "verify", "google"}
SignupStages == {"idle", "pending", "getKey", "delOld", "setToken", "setKey", "exists",
                 "create", "delToken", "delKey", "done"}
SignupRequest == [kind : SignupKinds, pc : SignupStages, token : 0..MaxSignups]

SignupTables ==
  /\ links \subseteq Signups /\ newest \in 0..MaxSignups
  /\ account \in 0..MaxSignups /\ wanted \in 0..MaxSignups
  /\ signups \in [Signups -> SignupRequest]
  /\ passwordOf \in [Signups -> Signups]

SignupFlag == mixed \in BOOLEAN /\ slipped \in BOOLEAN

(* What a request at each of its steps is about, overlapped or not.        *)
SignupTyped(r) ==
  /\ signups[r].pc = "idle" => passwordOf[r] = r
  /\ signups[r].pc = "pending" => signups[r].kind \in {"resend", "verify"}
  /\ signups[r].pc \in {"pending", "exists", "create"} => signups[r].token \in Signups
  /\ signups[r].pc \in {"exists", "delToken"} => signups[r].kind = "verify"
  /\ signups[r].pc = "create" => signups[r].kind \in {"verify", "google"}
  /\ signups[r].pc \in {"delToken", "delKey"} => account # Nothing

Saving == {"getKey", "delOld", "setToken", "setKey"}

(* A request that nobody overlaps and no error disturbs: what it will save *)
(* or create is wanted, and the token it deletes is the one the address    *)
(* names.                                                                  *)
SignupOK(r) ==
  /\ signups[r].pc = "pending" /\ signups[r].kind = "resend" => signups[r].token = newest
  /\ signups[r].pc \in Saving => passwordOf[r] = wanted
  /\ signups[r].pc = "delOld" => signups[r].token = newest
  /\ signups[r].pc = "setToken" => links = {}
  /\ signups[r].pc = "setKey" => links \subseteq {r}
  /\ signups[r].pc \in {"exists", "create"} => passwordOf[signups[r].token] = wanted

Changing(r) == signups[r].pc \in Saving \/ (signups[r].pc = "create" /\ signups[r].kind = "google")

(* One link is alive, that of the newest token, and it registers what is   *)
(* wanted unless a request is about to change either.                      *)
LinkOK ==
  /\ links \subseteq {newest} \/ \E r \in Signups : signups[r].pc = "setKey"
  /\ newest \in links => passwordOf[newest] = wanted \/ \E r \in Signups : Changing(r)

SignupsApart ==
  /\ \A q, r \in Busy : q = r
  /\ account = Nothing => (\A r \in Signups : SignupOK(r)) /\ LinkOK
  /\ account # Nothing => account = wanted

SignupTabled == SignupTables /\ \A r \in Signups : SignupTyped(r)

SignupInv == SignupTabled /\ (~mixed /\ ~slipped => SignupsApart)

LEMMA SignupFields ==
  ASSUME NEW q \in SignupRequest
  PROVE  q.kind \in SignupKinds /\ q.pc \in SignupStages /\ q.token \in 0..MaxSignups
  BY DEF SignupRequest

LEMMA SignupInvInit == SignupInit => SignupInv /\ SignupFlag
<1> SUFFICES ASSUME SignupInit PROVE SignupInv /\ SignupFlag
  OBVIOUS
<1>1. SignupFlag
  BY Zenon DEF SignupInit, SignupFlag
<1>2. /\ links = {} /\ newest = Nothing /\ account = Nothing /\ wanted = Nothing
      /\ signups = [r \in Signups |-> [kind |-> "none", pc |-> "idle", token |-> Nothing]]
      /\ passwordOf = [r \in Signups |-> r]
  BY Zenon DEF SignupInit
<1>3. SignupTables
  BY <1>2, MaxSignupsAssumption DEF SignupTables, SignupRequest, SignupKinds, SignupStages, Nothing
<1>4. \A r \in Signups : SignupTyped(r) /\ SignupOK(r)
  BY <1>2 DEF SignupTyped, SignupOK, Saving
<1>5. SignupsApart
  BY <1>2, <1>4 DEF SignupsApart, Busy, LinkOK
<1> QED
  BY <1>1, <1>3, <1>4, <1>5, Zenon DEF SignupInv, SignupTabled

(* A request begins; nobody else is busy unless that is recorded.          *)
LEMMA ArriveEffect ==
  ASSUME SignupTables, NEW r \in Signups, NEW kind \in SignupKinds, NEW pc \in SignupStages,
         NEW token \in 0..MaxSignups, Arrive(r, kind, pc, token)
  PROVE  /\ signups[r].pc = "idle"
         /\ signups' \in [Signups -> SignupRequest]
         /\ signups'[r].kind = kind /\ signups'[r].pc = pc /\ signups'[r].token = token
         /\ \A q \in Signups : q # r => signups'[q] = signups[q]
         /\ UNCHANGED <<links, newest, account, passwordOf>>
         /\ ~mixed' => ~mixed /\ Busy = {}
<1>1. ~mixed' => ~mixed /\ Busy = {}
  BY Zenon DEF Arrive
<1>2. [kind |-> kind, pc |-> pc, token |-> token] \in SignupRequest
  BY DEF SignupRequest
<1> QED
  BY <1>1, <1>2 DEF Arrive, SignupTables

(* A request goes on.                                                      *)
LEMMA StepEffect ==
  ASSUME SignupTables, NEW r \in Signups, NEW to \in SignupStages, NEW token \in 0..MaxSignups,
         signups' = [signups EXCEPT ![r].pc = to, ![r].token = token]
  PROVE  /\ signups' \in [Signups -> SignupRequest]
         /\ signups'[r].pc = to /\ signups'[r].kind = signups[r].kind /\ signups'[r].token = token
         /\ \A q \in Signups : q # r => signups'[q] = signups[q]
<1> DEFINE s == [signups[r] EXCEPT !.pc = to, !.token = token]
<1>1. signups[r] \in SignupRequest
  BY DEF SignupTables
<1>2. s \in SignupRequest /\ s.pc = to /\ s.kind = signups[r].kind /\ s.token = token
  BY <1>1 DEF SignupRequest
<1>3. signups' = [signups EXCEPT ![r] = s]
  BY DEF SignupTables
<1> HIDE DEF s
<1>4. signups' \in [Signups -> SignupRequest]
  BY <1>2, <1>3, ZenonT(60) DEF SignupTables
<1>5. signups'[r] = s /\ \A q \in Signups : q # r => signups'[q] = signups[q]
  BY <1>3, Zenon DEF SignupTables
<1> QED
  BY <1>2, <1>4, <1>5, Zenon

LEMMA StepIsMove ==
  ASSUME SignupTables, NEW r \in Signups, NEW from, NEW to \in SignupStages, Step(r, from, to)
  PROVE  /\ signups[r].pc = from /\ mixed' = mixed
         /\ signups' \in [Signups -> SignupRequest]
         /\ signups'[r].pc = to /\ signups'[r].kind = signups[r].kind /\ signups'[r].token = signups[r].token
         /\ \A q \in Signups : q # r => signups'[q] = signups[q]
<1> DEFINE s == [signups[r] EXCEPT !.pc = to]
<1>1. signups[r] \in SignupRequest
  BY DEF SignupTables
<1>2. s \in SignupRequest /\ s.pc = to /\ s.kind = signups[r].kind /\ s.token = signups[r].token
  BY <1>1 DEF SignupRequest
<1>3. signups' = [signups EXCEPT ![r] = s]
  BY DEF Step, SignupTables
<1>4. signups[r].pc = from /\ mixed' = mixed
  BY DEF Step
<1> HIDE DEF s
<1>5. /\ signups' \in [Signups -> SignupRequest] /\ signups'[r] = s
      /\ \A q \in Signups : q # r => signups'[q] = signups[q]
  BY <1>2, <1>3 DEF SignupTables
<1> QED
  BY <1>2, <1>4, <1>5, Zenon

(* While one request is busy the others are idle or over.                  *)
LEMMA OthersAreQuiet ==
  ASSUME SignupTables, SignupsApart, NEW r \in Signups, signups[r].pc \notin {"idle", "done"}
  PROVE  \A q \in Signups : q # r => signups[q].pc \in {"idle", "done"}
  BY DEF SignupsApart, Busy

LEMMA ArrivalKeeps ==
  ASSUME SignupTabled, NEW r \in Signups, Register(r) \/ Resend(r) \/ Verify(r) \/ Google(r)
  PROVE  SignupTabled' /\ (SignupsApart /\ ~mixed' => SignupsApart')
<1> USE MaxSignupsAssumption DEF SignupKinds, SignupStages, SignupTabled, Signups, Nothing
<1>1. PICK kind \in SignupKinds, pc \in SignupStages, token \in 0..MaxSignups :
        /\ Arrive(r, kind, pc, token)
        /\ \/ account = Nothing /\ kind = "register" /\ pc = "getKey" /\ wanted' = r
           \/ kind = "resend" /\ pc = "pending" /\ token = newest /\ newest # Nothing /\ wanted' = wanted
           \/ kind = "verify" /\ pc = "pending" /\ token \in Signups /\ wanted' = wanted
           \/ account = Nothing /\ kind = "google" /\ pc = "create" /\ token = r /\ wanted' = r
  <2>1. newest \in 0..MaxSignups
    BY DEF SignupTables
  <2> QED
    BY <2>1 DEF Register, Resend, Verify, Google
<1>2. /\ signups[r].pc = "idle"
      /\ signups' \in [Signups -> SignupRequest]
      /\ signups'[r].kind = kind /\ signups'[r].pc = pc /\ signups'[r].token = token
      /\ \A q \in Signups : q # r => signups'[q] = signups[q]
      /\ UNCHANGED <<links, newest, account, passwordOf>>
  BY <1>1, ArriveEffect
<1>3. ~mixed' => Busy = {}
  BY <1>1, ArriveEffect
<1>4. SignupTables'
  <2>1. wanted' \in 0..MaxSignups
    <3>1. r \in 0..MaxSignups
      OBVIOUS
    <3>2. wanted' = r \/ wanted' = wanted
      BY <1>1
    <3> QED
      BY <3>1, <3>2 DEF SignupTables
  <2>2. links' = links /\ newest' = newest /\ account' = account /\ passwordOf' = passwordOf
    BY <1>2
  <2>3. SignupTables
    OBVIOUS
  <2> QED
    BY <1>2, <2>1, <2>2, <2>3, Zenon DEF SignupTables
<1>5. ASSUME NEW q \in Signups PROVE SignupTyped(q)'
  <2>1. CASE q = r
    <3>1. signups'[q].pc = pc /\ signups'[q].kind = kind /\ signups'[q].token = token /\ passwordOf' = passwordOf
      BY <1>2, <2>1
    <3>2. passwordOf[q] = q
      BY <1>2, <2>1 DEF SignupTyped
    <3> QED
      BY <1>1, <2>1, <3>1, <3>2 DEF SignupTyped, SignupTables
  <2>2. CASE q # r
    BY <1>2, <2>2 DEF SignupTyped
  <2> QED
    BY <2>1, <2>2
<1>6. ASSUME SignupsApart, Busy = {} PROVE SignupsApart'
  <2>1. \A q \in Signups : signups[q].pc \in {"idle", "done"} /\ (q # r => signups'[q].pc \in {"idle", "done"})
    BY <1>2, <1>6 DEF Busy
  <2>2. account' = account /\ (account # Nothing => wanted' = wanted)
    BY <1>1, <1>2
  <2>3. ASSUME account = Nothing, NEW q \in Signups PROVE SignupOK(q)'
    BY <1>1, <1>2, <2>1, <2>3 DEF SignupOK, SignupTyped, Saving
  <2>4. account = Nothing => LinkOK'
    BY <1>1, <1>2, <1>6, <2>1 DEF SignupsApart, LinkOK, Changing, Saving
  <2> QED
    BY <1>6, <2>1, <2>2, <2>3, <2>4 DEF SignupsApart, Busy
<1> QED
  BY <1>3, <1>4, <1>5, <1>6, Zenon

(* While it is alone and saves nothing, the link that is alive registers   *)
(* what is wanted.                                                         *)
LEMMA LinkIsWanted ==
  ASSUME SignupTables, SignupsApart, account = Nothing, NEW r \in Signups,
         signups[r].pc \notin {"idle", "done"}, ~Changing(r)
  PROVE  links \subseteq {newest} /\ (newest \in links => passwordOf[newest] = wanted) /\ SignupOK(r)
  BY OthersAreQuiet DEF SignupsApart, LinkOK, Changing, Saving

LEMMA ReadPendingKeeps ==
  ASSUME SignupTabled, NEW r \in Signups, ReadPending(r)
  PROVE  SignupTabled' /\ (SignupsApart => SignupsApart')
<1> USE MaxSignupsAssumption DEF SignupKinds, SignupStages, SignupTabled, Signups, Nothing
<1>1. PICK to \in SignupStages :
        /\ Step(r, "pending", to)
        /\ \/ to = "done"
           \/ signups[r].token \in links /\ to = IF signups[r].kind = "resend" THEN "getKey" ELSE "exists"
  BY DEF ReadPending
<1>2. /\ passwordOf' = IF signups[r].kind = "resend"
                       THEN [passwordOf EXCEPT ![r] = passwordOf[signups[r].token]] ELSE passwordOf
      /\ UNCHANGED <<links, newest, account, wanted>>
  BY DEF ReadPending
<1>3. /\ signups[r].pc = "pending"
      /\ signups' \in [Signups -> SignupRequest]
      /\ signups'[r].pc = to /\ signups'[r].kind = signups[r].kind /\ signups'[r].token = signups[r].token
      /\ \A q \in Signups : q # r => signups'[q] = signups[q]
  BY <1>1, StepIsMove
<1>4. SignupTyped(r)
  OBVIOUS
<1>5. SignupTables'
  BY <1>2, <1>3, <1>4 DEF SignupTables, SignupTyped
<1>6. \A q \in Signups : SignupTyped(q)'
  BY <1>1, <1>2, <1>3, <1>4 DEF SignupTyped, SignupTables
<1>7. ASSUME SignupsApart PROVE SignupsApart'
  <2>1. \A q \in Signups : q # r => signups'[q].pc \in {"idle", "done"}
    BY <1>3, <1>7, OthersAreQuiet
  <2>2. ASSUME account = Nothing PROVE (\A q \in Signups : SignupOK(q)') /\ LinkOK'
    <3>1. links \subseteq {newest} /\ (newest \in links => passwordOf[newest] = wanted) /\ SignupOK(r)
      <4>1. ~Changing(r)
        BY <1>3 DEF Changing, Saving
      <4> QED
        BY <1>3, <1>7, <2>2, <4>1, LinkIsWanted
    <3>2. signups[r].kind = "resend" => signups[r].token = newest /\ passwordOf'[r] = passwordOf[newest]
      BY <1>2, <1>3, <3>1 DEF SignupOK, SignupTables
    <3>3. newest \in Signups => passwordOf'[newest] = passwordOf[newest]
      BY <1>2, <3>2 DEF SignupTables
    <3>4. signups[r].token \in links => signups[r].token = newest
      BY <3>1
    <3>5. SignupOK(r)'
      BY <1>1, <1>2, <1>3, <1>4, <3>1, <3>2, <3>3, <3>4 DEF SignupOK, SignupTyped, SignupTables, Saving
    <3>6. \A q \in Signups : SignupOK(q)'
      BY <2>1, <3>5 DEF SignupOK, Saving
    <3>7. LinkOK'
      BY <1>2, <3>1, <3>3 DEF LinkOK, SignupTables
    <3> QED
      BY <3>6, <3>7
  <2> QED
    BY <1>2, <1>7, <2>1, <2>2 DEF SignupsApart, Busy
<1> QED
  BY <1>5, <1>6, <1>7

(* The commands that save a registration.                                  *)
LEMMA SavingKeeps ==
  ASSUME SignupTabled, NEW r \in Signups, GetKey(r) \/ DelOld(r) \/ SetToken(r) \/ SetKey(r)
  PROVE  SignupTabled' /\ (SignupsApart /\ ~slipped' => SignupsApart')
<1> USE MaxSignupsAssumption DEF SignupKinds, SignupStages, SignupTabled, Signups, Nothing
<1>1. PICK to \in SignupStages, token \in 0..MaxSignups :
        /\ signups[r].pc \in Saving /\ to \in {"delOld", "setToken", "setKey", "done"}
        /\ UNCHANGED <<account, passwordOf, wanted>>
        /\ links' \in {links, links \ {signups[r].token}, links \cup {r}} /\ newest' \in {newest, r}
        /\ signups'[r].pc = to /\ signups'[r].kind = signups[r].kind /\ signups'[r].token = token
        /\ signups' \in [Signups -> SignupRequest]
        /\ \A q \in Signups : q # r => signups'[q] = signups[q]
        /\ \/ slipped'
           \/ /\ signups[r].pc = "getKey" /\ to = (IF newest = Nothing THEN "setToken" ELSE "delOld") /\ token = newest
              /\ UNCHANGED <<links, newest>>
           \/ signups[r].pc = "delOld" /\ to = "setToken" /\ links' = links \ {signups[r].token} /\ newest' = newest
           \/ signups[r].pc = "setToken" /\ to = "setKey" /\ links' \in {links \cup {r}, links} /\ newest' = newest
           \/ signups[r].pc = "setKey" /\ to = "done" /\ newest' = r /\ links' = links
  <2>1. CASE GetKey(r)
    <3>1. newest \in 0..MaxSignups /\ Nothing \in 0..MaxSignups
      BY DEF SignupTables
    <3>2. PICK next \in SignupStages, tk \in 0..MaxSignups :
            /\ signups' = [signups EXCEPT ![r].pc = next, ![r].token = tk]
            /\ next \in {"delOld", "setToken"}
            /\ slipped' \/ (next = (IF newest = Nothing THEN "setToken" ELSE "delOld") /\ tk = newest)
      <4> DEFINE nx == IF newest = Nothing THEN "setToken" ELSE "delOld"
      <4>1. nx \in SignupStages /\ nx \in {"delOld", "setToken"} /\ "setToken" \in SignupStages
        OBVIOUS
      <4>2. \/ signups' = [signups EXCEPT ![r].pc = nx, ![r].token = newest]
            \/ signups' = [signups EXCEPT ![r].pc = "setToken", ![r].token = Nothing] /\ slipped'
        BY <2>1, Zenon DEF GetKey
      <4>3. "setToken" \in {"delOld", "setToken"} /\ nx = (IF newest = Nothing THEN "setToken" ELSE "delOld")
        OBVIOUS
      <4> HIDE DEF nx
      <4> QED
        BY <3>1, <4>1, <4>2, <4>3, Zenon
    <3>3. signups[r].pc = "getKey" /\ UNCHANGED <<links, newest, account, passwordOf, wanted>>
      BY <2>1, Zenon DEF GetKey
    <3>4. /\ signups' \in [Signups -> SignupRequest]
          /\ signups'[r].pc = next /\ signups'[r].kind = signups[r].kind /\ signups'[r].token = tk
          /\ \A q \in Signups : q # r => signups'[q] = signups[q]
      BY <3>2, StepEffect, ZenonT(60)
    <3>5. signups[r].pc \in Saving /\ next \in {"delOld", "setToken", "setKey", "done"}
      BY <3>2, <3>3 DEF Saving
    <3>6. links' \in {links, links \ {signups[r].token}, links \cup {r}} /\ newest' \in {newest, r}
      BY <3>3
    <3> QED
      BY <3>2, <3>3, <3>4, <3>5, <3>6, Zenon
  <2>2. signups[r].token \in 0..MaxSignups
    BY SignupFields DEF SignupTables
  <2>3. CASE DelOld(r)
    <3>1. Step(r, "delOld", "setToken") /\ UNCHANGED <<newest, account, passwordOf, wanted>>
          /\ (links' = links \ {signups[r].token} \/ (slipped' /\ links' = links))
      BY <2>3, Zenon DEF DelOld
    <3> QED
      BY <2>2, <3>1, StepIsMove DEF Saving
  <2>4. CASE SetToken(r)
    <3>1. Step(r, "setToken", "setKey") /\ UNCHANGED <<newest, account, passwordOf, wanted>>
          /\ links' \in {links \cup {r}, links}
      BY <2>4, Zenon DEF SetToken
    <3> QED
      BY <2>2, <3>1, StepIsMove DEF Saving
  <2>5. CASE SetKey(r)
    <3>1. Step(r, "setKey", "done") /\ UNCHANGED <<links, account, passwordOf, wanted>>
          /\ (newest' = r \/ (slipped' /\ newest' = newest))
      BY <2>5, Zenon DEF SetKey
    <3> QED
      BY <2>2, <3>1, StepIsMove DEF Saving
  <2> QED
    BY <2>1, <2>3, <2>4, <2>5
<1>2. SignupTables'
  <2>1. r \in 0..MaxSignups
    OBVIOUS
  <2>2. links' \subseteq Signups /\ newest' \in 0..MaxSignups
    BY <1>1, <2>1 DEF SignupTables
  <2>3. account' = account /\ passwordOf' = passwordOf /\ wanted' = wanted /\ signups' \in [Signups -> SignupRequest]
    BY <1>1
  <2> QED
    BY <2>2, <2>3 DEF SignupTables
<1>3. ASSUME NEW q \in Signups PROVE SignupTyped(q)'
  <2>1. CASE q = r
    <3>1. signups'[q].pc \in {"delOld", "setToken", "setKey", "done"}
      BY <1>1, <2>1
    <3> QED
      BY <3>1 DEF SignupTyped
  <2>2. CASE q # r
    <3>1. signups'[q] = signups[q] /\ passwordOf' = passwordOf /\ account' = account
      BY <1>1, <2>2
    <3> QED
      BY <3>1 DEF SignupTyped
  <2> QED
    BY <2>1, <2>2
<1>4. ASSUME SignupsApart, ~slipped' PROVE SignupsApart'
  <2>1. \A q \in Signups : q # r => signups'[q].pc \in {"idle", "done"}
    BY <1>1, <1>4, OthersAreQuiet DEF Saving
  <2>2. ASSUME account = Nothing PROVE (\A q \in Signups : SignupOK(q)') /\ LinkOK'
    <3>1. SignupOK(r) /\ passwordOf[r] = wanted
      BY <1>1, <1>4, <2>2 DEF SignupsApart, SignupOK
    <3>2. signups[r].pc # "setKey" => links \subseteq {newest}
      BY <1>1, <1>4, <2>1, <2>2 DEF SignupsApart, LinkOK
    <3>3. /\ \/ signups[r].pc = "getKey" /\ links' = links
                /\ to = (IF newest = Nothing THEN "setToken" ELSE "delOld") /\ token = newest /\ newest' = newest
             \/ signups[r].pc = "delOld" /\ to = "setToken" /\ links' = links \ {signups[r].token} /\ newest' = newest
             \/ signups[r].pc = "setToken" /\ to = "setKey" /\ links' \in {links \cup {r}, links} /\ newest' = newest
             \/ signups[r].pc = "setKey" /\ to = "done" /\ newest' = r /\ links' = links
      BY <1>1, <1>4, Zenon
    <3>4. UNCHANGED <<passwordOf, wanted>> /\ signups'[r].pc = to /\ signups'[r].token = token
      BY <1>1
    <3>5. 0 \notin links
      BY DEF SignupTables
    <3>6. /\ to = "delOld" => token = newest'
          /\ to = "setToken" => links' = {}
          /\ to = "setKey" => links' \subseteq {r}
          /\ to = "done" => links' \subseteq {newest'} /\ newest' = r
      BY <3>1, <3>2, <3>3, <3>5 DEF SignupOK
    <3>7. SignupOK(r)'
      BY <1>1, <3>1, <3>4, <3>6 DEF SignupOK
    <3>8. \A q \in Signups : SignupOK(q)'
      BY <2>1, <3>7 DEF SignupOK, Saving
    <3>9. LinkOK'
      <4>1. CASE to = "done"
        BY <1>1, <3>1, <3>4, <3>6, <4>1 DEF LinkOK
      <4>2. CASE to # "done"
        <5>1. Changing(r)'
          BY <1>1, <4>2 DEF Changing, Saving
        <5>2. links' \subseteq {newest'} \/ to = "setKey"
          BY <3>2, <3>3, <4>2
        <5> QED
          BY <3>4, <5>1, <5>2 DEF LinkOK
      <4> QED
        BY <4>1, <4>2
    <3> QED
      BY <3>8, <3>9
  <2>3. account' = account /\ wanted' = wanted
    BY <1>1
  <2> QED
    BY <1>1, <1>4, <2>1, <2>2, <2>3 DEF SignupsApart, Busy
<1> QED
  BY <1>2, <1>3, <1>4

LEMMA ExistsKeeps ==
  ASSUME SignupTabled, NEW r \in Signups, Exists(r)
  PROVE  SignupTabled' /\ (SignupsApart => SignupsApart')
<1> USE MaxSignupsAssumption DEF SignupKinds, SignupStages, SignupTabled, Signups, Nothing
<1> DEFINE to == IF account = Nothing THEN "create" ELSE "delToken"
<1>1. Step(r, "exists", to) /\ UNCHANGED <<links, newest, account, passwordOf, wanted>>
  BY DEF Exists
<1>2. /\ signups[r].pc = "exists"
      /\ signups' \in [Signups -> SignupRequest]
      /\ signups'[r].pc = to /\ signups'[r].kind = signups[r].kind /\ signups'[r].token = signups[r].token
      /\ \A q \in Signups : q # r => signups'[q] = signups[q]
  BY <1>1, StepIsMove
<1>3. SignupTables'
  BY <1>1, <1>2, ZenonT(60) DEF SignupTables
<1>4. \A q \in Signups : SignupTyped(q)'
  <2>1. account' = account /\ passwordOf' = passwordOf
    BY <1>1
  <2>2. SignupTyped(r)'
    BY <1>2, <2>1 DEF SignupTyped
  <2>3. ASSUME NEW q \in Signups, q # r PROVE SignupTyped(q)'
    BY <1>2, <2>1, <2>3 DEF SignupTyped
  <2> QED
    BY <2>2, <2>3
<1>5. ASSUME SignupsApart PROVE SignupsApart'
  <2>1. \A q \in Signups : q # r => signups[q].pc \in {"idle", "done"}
    BY <1>2, <1>5, OthersAreQuiet
  <2>2. ASSUME account = Nothing PROVE (\A q \in Signups : SignupOK(q)') /\ LinkOK'
    <3>1. links \subseteq {newest} /\ (newest \in links => passwordOf[newest] = wanted) /\ SignupOK(r)
      <4>1. ~Changing(r)
        BY <1>2 DEF Changing, Saving
      <4> QED
        BY <1>2, <1>5, <2>2, <4>1, LinkIsWanted
    <3>2. \A q \in Signups : SignupOK(q)'
      BY <1>1, <1>2, <2>1, <2>2, <3>1 DEF SignupOK, Saving
    <3>3. LinkOK'
      BY <1>1, <3>1 DEF LinkOK
    <3> QED
      BY <3>2, <3>3
  <2> QED
    BY <1>1, <1>2, <1>5, <2>1, <2>2 DEF SignupsApart, Busy
<1> QED
  BY <1>3, <1>4, <1>5

LEMMA CreateKeeps ==
  ASSUME SignupTabled, NEW r \in Signups, Create(r)
  PROVE  SignupTabled' /\ (SignupsApart => SignupsApart')
<1> USE MaxSignupsAssumption DEF SignupKinds, SignupStages, SignupTabled, Signups, Nothing
<1> DEFINE to == IF account # Nothing \/ signups[r].kind = "google" THEN "done" ELSE "delToken"
<1>1. /\ Step(r, "create", to) /\ UNCHANGED <<links, newest, passwordOf, wanted>>
      /\ account' = IF account # Nothing THEN account ELSE passwordOf[signups[r].token]
  BY DEF Create
<1>2. /\ signups[r].pc = "create"
      /\ signups' \in [Signups -> SignupRequest]
      /\ signups'[r].pc = to /\ signups'[r].kind = signups[r].kind /\ signups'[r].token = signups[r].token
      /\ \A q \in Signups : q # r => signups'[q] = signups[q]
  BY <1>1, StepIsMove
<1>3. SignupTyped(r) /\ passwordOf[signups[r].token] \in Signups
  BY <1>2 DEF SignupTyped, SignupTables
<1>4. account' # Nothing
  BY <1>1, <1>3
<1>5. SignupTables' /\ \A q \in Signups : SignupTyped(q)'
  <2>1. account' \in 0..MaxSignups
    BY <1>1, <1>3 DEF SignupTables
  <2>2. SignupTables'
    BY <1>1, <1>2, <2>1 DEF SignupTables
  <2>3. signups'[r].pc \in {"done", "delToken"} /\ (signups'[r].pc = "delToken" => signups'[r].kind = "verify")
    BY <1>2, <1>3 DEF SignupTyped
  <2>4. SignupTyped(r)'
    BY <1>4, <2>3 DEF SignupTyped
  <2>5. ASSUME NEW q \in Signups, q # r PROVE SignupTyped(q)'
    BY <1>1, <1>2, <1>4, <2>5 DEF SignupTyped
  <2> QED
    BY <2>2, <2>4, <2>5
<1>6. ASSUME SignupsApart PROVE SignupsApart'
  <2>1. \A q \in Signups : q # r => signups[q].pc \in {"idle", "done"}
    BY <1>2, <1>6, OthersAreQuiet
  <2>2. account' = wanted'
    BY <1>1, <1>2, <1>6 DEF SignupOK, SignupsApart
  <2> QED
    BY <1>2, <1>4, <1>6, <2>1, <2>2 DEF SignupsApart, Busy
<1> QED
  BY <1>5, <1>6

LEMMA DeletionKeeps ==
  ASSUME SignupTabled, NEW r \in Signups, DelToken(r) \/ DelKey(r)
  PROVE  SignupTabled' /\ (SignupsApart => SignupsApart')
<1> USE MaxSignupsAssumption DEF SignupKinds, SignupStages, SignupTabled, Signups, Nothing
<1>1. PICK to \in {"delKey", "done"} :
        /\ UNCHANGED <<account, passwordOf, wanted>>
        /\ signups[r].pc \in {"delToken", "delKey"}
        /\ signups'[r].pc = to /\ signups'[r].kind = signups[r].kind /\ signups'[r].token = signups[r].token
        /\ signups' \in [Signups -> SignupRequest]
        /\ \A q \in Signups : q # r => signups'[q] = signups[q]
        /\ links' \subseteq links /\ newest' \in {Nothing, newest}
  BY StepIsMove DEF DelToken, DelKey
<1>2. account # Nothing
  BY <1>1 DEF SignupTyped
<1>3. SignupTables' /\ \A q \in Signups : SignupTyped(q)'
  <2>1. links' \subseteq Signups /\ newest' \in 0..MaxSignups
    BY <1>1 DEF SignupTables
  <2>2. account' = account /\ passwordOf' = passwordOf /\ wanted' = wanted /\ signups' \in [Signups -> SignupRequest]
    BY <1>1
  <2>3. SignupTables'
    BY <2>1, <2>2 DEF SignupTables
  <2>4. signups'[r].pc \in {"done", "delKey"}
    BY <1>1
  <2>5. SignupTyped(r)'
    BY <1>2, <2>2, <2>4 DEF SignupTyped
  <2>6. ASSUME NEW q \in Signups, q # r PROVE SignupTyped(q)'
    <3>1. signups'[q] = signups[q]
      BY <1>1, <2>6
    <3> QED
      BY <2>2, <3>1 DEF SignupTyped
  <2> QED
    BY <2>3, <2>5, <2>6
<1>4. ASSUME SignupsApart PROVE SignupsApart'
  <2>1. \A q \in Signups : q # r => signups[q].pc \in {"idle", "done"}
    BY <1>1, <1>4, OthersAreQuiet
  <2> QED
    BY <1>1, <1>2, <1>4, <2>1 DEF SignupsApart, Busy
<1> QED
  BY <1>3, <1>4

LEMMA LinkExpiresKeeps ==
  ASSUME SignupTabled, LinkExpires PROVE SignupTabled' /\ (SignupsApart => SignupsApart')
<1> USE MaxSignupsAssumption DEF SignupTabled, Signups, Nothing
<1>1. /\ UNCHANGED <<account, signups, passwordOf, wanted>> /\ Busy = {}
      /\ \/ links' \subseteq links /\ newest' = newest
         \/ newest \notin links /\ newest' = Nothing /\ links' = links
  BY DEF LinkExpires
<1>2. SignupTables' /\ \A q \in Signups : SignupTyped(q)'
  <2>1. links' \subseteq Signups /\ newest' \in 0..MaxSignups
    <3>1. links \subseteq Signups /\ newest \in 0..MaxSignups /\ 0 \in 0..MaxSignups
      BY DEF SignupTables
    <3> QED
      BY <1>1, <3>1
  <2>2. account' = account /\ passwordOf' = passwordOf /\ wanted' = wanted /\ signups' = signups
    BY <1>1
  <2> QED
    BY <2>1, <2>2 DEF SignupTables, SignupTyped
<1>3. ASSUME SignupsApart PROVE SignupsApart'
  <2>1. \A q \in Signups : signups[q].pc \in {"idle", "done"}
    BY <1>1 DEF Busy
  <2>2. \A q \in Signups : SignupOK(q)'
    BY <1>1, <2>1 DEF SignupOK, Saving
  <2>3. account = Nothing => LinkOK'
    BY <1>1, <1>3, <2>1 DEF SignupsApart, LinkOK, Changing, Saving
  <2> QED
    BY <1>1, <1>3, <2>2, <2>3 DEF SignupsApart, Busy
<1> QED
  BY <1>2, <1>3

(* An overlap and an error stay on record.                                 *)
LEMMA SignupFlagStep ==
  ASSUME SignupFlag, [SignupStep]_signupVars
  PROVE  SignupFlag' /\ (~mixed' /\ ~slipped' => ~mixed /\ ~slipped)
<1>1. ASSUME NEW r \in Signups, Register(r) \/ Resend(r) \/ Verify(r) \/ Google(r)
      PROVE  SignupFlag' /\ (~mixed' /\ ~slipped' => ~mixed /\ ~slipped)
  <2>1. mixed' = (mixed \/ Busy # {}) /\ slipped' = slipped
    BY <1>1, Zenon DEF Register, Resend, Verify, Google, Arrive
  <2> QED
    BY <2>1, Zenon DEF SignupFlag
<1>2. ASSUME NEW r \in Signups, GetKey(r) \/ DelOld(r) \/ SetKey(r)
      PROVE  SignupFlag' /\ (~mixed' /\ ~slipped' => ~mixed /\ ~slipped)
  <2>1. mixed' = mixed /\ (slipped' = slipped \/ slipped' = TRUE)
    BY <1>2, Zenon DEF GetKey, DelOld, SetKey, Step
  <2> QED
    BY <2>1, Zenon DEF SignupFlag
<1>3. CASE UNCHANGED <<mixed, slipped>>
  BY <1>3, Zenon DEF SignupFlag
<1> QED
  BY <1>1, <1>2, <1>3, Zenon DEF SignupStep, signupVars, ReadPending, SetToken, Exists, Create, DelToken, DelKey,
     LinkExpires, Step

LEMMA SignupInvStep == SignupInv /\ SignupFlag /\ [SignupStep]_signupVars => SignupInv'
<1> SUFFICES ASSUME SignupInv, SignupFlag, [SignupStep]_signupVars PROVE SignupInv'
  OBVIOUS
<1>1. SignupTabled
  BY DEF SignupInv
<1>2. SignupTabled' /\ (SignupsApart /\ ~mixed' /\ ~slipped' => SignupsApart')
  <2>1. CASE UNCHANGED signupVars
    BY <1>1, <2>1
    DEF signupVars, SignupTabled, SignupTables, SignupTyped, SignupsApart, SignupOK, LinkOK, Changing, Busy
  <2>2. ASSUME NEW r \in Signups, Register(r) \/ Resend(r) \/ Verify(r) \/ Google(r)
        PROVE  SignupTabled' /\ (SignupsApart /\ ~mixed' => SignupsApart')
    BY <1>1, <2>2, ArrivalKeeps, Zenon
  <2>3. ASSUME NEW r \in Signups, GetKey(r) \/ DelOld(r) \/ SetToken(r) \/ SetKey(r)
        PROVE  SignupTabled' /\ (SignupsApart /\ ~slipped' => SignupsApart')
    BY <1>1, <2>3, SavingKeeps, Zenon
  <2>4. ASSUME NEW r \in Signups, ReadPending(r) \/ Exists(r) \/ Create(r) \/ DelToken(r) \/ DelKey(r)
        PROVE  SignupTabled' /\ (SignupsApart => SignupsApart')
    BY <1>1, <2>4, ReadPendingKeeps, ExistsKeeps, CreateKeeps, DeletionKeeps, Zenon
  <2>5. CASE LinkExpires
    BY <1>1, <2>5, LinkExpiresKeeps, Zenon
  <2> QED
    BY <2>1, <2>2, <2>3, <2>4, <2>5, Zenon DEF SignupStep
<1> QED
  BY <1>2, SignupFlagStep, Zenon DEF SignupInv

LEMMA SignupInvAlways == SignupSpec => [](SignupInv /\ SignupFlag)
<1>1. SignupFlag /\ [SignupStep]_signupVars => SignupFlag'
  BY SignupFlagStep
<1> QED
  BY <1>1, SignupInvInit, SignupInvStep, PTL DEF SignupSpec

(* The links, the keys in Redis and the requests of a registration have    *)
(* their types.                                                            *)
THEOREM SignupTypes == SignupSpec => []SignupTypeOK
<1>1. SignupInv /\ SignupFlag => SignupTypeOK
  BY Zenon DEF SignupInv, SignupTabled, SignupFlag, SignupTables, SignupTypeOK, SignupRequest, SignupKinds, SignupStages
<1> QED
  BY <1>1, SignupInvAlways, PTL

(* Whatever link opens the account, it has the password of the last        *)
(* registration unless requests overlapped or an error kept it from the    *)
(* links before it, for any number of requests.                            *)
THEOREM AccountAlwaysHasLastPassword == SignupSpec => []AccountHasLastPassword
<1>1. SignupInv => AccountHasLastPassword
  BY Zenon DEF SignupInv, SignupsApart, AccountHasLastPassword
<1> QED
  BY <1>1, SignupInvAlways, PTL

(***************************************************************************)
(* TokenSync.  A known mint has its row, for any mints and any overlap of  *)
(* checks and jobs.                                                        *)
(***************************************************************************)
SyncSpec == SyncInit /\ [][SyncStep]_syncVars

SyncJob == [stage : {"pop", "jupiter", "chain", "upsert", "mark"},
            mints : SUBSET Mints, data : SUBSET Mints, left : SUBSET Mints, drops : SUBSET Mints]

SyncTables ==
  /\ version \in [Mints -> 0..MaxVersion] /\ metadata \in [Mints -> 0..MaxVersion]
  /\ queue \subseteq Mints /\ knownMints \subseteq Mints /\ discarded \subseteq Mints
  /\ checks \subseteq Mints \X {"row", "sadd", "sentinel"}
  /\ reads \in 0..MaxReads /\ undropped \subseteq Mints
  /\ job \in SyncJob
  /\ reader # NoReader => reader.mint \in Mints /\ reader.version \in 1..MaxVersion

SyncFlag == overtaken \in BOOLEAN

(* A mint is marked, by a check or by the job, only after its row was      *)
(* seen or written, and rows do not go away.                               *)
RowsOfMarked ==
  /\ \A m \in knownMints : version[m] > 0
  /\ \A m \in Mints : <<m, "sentinel">> \in checks => version[m] > 0
  /\ \A m \in job.left : version[m] > 0
  /\ job.stage # "mark" => job.left = {} /\ job.drops = {}

(* What is cached, or about to be, is of the row; only for the mints whose *)
(* rows the job wrote is the cache still to be dropped, unless that DEL    *)
(* failed.                                                                 *)
CachedOfRow ==
  /\ reader # NoReader => reader.version = version[reader.mint]
  /\ \A m \in Mints : metadata[m] \in {0, version[m]} \/ m \in job.left \cup job.drops \cup undropped

SyncInv == SyncTables /\ RowsOfMarked /\ (~overtaken => CachedOfRow)

LEMMA SyncInvInit == SyncInit => SyncInv /\ SyncFlag
<1> SUFFICES ASSUME SyncInit PROVE SyncInv /\ SyncFlag
  OBVIOUS
<1>1. job \in SyncJob /\ job.left = {} /\ job.drops = {}
  BY DEF SyncInit, NoJob, SyncJob
<1>2. /\ version = [m \in Mints |-> 0] /\ metadata = [m \in Mints |-> 0] /\ reader = NoReader
      /\ queue = {} /\ knownMints = {} /\ discarded = {} /\ checks = {} /\ reads = 0 /\ undropped = {}
  BY Zenon DEF SyncInit
<1>3. SyncFlag
  BY Zenon DEF SyncInit, SyncFlag
<1>4. SyncTables /\ RowsOfMarked /\ CachedOfRow
  BY <1>1, <1>2, SyncAssumption DEF SyncTables, RowsOfMarked, CachedOfRow
<1> QED
  BY <1>3, <1>4 DEF SyncInv

LEMMA JobFields ==
  ASSUME NEW j \in SyncJob
  PROVE  /\ j.stage \in {"pop", "jupiter", "chain", "upsert", "mark"}
         /\ j.mints \subseteq Mints /\ j.data \subseteq Mints /\ j.left \subseteq Mints /\ j.drops \subseteq Mints
  BY DEF SyncJob

LEMMA NoJobFields == NoJob \in SyncJob /\ NoJob.left = {} /\ NoJob.drops = {} /\ NoJob.stage = "pop"
  BY DEF SyncJob, NoJob

(* Steps of a check leave the rows and the caches alone.                   *)
LEMMA CheckKeeps ==
  ASSUME SyncInv, NEW m \in Mints, Seen(m) \/ CheckRow(m) \/ MarkKnown(m) \/ Enqueue(m) \/ CheckFails(m)
  PROVE  SyncInv'
<1>1. /\ checks' \subseteq Mints \X {"row", "sadd", "sentinel"}
      /\ \A x \in Mints : <<x, "sentinel">> \in checks' => <<x, "sentinel">> \in checks \/ version[x] > 0
      /\ \A x \in knownMints' : x \in knownMints \/ <<x, "sentinel">> \in checks
      /\ queue' \subseteq Mints /\ knownMints' \subseteq Mints /\ discarded' \subseteq Mints
  BY DEF Seen, CheckRow, MarkKnown, Enqueue, CheckFails, Goes, SyncInv, SyncTables
<1>2. UNCHANGED <<version, metadata, job, reader, reads, overtaken, undropped>>
  BY DEF Seen, CheckRow, MarkKnown, Enqueue, CheckFails
<1>3. SyncTables' /\ RowsOfMarked'
  BY <1>1, <1>2 DEF SyncInv, SyncTables, RowsOfMarked
<1> QED
  BY <1>2, <1>3 DEF SyncInv, CachedOfRow

(* Steps of the job that write no row.                                     *)
LEMMA BatchKeeps ==
  ASSUME SyncInv, DrainCluster \/ AskJupiter \/ AskChain \/ UpsertFails
  PROVE  SyncInv'
<1> USE JobFields, NoJobFields DEF SyncInv, SyncTables
<1>1. /\ UNCHANGED <<version, metadata, knownMints, checks, reader, reads, overtaken, undropped>>
      /\ queue' \subseteq Mints /\ discarded' \subseteq Mints
  BY DEF DrainCluster, AskJupiter, AskChain, UpsertFails
<1>2. job.left = {} /\ job.drops = {}
  BY DEF DrainCluster, AskJupiter, AskChain, UpsertFails, RowsOfMarked
<1>3. job' \in SyncJob /\ job'.left = {} /\ job'.drops = {}
  <2>1. CASE DrainCluster
    BY <2>1 DEF DrainCluster, NoJob, SyncJob
  <2>2. CASE AskJupiter
    BY <1>2, <2>2 DEF AskJupiter, SyncJob
  <2>3. CASE AskChain
    <3>1. PICK found \in SUBSET (job.mints \ job.data) :
            job' = IF job.data \cup found = {} THEN NoJob
                   ELSE [job EXCEPT !.stage = "upsert", !.data = job.data \cup found]
      BY <2>3 DEF AskChain
    <3> DEFINE data == job.data \cup found
    <3>2. data \subseteq Mints
      OBVIOUS
    <3> HIDE DEF data
    <3>3. [job EXCEPT !.stage = "upsert", !.data = data] \in SyncJob
          /\ [job EXCEPT !.stage = "upsert", !.data = data].left = job.left
          /\ [job EXCEPT !.stage = "upsert", !.data = data].drops = job.drops
      BY <3>2 DEF SyncJob
    <3> QED
      BY <1>2, <3>1, <3>3 DEF data
  <2>4. CASE UpsertFails
    BY <2>4 DEF UpsertFails
  <2> QED
    BY <2>1, <2>2, <2>3, <2>4
<1>4. SyncTables'
  BY <1>1, <1>3
<1>5. RowsOfMarked'
  BY <1>1, <1>3 DEF RowsOfMarked
<1> QED
  BY <1>1, <1>2, <1>4, <1>5 DEF CachedOfRow

LEMMA UpsertKeeps == ASSUME SyncInv, Upsert PROVE SyncInv'
<1> USE SyncAssumption, JobFields DEF SyncInv, SyncTables
<1>1. /\ version' \in [Mints -> 0..MaxVersion]
      /\ \A m \in Mints : version[m] > 0 => version'[m] > 0
      /\ \A m \in job.data : version'[m] > 0
      /\ \A m \in Mints : m \notin job.data => version'[m] = version[m]
  BY DEF Upsert
<1>2. job' \in SyncJob /\ job'.left = job.data /\ job'.drops = job.drops /\ job'.stage = "mark"
  <2>1. job' = [job EXCEPT !.stage = "mark", !.left = job.data]
    BY DEF Upsert
  <2> QED
    BY <2>1 DEF SyncJob
<1>3. UNCHANGED <<queue, knownMints, metadata, checks, reader, reads, discarded, undropped>>
  BY DEF Upsert
<1>4. ~overtaken' => ~overtaken /\ (reader # NoReader => reader.mint \notin job.data)
  BY Zenon DEF Upsert
<1>5. SyncTables'
  BY <1>1, <1>2, <1>3
<1>6. RowsOfMarked'
  BY <1>1, <1>2, <1>3 DEF RowsOfMarked
<1>7. ASSUME ~overtaken' PROVE CachedOfRow'
  <2>1. job.left = {} /\ job.drops = {} /\ CachedOfRow /\ (reader # NoReader => reader.mint \notin job.data)
    BY <1>4, <1>7 DEF Upsert, RowsOfMarked
  <2> QED
    BY <1>1, <1>2, <1>3, <2>1 DEF CachedOfRow
<1> QED
  BY <1>5, <1>6, <1>7

LEMMA MarkSyncedKeeps == ASSUME SyncInv, MarkSynced PROVE SyncInv'
<1> USE SyncAssumption, JobFields DEF SyncInv, SyncTables
<1>1. PICK m \in job.left :
        /\ knownMints' \in {knownMints \cup {m}, knownMints}
        /\ job' = [job EXCEPT !.left = @ \ {m}, !.drops = @ \cup {m}]
  BY DEF MarkSynced
<1>2. UNCHANGED <<version, queue, metadata, checks, reader, reads, discarded, overtaken, undropped>>
      /\ job.stage = "mark"
  BY DEF MarkSynced
<1>3. job' \in SyncJob /\ job'.left = job.left \ {m} /\ job'.drops = job.drops \cup {m} /\ job'.stage = "mark"
  BY <1>1, <1>2 DEF SyncJob
<1>4. SyncTables'
  BY <1>1, <1>2, <1>3
<1>5. RowsOfMarked'
  BY <1>1, <1>2, <1>3 DEF RowsOfMarked
<1>6. CachedOfRow => CachedOfRow'
  BY <1>1, <1>2, <1>3 DEF CachedOfRow
<1> QED
  BY <1>2, <1>4, <1>5, <1>6

LEMMA DropMetadataKeeps == ASSUME SyncInv, DropMetadata PROVE SyncInv'
<1> USE SyncAssumption, JobFields, NoJobFields DEF SyncInv, SyncTables
<1>1. PICK m \in job.drops :
        /\ \/ metadata' = [metadata EXCEPT ![m] = 0] /\ undropped' = undropped \ {m}
           \/ metadata' = metadata /\ undropped' = undropped \cup {x \in {m} : metadata[x] > 0}
        /\ job' = IF job.left = {} /\ job.drops = {m} THEN NoJob ELSE [job EXCEPT !.drops = @ \ {m}]
  BY DEF DropMetadata
<1>2. UNCHANGED <<version, queue, knownMints, checks, reader, reads, discarded, overtaken>> /\ job.stage = "mark"
  BY DEF DropMetadata, RowsOfMarked
<1>3. /\ job' \in SyncJob /\ job'.left = job.left /\ job'.drops = job.drops \ {m}
      /\ job'.stage # "mark" => job'.left = {} /\ job'.drops = {}
  <2> DEFINE q == [job EXCEPT !.drops = @ \ {m}]
  <2>1. q \in SyncJob /\ q.left = job.left /\ q.drops = job.drops \ {m} /\ q.stage = job.stage
    BY DEF SyncJob
  <2> HIDE DEF q
  <2> QED
    BY <1>1, <1>2, <2>1 DEF q
<1>4. SyncTables'
  BY <1>1, <1>2, <1>3
<1>5. RowsOfMarked'
  BY <1>1, <1>2, <1>3 DEF RowsOfMarked
<1>6. CachedOfRow => CachedOfRow'
  <2> SUFFICES ASSUME CachedOfRow PROVE CachedOfRow'
    OBVIOUS
  <2>1. metadata[m] \in 0..MaxVersion /\ m \in Mints
    OBVIOUS
  <2>2. metadata'[m] = 0 \/ m \in undropped'
    BY <1>1, <2>1
  <2>3. \A x \in Mints : x # m => metadata'[x] = metadata[x] /\ (x \in undropped => x \in undropped')
    BY <1>1
  <2> QED
    BY <1>2, <1>3, <2>2, <2>3 DEF CachedOfRow
<1> QED
  BY <1>2, <1>4, <1>5, <1>6

(* Readers and time.                                                       *)
LEMMA CacheKeeps ==
  ASSUME SyncInv, (\E m \in Mints : ReadMetadata(m) \/ Forgotten(m)) \/ CacheMetadata
  PROVE  SyncInv'
<1> USE SyncAssumption DEF SyncInv, SyncTables
<1>1. /\ UNCHANGED <<version, queue, checks, job, discarded, overtaken>>
      /\ knownMints' \subseteq knownMints /\ undropped' \subseteq undropped
  BY DEF ReadMetadata, Forgotten, CacheMetadata
<1>2. RowsOfMarked'
  BY <1>1 DEF RowsOfMarked
<1>3. SyncTables' /\ (CachedOfRow => CachedOfRow')
  <2>1. ASSUME NEW m \in Mints, ReadMetadata(m) PROVE SyncTables' /\ (CachedOfRow => CachedOfRow')
    <3>1. reader'.mint = m /\ reader'.version = version[m] /\ version[m] \in 1..MaxVersion
          /\ reads' \in 0..MaxReads /\ metadata' = metadata /\ undropped' = undropped
      BY <2>1 DEF ReadMetadata
    <3> QED
      BY <1>1, <3>1 DEF CachedOfRow
  <2>2. ASSUME NEW m \in Mints, Forgotten(m) PROVE SyncTables' /\ (CachedOfRow => CachedOfRow')
    BY <1>1, <2>2 DEF CachedOfRow, Forgotten
  <2>3. CASE CacheMetadata
    BY <1>1, <2>3 DEF CachedOfRow, CacheMetadata
  <2> QED
    BY <2>1, <2>2, <2>3
<1> QED
  BY <1>1, <1>2, <1>3

LEMMA SyncInvStep == SyncInv /\ [SyncStep]_syncVars => SyncInv'
<1> SUFFICES ASSUME SyncInv, [SyncStep]_syncVars PROVE SyncInv'
  OBVIOUS
<1>1. CASE UNCHANGED syncVars
  BY <1>1 DEF syncVars, SyncInv, SyncTables, RowsOfMarked, CachedOfRow
<1>2. CASE SyncStep
  BY <1>2, CheckKeeps, BatchKeeps, UpsertKeeps, MarkSyncedKeeps, DropMetadataKeeps, CacheKeeps DEF SyncStep, Drain
<1> QED
  BY <1>1, <1>2

LEMMA SyncFlagStep == SyncFlag /\ [SyncStep]_syncVars => SyncFlag'
<1> SUFFICES ASSUME SyncFlag, [SyncStep]_syncVars PROVE SyncFlag'
  OBVIOUS
<1>1. CASE Upsert
  BY <1>1, Zenon DEF Upsert, SyncFlag
<1>2. CASE UNCHANGED overtaken
  BY <1>2, Zenon DEF SyncFlag
<1> QED
  BY <1>1, <1>2, Zenon DEF SyncStep, Drain, syncVars, Seen, CheckRow, MarkKnown, Enqueue, ReadMetadata,
     CheckFails, Forgotten, CacheMetadata, DrainCluster, AskJupiter, AskChain, UpsertFails, MarkSynced, DropMetadata

LEMMA SyncInvAlways == SyncSpec => [](SyncInv /\ SyncFlag)
  BY SyncInvInit, SyncInvStep, SyncFlagStep, PTL DEF SyncSpec

(* The queue, the known mints, the rows and the jobs of the sync have      *)
(* their types.                                                            *)
THEOREM SyncTypes == SyncSpec => []SyncTypeOK
<1>1. SyncInv /\ SyncFlag => SyncTypeOK
  BY JobFields DEF SyncInv, SyncFlag, SyncTables, SyncTypeOK
<1> QED
  BY <1>1, SyncInvAlways, PTL

(* A mint taken for known has a row, and cached metadata is that of the    *)
(* row once its batch is over unless a reader overlapped the write or the  *)
(* DEL failed, for any mints, batch size and overlap of checks and jobs.   *)
THEOREM KnownAlwaysHasRow == SyncSpec => []KnownHasRow
<1>1. SyncInv => KnownHasRow
  BY NoJobFields DEF SyncInv, RowsOfMarked, CachedOfRow, KnownHasRow
<1> QED
  BY <1>1, SyncInvAlways, PTL

===============================================================================
