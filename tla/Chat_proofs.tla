----------------------------- MODULE Chat_proofs ------------------------------
(***************************************************************************)
(* Proofs about the chat: the quota of its users, the history that is sent *)
(* to the LLM and what an answer shows of the tools that were called.      *)
(***************************************************************************)
EXTENDS MCChat, FiniteSetTheorems, WellFoundedInduction, TLAPS

(***************************************************************************)
(* ChatQuota.  Who is charged and who is refused, for any users, sessions, *)
(* calls and free limit.  The reads may be stale when they are used; the   *)
(* properties hold because usage never falls, days to come have no usage,  *)
(* and a user's quota shrinks only when a call of that user is charged,    *)
(* which marks the others as overtaken.                                    *)
(***************************************************************************)
InProgress(k) == k.pc # "idle"
BeforeAnswer  == {"check", "admit", "prepare", "llm"}
Used(k)       == usage[k.user][k.day]

(* What a call record always satisfies, whatever the others do.            *)
Sound(k) ==
  /\ InProgress(k) => k.user \in Users /\ k.session \in Sessions /\ k.outcome = "none"
  /\ k.outcome = "denied" => k.user \in Users
  /\ k.day <= today
  /\ k.charges \in {0, 1}
  /\ InProgress(k) => k.charges = 0
  /\ k.charges = 1 => k.answered
  /\ k.pc \in {"chargeFree", "chargePaid"} => k.answered
  /\ k.pc = "admit" => k.seen = Tables

(* What a read of the quota that found nothing means from then on.         *)
Exhausted(k) ==
  /\ InProgress(k) /\ "feature_usage" \in k.seen /\ ~k.available /\ k.pc \in {"check", "admit"}
       => Used(k) = FreeLimit
  /\ k.outcome = "denied" => Used(k) = FreeLimit
  /\ k.pc = "chargePaid" => Used(k) = FreeLimit

(* What a read that found quota means as long as nobody overtakes.         *)
Left(k) == Used(k) < FreeLimit \/ balance[k.user] > 0

Reserved(k) ==
  /\ k.outcome = "refused" => k.overtaken
  /\ InProgress(k) /\ ~k.overtaken =>
       /\ k.pc \in BeforeAnswer => \A d \in Days : d > k.day => usage[k.user][d] = 0
       /\ k.pc \in {"check", "admit"} /\ k.available => Left(k)
       /\ k.pc \in {"prepare", "llm", "chargeFree", "chargePaid"} => Left(k)

FutureUnused == \A u \in Users, d \in Days : d > today => usage[u][d] = 0

CallsOK == \A c \in Calls : Sound(calls[c]) /\ Exhausted(calls[c]) /\ Reserved(calls[c])

IInv == TypeOK /\ FutureUnused /\ CallsOK

LEMMA InitInv == Init => IInv
<1> SUFFICES ASSUME Init PROVE IInv
  OBVIOUS
<1>1. NewCall \in Call
  BY QuotaAssumption DEF NewCall, Call, Pcs, Outcomes, Days, Tables
<1>2. TypeOK
  BY <1>1, QuotaAssumption DEF Init, TypeOK, Days
<1>3. FutureUnused
  BY DEF Init, FutureUnused
<1>4. ASSUME NEW c \in Calls
      PROVE  Sound(calls[c]) /\ Exhausted(calls[c]) /\ Reserved(calls[c])
  BY DEF Init, NewCall, Sound, Exhausted, Reserved, InProgress
<1> QED
  BY <1>2, <1>3, <1>4 DEF IInv, CallsOK

-----------------------------------------------------------------------------
(***************************************************************************)
(* Steps that leave the quota alone.                                       *)
(***************************************************************************)

(* Only the call that moves has to be looked at.                           *)
LEMMA OneCallMoves ==
  ASSUME IInv, NEW c \in Calls,
         usage' = usage, balance' = balance, today' = today, active' \subseteq Sessions,
         calls' \in [Calls -> Call], \A k \in Calls \ {c} : calls'[k] = calls[k],
         Sound(calls[c])', Exhausted(calls[c])', Reserved(calls[c])'
  PROVE  IInv'
<1>1. TypeOK'
  BY DEF IInv, TypeOK
<1>2. FutureUnused'
  BY DEF IInv, FutureUnused
<1>3. ASSUME NEW k \in Calls \ {c}
      PROVE  (Sound(calls[k]) /\ Exhausted(calls[k]) /\ Reserved(calls[k]))'
  <2>1. Sound(calls[k]) /\ Exhausted(calls[k]) /\ Reserved(calls[k])
    BY <1>3 DEF IInv, CallsOK
  <2>2. calls'[k] = calls[k]
    BY <1>3
  <2> QED
    BY <2>1, <2>2 DEF Sound, Exhausted, Reserved, Used, Left, InProgress
<1> QED
  BY <1>1, <1>2, <1>3 DEF IInv, CallsOK

(* The fields of a call after Continue and End.                            *)
SameQuery(k, l) ==
  /\ k.user = l.user /\ k.session = l.session /\ k.day = l.day /\ k.seen = l.seen
  /\ k.available = l.available /\ k.answered = l.answered /\ k.charges = l.charges
  /\ k.overtaken = l.overtaken

LEMMA ContinueEffect ==
  ASSUME calls \in [Calls -> Call], NEW c \in Calls, NEW pc \in Pcs, Continue(c, pc)
  PROVE  /\ calls' \in [Calls -> Call]
         /\ \A k \in Calls \ {c} : calls'[k] = calls[k]
         /\ calls'[c].pc = pc /\ calls'[c].outcome = calls[c].outcome
         /\ SameQuery(calls'[c], calls[c])
BY DEF Continue, Call, SameQuery

LEMMA EndEffect ==
  ASSUME calls \in [Calls -> Call], NEW c \in Calls, NEW out \in Outcomes, End(c, out)
  PROVE  /\ calls' \in [Calls -> Call]
         /\ \A k \in Calls \ {c} : calls'[k] = calls[k]
         /\ calls'[c].pc = "idle" /\ calls'[c].outcome = out
         /\ SameQuery(calls'[c], calls[c])
BY ZenonT(60) DEF End, Call, SameQuery, Pcs

(* What IInv says of a call, with its types.                               *)
LEMMA CallFacts ==
  ASSUME IInv, NEW c \in Calls
  PROVE  /\ calls \in [Calls -> Call] /\ calls[c] \in Call
         /\ usage \in [Users -> [Days -> 0..FreeLimit]] /\ balance \in [Users -> Nat]
         /\ today \in Days /\ active \subseteq Sessions
         /\ Sound(calls[c]) /\ Exhausted(calls[c]) /\ Reserved(calls[c])
BY DEF IInv, TypeOK, CallsOK

LEMMA SendMessageInv ==
  ASSUME IInv, NEW c \in Calls, NEW u \in Users, NEW s \in Sessions, SendMessage(c, u, s)
  PROVE  IInv'
<1>1. /\ usage' = usage /\ balance' = balance /\ today' = today /\ active' \subseteq Sessions
  BY CallFacts DEF SendMessage
<1>2. PICK r : r = IF s \in active
                     THEN [NewCall EXCEPT !.user = u, !.session = s, !.day = today, !.outcome = "busy"]
                     ELSE [NewCall EXCEPT !.user = u, !.session = s, !.day = today, !.pc = "check"]
  OBVIOUS
<1>3. /\ r.user = u /\ r.session = s /\ r.day = today /\ r.seen = {} /\ r.available = FALSE
      /\ r.answered = FALSE /\ r.charges = 0 /\ r.overtaken = FALSE
      /\ \/ r.pc = "idle" /\ r.outcome = "busy"
         \/ r.pc = "check" /\ r.outcome = "none"
  BY <1>2 DEF NewCall
<1>4. r \in Call
  BY <1>2, CallFacts, QuotaAssumption DEF NewCall, Call, Pcs, Outcomes, Days, Tables
<1>5. calls' = [calls EXCEPT ![c] = r]
  BY <1>2 DEF SendMessage, NewCall
<1>6. /\ calls' \in [Calls -> Call] /\ \A k \in Calls \ {c} : calls'[k] = calls[k]
      /\ calls'[c] = r
  BY <1>4, <1>5, CallFacts
<1>7. Sound(calls[c])'
  BY <1>1, <1>3, <1>6, CallFacts DEF Sound, InProgress, Days
<1>8. Exhausted(calls[c])'
  BY <1>1, <1>3, <1>6 DEF Exhausted, InProgress
<1>9. Reserved(calls[c])'
  BY <1>1, <1>3, <1>6 DEF Reserved, InProgress, IInv, FutureUnused
<1> QED
  BY <1>1, <1>6, <1>7, <1>8, <1>9, OneCallMoves

(* Reading one of the two tables; found says what the table held.          *)
LEMMA ReadInv ==
  ASSUME IInv, NEW c \in Calls, NEW table \in Tables, NEW found \in BOOLEAN,
         Read(c, table, found),
         found => Left(calls[c]),
         table = "feature_usage" /\ ~found => Used(calls[c]) = FreeLimit
  PROVE  IInv'
<1>1. /\ usage' = usage /\ balance' = balance /\ today' = today /\ active' \subseteq Sessions
  BY CallFacts DEF Read
<1>2. calls[c].pc = "check"
  BY DEF Read
<1>a. PICK r \in Call : /\ r = [calls[c] EXCEPT !.seen = @ \cup {table}, !.available = @ \/ found,
                           !.pc = IF calls[c].seen \cup {table} = Tables THEN "admit" ELSE "check"]
  BY CallFacts, ZenonT(60) DEF Call, Pcs
<1>b. calls' = [calls EXCEPT ![c] = r]
  BY <1>a, CallFacts DEF Read
<1>3. /\ calls' \in [Calls -> Call] /\ \A k \in Calls \ {c} : calls'[k] = calls[k]
      /\ calls'[c].seen = calls[c].seen \cup {table}
      /\ calls'[c].available = (calls[c].available \/ found)
      /\ calls'[c].pc = IF calls[c].seen \cup {table} = Tables THEN "admit" ELSE "check"
      /\ calls'[c].user = calls[c].user /\ calls'[c].session = calls[c].session
      /\ calls'[c].day = calls[c].day /\ calls'[c].answered = calls[c].answered
      /\ calls'[c].charges = calls[c].charges /\ calls'[c].overtaken = calls[c].overtaken
      /\ calls'[c].outcome = calls[c].outcome
  BY <1>a, <1>b, CallFacts, ZenonT(60) DEF Call
<1>4. Sound(calls[c])'
  BY <1>1, <1>2, <1>3, CallFacts DEF Sound, InProgress
<1>5. Exhausted(calls[c])'
  BY <1>1, <1>2, <1>3, CallFacts DEF Exhausted, InProgress, Used, Sound
<1>6. Reserved(calls[c])'
  BY <1>1, <1>2, <1>3, CallFacts DEF Reserved, InProgress, Left, Used, Sound, BeforeAnswer
<1> QED
  BY <1>1, <1>3, <1>4, <1>5, <1>6, OneCallMoves

LEMMA ReadsInv ==
  ASSUME IInv, NEW c \in Calls, ReadUsage(c) \/ ReadCredit(c)
  PROVE  IInv'
<1>1. calls[c].pc = "check"
  BY DEF ReadUsage, ReadCredit, Read
<1>2. calls[c].user \in Users /\ calls[c].day \in Days
  BY <1>1, CallFacts DEF Sound, InProgress, Call
<1>3. Used(calls[c]) \in 0..FreeLimit /\ balance[calls[c].user] \in Nat
  BY <1>2, CallFacts DEF Used
<1>4. CASE ReadUsage(c)
  <2>a. (Used(calls[c]) < FreeLimit) \in BOOLEAN
    OBVIOUS
  <2>1. PICK found \in BOOLEAN : found = (Used(calls[c]) < FreeLimit)
    BY <2>a, Zenon
  <2>2. Read(c, "feature_usage", found)
    BY <1>4, <2>1 DEF ReadUsage, Used
  <2> QED
    <3>1. found => Left(calls[c])
      BY <2>1 DEF Left
    <3>2. ~found => ~(Used(calls[c]) < FreeLimit)
      BY <2>1, Zenon
    <3>3. ~(Used(calls[c]) < FreeLimit) => Used(calls[c]) = FreeLimit
      BY <1>3, QuotaAssumption
    <3> QED
      BY <2>2, <3>1, <3>2, <3>3, ReadInv DEF Tables
<1>5. CASE ReadCredit(c)
  <2>a. (balance[calls[c].user] > 0) \in BOOLEAN
    OBVIOUS
  <2>1. PICK found \in BOOLEAN : found = (balance[calls[c].user] > 0)
    BY <2>a, Zenon
  <2>2. Read(c, "user_credits", found)
    BY <1>5, <2>1 DEF ReadCredit
  <2> QED
    BY <1>3, <2>1, <2>2, ReadInv DEF Left, Tables
<1> QED
  BY <1>4, <1>5

LEMMA AdmitInv ==
  ASSUME IInv, NEW c \in Calls, Admit(c)
  PROVE  IInv'
<1>1. /\ calls[c].pc = "admit" /\ calls[c].session \in Sessions
      /\ usage' = usage /\ balance' = balance /\ today' = today
  BY CallFacts DEF Admit, Sound, InProgress
<1>2. CASE calls[c].available
  <2>1. active' \subseteq Sessions /\ Continue(c, "prepare")
    BY <1>1, <1>2, CallFacts DEF Admit
  <2>2. /\ calls' \in [Calls -> Call] /\ \A k \in Calls \ {c} : calls'[k] = calls[k]
        /\ calls'[c].pc = "prepare" /\ calls'[c].outcome = calls[c].outcome
        /\ SameQuery(calls'[c], calls[c])
    BY <2>1, CallFacts, ContinueEffect DEF Pcs
  <2>3. Sound(calls[c])'
    BY <1>1, <2>2, CallFacts DEF Sound, SameQuery, InProgress
  <2>4. Exhausted(calls[c])'
    BY <1>1, <2>2, CallFacts DEF Exhausted, SameQuery, InProgress, Used
  <2>5. Reserved(calls[c])'
    BY <1>1, <1>2, <2>2, CallFacts DEF Reserved, SameQuery, InProgress, Left, Used, BeforeAnswer
  <2> QED
    BY <1>1, <2>1, <2>2, <2>3, <2>4, <2>5, OneCallMoves
<1>3. CASE ~calls[c].available
  <2>1. active' \subseteq Sessions /\ End(c, "denied")
    BY <1>1, <1>3, CallFacts DEF Admit
  <2>2. /\ calls' \in [Calls -> Call] /\ \A k \in Calls \ {c} : calls'[k] = calls[k]
        /\ calls'[c].pc = "idle" /\ calls'[c].outcome = "denied"
        /\ SameQuery(calls'[c], calls[c])
    BY <2>1, CallFacts, EndEffect DEF Outcomes
  <2>3. Sound(calls[c])'
    BY <1>1, <2>2, CallFacts DEF Sound, SameQuery, InProgress
  <2>4. Exhausted(calls[c])'
    BY <1>1, <1>3, <2>2, CallFacts DEF Exhausted, SameQuery, InProgress, Used, Sound, Tables
  <2>5. Reserved(calls[c])'
    BY <1>1, <2>2, CallFacts DEF Reserved, SameQuery, InProgress
  <2> QED
    BY <1>1, <2>1, <2>2, <2>3, <2>4, <2>5, OneCallMoves
<1> QED
  BY <1>2, <1>3

LEMMA PrepareInv ==
  ASSUME IInv, NEW c \in Calls, Prepare(c)
  PROVE  IInv'
<1>1. /\ calls[c].pc = "prepare" /\ Continue(c, "llm") /\ active' \subseteq Sessions
      /\ usage' = usage /\ balance' = balance /\ today' = today
  BY CallFacts DEF Prepare
<1>2. /\ calls' \in [Calls -> Call] /\ \A k \in Calls \ {c} : calls'[k] = calls[k]
      /\ calls'[c].pc = "llm" /\ calls'[c].outcome = calls[c].outcome
      /\ SameQuery(calls'[c], calls[c])
  BY <1>1, CallFacts, ContinueEffect DEF Pcs
<1>3. Sound(calls[c])'
  BY <1>1, <1>2, CallFacts DEF Sound, SameQuery, InProgress
<1>4. Exhausted(calls[c])'
  BY <1>1, <1>2, CallFacts DEF Exhausted, SameQuery, InProgress, Used
<1>5. Reserved(calls[c])'
  BY <1>1, <1>2, CallFacts DEF Reserved, SameQuery, InProgress, Left, Used, BeforeAnswer
<1> QED
  BY <1>1, <1>2, <1>3, <1>4, <1>5, OneCallMoves

(* A call that ends without being charged, and without a verdict on its    *)
(* quota: a failure before the `try`, in the LLM or in the charge.         *)
LEMMA FailureInv ==
  ASSUME IInv, NEW c \in Calls, NEW out \in {"error", "failed"}, InProgress(calls[c]),
         End(c, out), active' \subseteq Sessions,
         usage' = usage, balance' = balance, today' = today
  PROVE  IInv'
<1>1. /\ calls' \in [Calls -> Call] /\ \A k \in Calls \ {c} : calls'[k] = calls[k]
      /\ calls'[c].pc = "idle" /\ calls'[c].outcome = out
      /\ SameQuery(calls'[c], calls[c])
  BY CallFacts, EndEffect DEF Outcomes
<1>2. Sound(calls[c])'
  BY <1>1, CallFacts DEF Sound, SameQuery, InProgress
<1>3. Exhausted(calls[c])'
  BY <1>1, CallFacts DEF Exhausted, SameQuery, InProgress
<1>4. Reserved(calls[c])'
  BY <1>1, CallFacts DEF Reserved, SameQuery, InProgress
<1> QED
  BY <1>1, <1>2, <1>3, <1>4, OneCallMoves

LEMMA FailuresInv ==
  ASSUME IInv, NEW c \in Calls, PrepareFails(c) \/ LlmFails(c) \/ ChargeFails(c)
  PROVE  IInv'
<1>1. active \subseteq Sessions
  BY CallFacts
<1> QED
  BY <1>1, FailureInv DEF PrepareFails, LlmFails, ChargeFails, Unlock, InProgress

LEMMA LlmAnswersInv ==
  ASSUME IInv, NEW c \in Calls, LlmAnswers(c)
  PROVE  IInv'
<1>1. /\ calls[c].pc = "llm" /\ active' \subseteq Sessions
      /\ usage' = usage /\ balance' = balance /\ today' = today
  BY CallFacts DEF LlmAnswers
<1>a. PICK r \in Call : r = [calls[c] EXCEPT !.pc = "chargeFree", !.day = today, !.answered = TRUE]
  BY CallFacts DEF Call, Pcs
<1>b. calls' = [calls EXCEPT ![c] = r]
  BY <1>a, CallFacts DEF LlmAnswers
<1>2. /\ calls' \in [Calls -> Call] /\ \A k \in Calls \ {c} : calls'[k] = calls[k]
      /\ calls'[c].pc = "chargeFree" /\ calls'[c].day = today /\ calls'[c].answered
      /\ calls'[c].user = calls[c].user /\ calls'[c].session = calls[c].session
      /\ calls'[c].charges = calls[c].charges /\ calls'[c].overtaken = calls[c].overtaken
      /\ calls'[c].outcome = calls[c].outcome
  BY <1>a, <1>b, CallFacts DEF Call
<1>3. Sound(calls[c])'
  BY <1>1, <1>2, CallFacts DEF Sound, InProgress, Days
<1>4. Exhausted(calls[c])'
  BY <1>1, <1>2, CallFacts DEF Exhausted, InProgress, Sound
<1>5. ASSUME ~calls[c].overtaken
      PROVE  Left(calls'[c])
  <2>1. /\ Left(calls[c]) /\ calls[c].day <= today /\ calls[c].day \in Days
        /\ \A d \in Days : d > calls[c].day => usage[calls[c].user][d] = 0
    BY <1>1, <1>5, CallFacts DEF Reserved, Sound, InProgress, BeforeAnswer, Call
  <2>2. CASE calls[c].day = today
    BY <1>2, <2>1, <2>2 DEF Left, Used
  <2>3. CASE calls[c].day < today
    <3>1. usage[calls[c].user][today] = 0
      BY <2>1, <2>3, CallFacts DEF Days
    <3> QED
      BY <1>2, <3>1, QuotaAssumption DEF Left, Used
  <2> QED
    BY <2>1, <2>2, <2>3, CallFacts DEF Days
<1>6. Reserved(calls[c])'
  BY <1>1, <1>2, <1>5, CallFacts DEF Reserved, InProgress, Left, Used, Sound, BeforeAnswer
<1> QED
  BY <1>1, <1>2, <1>3, <1>4, <1>6, OneCallMoves

-----------------------------------------------------------------------------
(***************************************************************************)
(* Steps that change the quota.                                            *)
(***************************************************************************)

(* The call k once c of the same user, or of another one, is charged.     *)
After(c, k) ==
  /\ calls'[k].pc = calls[k].pc /\ calls'[k].outcome = calls[k].outcome
  /\ calls'[k].user = calls[k].user /\ calls'[k].session = calls[k].session
  /\ calls'[k].day = calls[k].day /\ calls'[k].seen = calls[k].seen
  /\ calls'[k].available = calls[k].available
  /\ calls'[k].answered = calls[k].answered
  /\ calls'[k].charges = calls[k].charges
  /\ calls[k].overtaken => calls'[k].overtaken
  /\ calls[k].pc # "idle" /\ calls[k].user = calls[c].user => calls'[k].overtaken

LEMMA ChargeEffect ==
  ASSUME calls \in [Calls -> Call], NEW c \in Calls, NEW out \in Outcomes,
         calls[c].charges = 0, Charge(c, out)
  PROVE  /\ calls' \in [Calls -> Call]
         /\ calls'[c].pc = "idle" /\ calls'[c].outcome = out /\ calls'[c].charges = 1
         /\ calls'[c].user = calls[c].user /\ calls'[c].day = calls[c].day
         /\ calls'[c].answered = calls[c].answered
         /\ \A k \in Calls \ {c} : After(c, k)
<1>0. calls[c] \in Call /\ "idle" \in Pcs
  BY DEF Pcs
<1>1. PICK r \in Call : r = [calls[c] EXCEPT !.pc = "idle", !.outcome = out, !.charges = 1]
  BY <1>0 DEF Call
<1>2. ASSUME NEW k \in Calls
      PROVE  calls'[k] = IF k = c THEN r
               ELSE [calls[k] EXCEPT !.overtaken =
                 @ \/ (calls[k].pc # "idle" /\ calls[k].user = calls[c].user)]
  BY <1>0, <1>1 DEF Charge, Call
<1>3. ASSUME NEW k \in Calls \ {c}
      PROVE  calls'[k] \in Call /\ After(c, k)
  <2>1. calls[k] \in Call
    OBVIOUS
  <2>2. (calls[k].overtaken \/ (calls[k].pc # "idle" /\ calls[k].user = calls[c].user)) \in BOOLEAN
    OBVIOUS
  <2>3. PICK b \in BOOLEAN :
          b = (calls[k].overtaken \/ (calls[k].pc # "idle" /\ calls[k].user = calls[c].user))
    BY <2>2, Zenon
  <2>4. calls'[k] = [calls[k] EXCEPT !.overtaken = b]
    BY <1>2, <2>3
  <2>5. /\ calls[k].overtaken => b
        /\ calls[k].pc # "idle" /\ calls[k].user = calls[c].user => b
    BY <2>3, Zenon
  <2> QED
    BY <2>1, <2>4, <2>5 DEF Call, After
<1>4. calls'[c] = r
  BY <1>2
<1>5. calls' \in [Calls -> Call]
  BY <1>3, <1>4 DEF Charge
<1> QED
  BY <1>1, <1>3, <1>4, <1>5 DEF Call

(* c is charged: only its user has less quota, and the other calls of that *)
(* user know.                                                              *)
LEMMA ChargeInv ==
  ASSUME IInv, NEW c \in Calls, NEW out \in {"free", "paid"},
         calls[c].pc \in {"chargeFree", "chargePaid"}, Charge(c, out),
         active' \subseteq Sessions, today' = today,
         usage' \in [Users -> [Days -> 0..FreeLimit]], balance' \in [Users -> Nat],
         \A u \in Users \ {calls[c].user} : usage'[u] = usage[u] /\ balance'[u] = balance[u],
         \A d \in Days :
           /\ usage[calls[c].user][d] = FreeLimit => usage'[calls[c].user][d] = FreeLimit
           /\ d > today => usage'[calls[c].user][d] = usage[calls[c].user][d]
  PROVE  IInv'
<1>1. /\ InProgress(calls[c]) /\ calls[c].user \in Users /\ calls[c].charges = 0
      /\ calls[c].answered /\ calls[c].day <= today
  BY CallFacts DEF InProgress, Sound
<1>2. /\ calls' \in [Calls -> Call]
      /\ calls'[c].pc = "idle" /\ calls'[c].outcome = out /\ calls'[c].charges = 1
      /\ calls'[c].user = calls[c].user /\ calls'[c].day = calls[c].day
      /\ calls'[c].answered = calls[c].answered
      /\ \A k \in Calls \ {c} : After(c, k)
  <2>1. calls \in [Calls -> Call] /\ out \in Outcomes
    BY CallFacts DEF Outcomes
  <2> QED
    BY <1>1, <2>1, ChargeEffect
<1>3. TypeOK'
  BY <1>2, CallFacts DEF TypeOK
<1>4. FutureUnused'
  <2> SUFFICES ASSUME NEW u \in Users, NEW d \in Days, d > today
               PROVE  usage'[u][d] = 0
    BY DEF FutureUnused
  <2>1. usage[u][d] = 0
    BY DEF IInv, FutureUnused
  <2> QED
    BY <1>1, <2>1
<1>5. (Sound(calls[c]) /\ Exhausted(calls[c]) /\ Reserved(calls[c]))'
  BY <1>1, <1>2 DEF Sound, Exhausted, Reserved, InProgress
<1>6. ASSUME NEW k \in Calls \ {c}
      PROVE  (Sound(calls[k]) /\ Exhausted(calls[k]) /\ Reserved(calls[k]))'
  <2>1. After(c, k)
    BY <1>2
  <2>2. Sound(calls[k]) /\ Exhausted(calls[k]) /\ Reserved(calls[k]) /\ calls[k] \in Call
    BY CallFacts
  <2>3. Sound(calls[k])'
    BY <2>1, <2>2 DEF After, Sound, InProgress
  <2>4. calls[k].day \in Days
    BY <2>2 DEF Call
  <2>5. ASSUME calls[k].user \in Users, Used(calls[k]) = FreeLimit
        PROVE  Used(calls[k])' = FreeLimit
    BY <1>1, <2>1, <2>4, <2>5 DEF After, Used
  <2>6. Exhausted(calls[k])'
    BY <2>1, <2>2, <2>5 DEF After, Exhausted, InProgress, Used, Sound
  <2>7. Reserved(calls[k])'
    <3>1. CASE calls[k].user = calls[c].user
      BY <2>1, <2>2, <3>1 DEF After, Reserved, InProgress
    <3>2. CASE calls[k].user # calls[c].user
      BY <2>1, <2>2, <3>2 DEF After, Reserved, InProgress, Left, Used, Sound
    <3> QED
      BY <3>1, <3>2
  <2> QED
    BY <2>3, <2>6, <2>7
<1> QED
  BY <1>3, <1>4, <1>5, <1>6 DEF IInv, CallsOK

LEMMA ChargeFreeInv ==
  ASSUME IInv, NEW c \in Calls, ChargeFree(c)
  PROVE  IInv'
<1>1. /\ calls[c].pc = "chargeFree" /\ InProgress(calls[c])
      /\ calls[c].user \in Users /\ calls[c].day \in Days /\ calls[c].day <= today
      /\ balance' = balance /\ today' = today
  BY CallFacts DEF ChargeFree, InProgress, Sound, Call
<1>2. usage[calls[c].user][calls[c].day] \in 0..FreeLimit
  BY <1>1, CallFacts
<1>3. CASE FreeLeft(c)
  <2>1. /\ usage' = [usage EXCEPT ![calls[c].user][calls[c].day] = @ + 1]
        /\ Charge(c, "free") /\ Unlock(c)
    BY <1>3 DEF ChargeFree
  <2>2. usage[calls[c].user][calls[c].day] + 1 \in 0..FreeLimit
    BY <1>2, <1>3, QuotaAssumption DEF FreeLeft
  <2>3. usage' \in [Users -> [Days -> 0..FreeLimit]]
    BY <1>1, <2>1, <2>2, CallFacts
  <2>4. \A u \in Users \ {calls[c].user} : usage'[u] = usage[u]
    BY <2>1, CallFacts
  <2>5. \A d \in Days \ {calls[c].day} : usage'[calls[c].user][d] = usage[calls[c].user][d]
    BY <1>1, <2>1, CallFacts
  <2>6. usage[calls[c].user][calls[c].day] # FreeLimit
    BY <1>2, <1>3, QuotaAssumption DEF FreeLeft
  <2>7. \A d \in Days :
          /\ usage[calls[c].user][d] = FreeLimit => usage'[calls[c].user][d] = FreeLimit
          /\ d > today => usage'[calls[c].user][d] = usage[calls[c].user][d]
    BY <1>1, <2>5, <2>6, CallFacts DEF Days
  <2>8. active' \subseteq Sessions /\ balance' \in [Users -> Nat]
    BY <1>1, <2>1, CallFacts DEF Unlock
  <2> QED
    BY <1>1, <2>1, <2>3, <2>4, <2>7, <2>8, ChargeInv
<1>4. CASE ~FreeLeft(c)
  <2>1. Continue(c, "chargePaid") /\ usage' = usage /\ active' \subseteq Sessions
    BY <1>4, CallFacts DEF ChargeFree
  <2>2. /\ calls' \in [Calls -> Call] /\ \A k \in Calls \ {c} : calls'[k] = calls[k]
        /\ calls'[c].pc = "chargePaid" /\ calls'[c].outcome = calls[c].outcome
        /\ SameQuery(calls'[c], calls[c])
    BY <2>1, CallFacts, ContinueEffect DEF Pcs
  <2>3. Used(calls[c]) = FreeLimit
    BY <1>2, <1>4, QuotaAssumption DEF FreeLeft, Used
  <2>4. Sound(calls[c])'
    BY <1>1, <2>2, CallFacts DEF Sound, SameQuery, InProgress
  <2>5. Exhausted(calls[c])'
    BY <1>1, <2>1, <2>2, <2>3, CallFacts DEF Exhausted, SameQuery, InProgress, Used, Sound
  <2>6. Reserved(calls[c])'
    BY <1>1, <2>1, <2>2, CallFacts DEF Reserved, SameQuery, InProgress, Left, Used, BeforeAnswer,
       Sound
  <2> QED
    BY <1>1, <2>1, <2>2, <2>4, <2>5, <2>6, OneCallMoves
<1> QED
  BY <1>3, <1>4

LEMMA ChargePaidInv ==
  ASSUME IInv, NEW c \in Calls, ChargePaid(c)
  PROVE  IInv'
<1>1. /\ calls[c].pc = "chargePaid" /\ InProgress(calls[c]) /\ calls[c].user \in Users
      /\ usage' = usage /\ today' = today /\ active' \subseteq Sessions
  BY CallFacts DEF ChargePaid, InProgress, Sound, Unlock
<1>2. balance[calls[c].user] \in Nat
  BY <1>1, CallFacts
<1>3. CASE Affordable(c)
  <2>1. /\ balance' = [balance EXCEPT ![calls[c].user] = @ - 1] /\ Charge(c, "paid")
    BY <1>3 DEF ChargePaid
  <2>2. balance[calls[c].user] - 1 \in Nat
    BY <1>2, <1>3 DEF Affordable
  <2>3. /\ balance' \in [Users -> Nat]
        /\ \A u \in Users \ {calls[c].user} : balance'[u] = balance[u]
    BY <2>1, <2>2, CallFacts
  <2>4. usage' \in [Users -> [Days -> 0..FreeLimit]]
    BY <1>1, CallFacts
  <2> QED
    BY <1>1, <2>1, <2>3, <2>4, ChargeInv
<1>4. CASE ~Affordable(c)
  <2>1. End(c, "refused") /\ balance' = balance
    BY <1>4 DEF ChargePaid
  <2>2. /\ calls' \in [Calls -> Call] /\ \A k \in Calls \ {c} : calls'[k] = calls[k]
        /\ calls'[c].pc = "idle" /\ calls'[c].outcome = "refused"
        /\ SameQuery(calls'[c], calls[c])
    BY <2>1, CallFacts, EndEffect DEF Outcomes
  <2>3. Used(calls[c]) = FreeLimit /\ ~(balance[calls[c].user] > 0)
    BY <1>1, <1>2, <1>4, CallFacts DEF Exhausted, Affordable
  <2>4. calls[c].overtaken
    BY <1>1, <2>3, CallFacts, QuotaAssumption DEF Reserved, Left
  <2>5. Sound(calls[c])'
    BY <1>1, <2>2, CallFacts DEF Sound, SameQuery, InProgress
  <2>6. Exhausted(calls[c])'
    BY <1>1, <2>2, CallFacts DEF Exhausted, SameQuery, InProgress
  <2>7. Reserved(calls[c])'
    BY <1>1, <2>2, <2>4, CallFacts DEF Reserved, SameQuery, InProgress
  <2> QED
    BY <1>1, <2>1, <2>2, <2>5, <2>6, <2>7, OneCallMoves
<1> QED
  BY <1>3, <1>4

LEMMA TopUpInv ==
  ASSUME IInv, NEW u \in Users, TopUp(u)
  PROVE  IInv'
<1>1. /\ usage' = usage /\ today' = today /\ active' = active /\ calls' = calls
      /\ balance' = [balance EXCEPT ![u] = @ + 1] /\ balance \in [Users -> Nat]
  BY DEF TopUp, IInv, TypeOK
<1>2. balance' \in [Users -> Nat] /\ \A v \in Users : balance'[v] >= balance[v]
  BY <1>1
<1>3. TypeOK' /\ FutureUnused'
  BY <1>1, <1>2 DEF IInv, TypeOK, FutureUnused
<1>4. ASSUME NEW k \in Calls
      PROVE  (Sound(calls[k]) /\ Exhausted(calls[k]) /\ Reserved(calls[k]))'
  <2>1. Sound(calls[k]) /\ Exhausted(calls[k]) /\ Reserved(calls[k])
    BY CallFacts
  <2>2. Sound(calls[k])' /\ Exhausted(calls[k])'
    BY <1>1, <2>1 DEF Sound, Exhausted, InProgress, Used
  <2>3. ASSUME calls[k].user \in Users, Left(calls[k])
        PROVE  Left(calls[k])'
    BY <1>1, <1>2, <2>3 DEF Left, Used
  <2>4. Reserved(calls[k])'
    BY <1>1, <2>1, <2>3 DEF Reserved, Sound, InProgress, BeforeAnswer
  <2> QED
    BY <2>2, <2>4
<1> QED
  BY <1>3, <1>4 DEF IInv, CallsOK

LEMMA MidnightInv ==
  ASSUME IInv, Midnight
  PROVE  IInv'
<1>1. /\ usage' = usage /\ balance' = balance /\ active' = active /\ calls' = calls
      /\ today' = today + 1 /\ today < LastDay /\ today \in Days
  BY DEF Midnight, IInv, TypeOK
<1>2. today' \in Days
  BY <1>1, QuotaAssumption DEF Days
<1>3. TypeOK'
  BY <1>1, <1>2 DEF IInv, TypeOK
<1>4. FutureUnused'
  BY <1>1 DEF IInv, FutureUnused, Days
<1>5. ASSUME NEW k \in Calls
      PROVE  (Sound(calls[k]) /\ Exhausted(calls[k]) /\ Reserved(calls[k]))'
  <2>1. Sound(calls[k]) /\ Exhausted(calls[k]) /\ Reserved(calls[k]) /\ calls[k].day \in Days
    BY CallFacts DEF Call
  <2>2. Sound(calls[k])'
    BY <1>1, <2>1 DEF Sound, InProgress, Days
  <2> QED
    BY <1>1, <2>1, <2>2 DEF Exhausted, Reserved, InProgress, Used, Left
<1> QED
  BY <1>3, <1>4, <1>5 DEF IInv, CallsOK

LEMMA StepInv == IInv /\ [Next]_vars => IInv'
<1> SUFFICES ASSUME IInv, [Next]_vars PROVE IInv'
  OBVIOUS
<1>1. CASE \E c \in Calls, u \in Users, s \in Sessions : SendMessage(c, u, s)
  BY <1>1, SendMessageInv
<1>2. ASSUME NEW c \in Calls, CallStep(c)
      PROVE  IInv'
  BY <1>2, ReadsInv, AdmitInv, PrepareInv, FailuresInv, LlmAnswersInv, ChargeFreeInv,
     ChargePaidInv DEF CallStep
<1>3. CASE \E u \in Users : TopUp(u)
  BY <1>3, TopUpInv
<1>4. CASE Midnight
  BY <1>4, MidnightInv
<1>5. CASE UNCHANGED vars
  BY <1>5 DEF vars, IInv, TypeOK, FutureUnused, CallsOK, Sound, Exhausted, Reserved, InProgress,
     Used, Left
<1> QED
  BY <1>1, <1>2, <1>3, <1>4, <1>5 DEF Next

-----------------------------------------------------------------------------
(***************************************************************************)
(* The theorems.                                                           *)
(***************************************************************************)

(* The invariant holds in every reachable state.                           *)
THEOREM Inductive == Spec => []IInv
BY InitInv, StepInv, PTL DEF Spec

(* Types: in particular no more free answers than the limit on any day and *)
(* no balance below zero.                                                  *)
THEOREM TypeCorrect == Spec => []TypeOK
<1>1. IInv => TypeOK
  BY DEF IInv
<1> QED
  BY <1>1, Inductive, PTL

(* A message costs at most one answer, and only if it got one.             *)
THEOREM OneChargePerAnswerHolds == Spec => []OneChargePerAnswer
<1>1. IInv => OneChargePerAnswer
  BY DEF IInv, CallsOK, Sound, OneChargePerAnswer
<1> QED
  BY <1>1, Inductive, PTL

(* Only a call overtaken by another one of its user goes unpaid.           *)
THEOREM RefusedWasOvertakenHolds == Spec => []RefusedWasOvertaken
<1>1. IInv => RefusedWasOvertaken
  BY DEF IInv, CallsOK, Reserved, RefusedWasOvertaken
<1> QED
  BY <1>1, Inductive, PTL

(* Nobody is denied who still had a free answer.                           *)
THEOREM DeniedWasExhaustedHolds == Spec => []DeniedWasExhausted
<1>1. IInv => DeniedWasExhausted
  BY DEF IInv, CallsOK, Exhausted, Used, DeniedWasExhausted
<1> QED
  BY <1>1, Inductive, PTL

(* No credit is taken while a free answer of that day is left.             *)
THEOREM FreeBeforePaidHolds == Spec => FreeBeforePaid
<1> DEFINE Ordered ==
      \A u \in Users : balance'[u] < balance[u] =>
        \E c \in Calls :
          /\ calls[c].user = u /\ calls[c].pc = "chargePaid"
          /\ usage[u][calls[c].day] = FreeLimit
<1>1. ASSUME IInv, [Next]_vars
      PROVE  Ordered
  <2>1. balance \in [Users -> Nat]
    BY <1>1 DEF IInv, TypeOK
  <2>2. CASE balance' = balance
    BY <2>1, <2>2
  <2>3. CASE \E u \in Users : TopUp(u)
    BY <2>1, <2>3 DEF TopUp
  <2>4. ASSUME NEW c \in Calls, ChargePaid(c), balance' # balance
        PROVE  Ordered
    <3>1. /\ calls[c].pc = "chargePaid"
          /\ balance' = [balance EXCEPT ![calls[c].user] = @ - 1]
      BY <2>4 DEF ChargePaid
    <3>2. usage[calls[c].user][calls[c].day] = FreeLimit
      BY <1>1, <3>1, CallFacts DEF Exhausted, Used
    <3>3. \A u \in Users \ {calls[c].user} : balance'[u] = balance[u]
      BY <2>1, <3>1
    <3> QED
      BY <2>1, <3>1, <3>2, <3>3
  <2>5. \/ balance' = balance
        \/ \E u \in Users : TopUp(u)
        \/ \E c \in Calls : ChargePaid(c)
    BY <1>1 DEF Next, vars, SendMessage, CallStep, ReadUsage, ReadCredit, Read, Admit, Prepare,
       PrepareFails, LlmAnswers, LlmFails, ChargeFree, ChargeFails, Midnight
  <2> QED
    BY <2>2, <2>3, <2>4, <2>5
<1> QED
  BY <1>1, Inductive, PTL DEF Spec, FreeBeforePaid

(***************************************************************************)
(* ChatHistory.  What is sent to the LLM begins where it should, for any   *)
(* runs, window, calls and rows.                                           *)
(***************************************************************************)
Opener(i) == ~Tool(i) /\ ~Caller(i)

(* A tool message stands behind the message that called it, and between    *)
(* them are tool messages only.                                            *)
InItsGroup(i) == \E c \in 1..i - 1 : rows[i].call \in rows[c].calls /\ \A k \in c + 1..i - 1 : Tool(k)

RowsSaved == rows \in Seq(Row) /\ Len(rows) <= MaxRows

(* The ids of calls are numbered as they come: no two messages have one in *)
(* common, and only an assistant calls.                                    *)
CallsNumbered ==
  /\ \E n \in Nat : Claimed(1) = 1..n
  /\ \A i, j \in 1..Len(rows) : i # j => rows[i].calls \cap rows[j].calls = {}
  /\ \A i \in 1..Len(rows) : rows[i].role # "assistant" => rows[i].calls = {}

GroupsWhole == \A i \in 1..Len(rows) : Tool(i) => InItsGroup(i)

RunsSaved ==
  /\ runs \in [Runs -> Run]
  /\ \A r \in Runs : runs[r].pc = "tools" <=> runs[r].pending # {}

OneRun == \A x, y \in Runs : runs[x].pc # "idle" /\ runs[y].pc # "idle" => x = y

(* The tools of a run are those of the last message that is not a tool's.  *)
ToolsOfLast(r) ==
  runs[r].pc = "tools" =>
    \E c \in 1..Len(rows) : runs[r].pending \subseteq rows[c].calls /\ \A k \in c + 1..Len(rows) : Tool(k)

Openers(to) == {i \in 1..to : i > to - Window /\ ~Tool(i) /\ ~Caller(i)}

Trimmed(r) ==
  runs[r].pc = "llm" =>
    runs[r].to <= Len(rows) /\ runs[r].from = Min(Openers(runs[r].to) \cup {runs[r].to + 1})

HistoryInv ==
  /\ RowsSaved /\ CallsNumbered /\ RunsSaved /\ overlapped \in BOOLEAN
  /\ ~overlapped => GroupsWhole /\ OneRun /\ \A r \in Runs : ToolsOfLast(r) /\ Trimmed(r)

LEMMA LeastOf ==
  ASSUME NEW S \in SUBSET Nat, S # {}
  PROVE  \E x \in S : \A y \in S : x <= y
<1>1. \E x \in S : \A y \in S : ~(<<y, x>> \in OpToRel(<, Nat))
  <2> DEFINE R == OpToRel(<, Nat)
  <2>1. IsWellFoundedOn(R, Nat)
    BY NatLessThanWellFounded, Zenon
  <2> HIDE DEF R
  <2>2. \E x \in S : \A y \in S : ~(<<y, x>> \in R)
    BY <2>1, WFMin, Zenon
  <2> QED BY <2>2, Zenon DEF R
<1>2. ASSUME NEW x \in S, NEW y \in S, ~(<<y, x>> \in OpToRel(<, Nat))
      PROVE  x <= y
  BY <1>2 DEF OpToRel
<1> QED BY <1>1, <1>2, Zenon

(* Min of a set of numbers is its least.                                   *)
LEMMA MinIn ==
  ASSUME NEW S \in SUBSET Nat, S # {}
  PROVE  Min(S) \in S /\ \A y \in S : Min(S) <= y
<1>1. \E x \in S : \A y \in S : x <= y
  BY LeastOf, Zenon
<1> QED BY <1>1, Zenon DEF Min

LEMMA MinIs ==
  ASSUME NEW S \in SUBSET Nat, NEW m \in S, \A y \in S : m <= y
  PROVE  Min(S) = m
<1>1. Min(S) \in S /\ \A y \in S : Min(S) <= y
  BY MinIn, Zenon
<1>2. m \in Nat /\ Min(S) \in Nat /\ Min(S) <= m /\ m <= Min(S)
  BY <1>1
<1> QED BY <1>2

LEMMA FirstIs ==
  ASSUME RowsSaved, NEW S \in SUBSET (1..Len(rows))
  PROVE  /\ FirstOf(S) \in S \cup {Len(rows) + 1} /\ FirstOf(S) \in 1..Len(rows) + 1
         /\ \A y \in S : FirstOf(S) <= y
<1>1. Len(rows) \in Nat
  BY DEF RowsSaved
<1> DEFINE T == S \cup {Len(rows) + 1}
<1>2. T \in SUBSET Nat /\ T # {} /\ T \subseteq 1..Len(rows) + 1
  <2>1. T # {} /\ \A x \in T : x \in Nat /\ x \in 1..Len(rows) + 1
    BY <1>1
  <2> HIDE DEF T
  <2> QED BY <2>1
<1> HIDE DEF T
<1>3. Min(T) \in T /\ \A y \in T : Min(T) <= y
  BY <1>2, MinIn, Zenon
<1> QED BY <1>2, <1>3 DEF FirstOf, T

LEMMA WindowStarts ==
  ASSUME RowsSaved
  PROVE  /\ WindowStart \in 1..Len(rows) + 1
         /\ \A i \in 1..Len(rows) : i > Len(rows) - Window <=> i >= WindowStart
<1> DEFINE x == Len(rows) - Window + 1
<1>1. Len(rows) \in Nat /\ Window \in Nat \ {0} /\ x \in Int
  BY HistoryAssumption DEF RowsSaved
<1>2. \E m \in {1, x} : \A y \in {1, x} : m >= y
  BY <1>1
<1> HIDE DEF x
<1>3. Max({1, x}) \in {1, x} /\ \A y \in {1, x} : Max({1, x}) >= y
  BY <1>2, Zenon DEF Max
<1>4. WindowStart = Max({1, x})
  BY DEF WindowStart, x
<1>5. WindowStart >= 1 /\ WindowStart >= x /\ WindowStart \in {1, x}
  BY <1>3, <1>4
<1> QED BY <1>1, <1>5 DEF x

(* What is sent begins at the first opener of the window: a tool message   *)
(* in front of it is an orphan, since its caller is out of the window and  *)
(* nobody else has its id, or stands behind a caller that goes with it.    *)
LEMMA SanitizedIsFirstOpener ==
  ASSUME RowsSaved, CallsNumbered, GroupsWhole
  PROVE  Sanitized(WindowStart) = Min(Openers(Len(rows)) \cup {Len(rows) + 1})
<1> DEFINE n == Len(rows)
           w == WindowStart
           i0 == SkipOrphans(w)
           i1 == SkipGroups(i0)
           T == Openers(n) \cup {n + 1}
<1>1. n \in Nat /\ w \in 1..n + 1 /\ \A i \in 1..n : i > n - Window <=> i >= w
  BY WindowStarts DEF RowsSaved
<1>2. /\ i0 \in {i \in w..n : ~Orphan(i, w)} \cup {n + 1}
      /\ i0 \in 1..n + 1
      /\ \A y \in w..n : ~Orphan(y, w) => i0 <= y
  <2> DEFINE S == {i \in w..n : ~Orphan(i, w)}
  <2>1. S \in SUBSET (1..n)
    BY <1>1
  <2>2. i0 = FirstOf(S)
    BY DEF SkipOrphans
  <2> HIDE DEF S
  <2>3. FirstOf(S) \in S \cup {n + 1} /\ FirstOf(S) \in 1..n + 1 /\ \A y \in S : FirstOf(S) <= y
    BY <2>1, FirstIs
  <2> QED BY <2>2, <2>3 DEF S
<1> HIDE DEF i0
<1>3. \A y \in w..n : y < i0 => Tool(y)
  BY <1>1, <1>2 DEF Orphan
<1>4. i0 <= n => ~Tool(i0)
  <2> SUFFICES ASSUME i0 <= n, Tool(i0) PROVE FALSE
    OBVIOUS
  <2>1. i0 \in w..n /\ ~Orphan(i0, w)
    BY <1>1, <1>2
  <2>2. PICK j \in w..n : rows[i0].call \in rows[j].calls
    BY <2>1 DEF Orphan, Claimed
  <2>3. PICK c \in 1..i0 - 1 : rows[i0].call \in rows[c].calls
    BY <1>1, <2>1 DEF GroupsWhole, InItsGroup
  <2>4. c = j
    BY <1>1, <2>1, <2>2, <2>3 DEF CallsNumbered
  <2>5. Tool(c)
    BY <1>1, <1>3, <2>1, <2>2, <2>3, <2>4
  <2>6. rows[c].calls = {}
    BY <1>1, <2>1, <2>3, <2>5 DEF CallsNumbered, Tool
  <2> QED BY <2>3, <2>6
<1>5. /\ i1 \in T
      /\ \A y \in Openers(n) : i1 <= y
  <2>1. ASSUME NEW y \in Openers(n) PROVE y \in w..n /\ y >= i0 /\ Opener(y)
    BY <1>1, <1>2, <1>3 DEF Openers, Opener
  <2>2. CASE i0 <= n /\ Caller(i0)
    <3> DEFINE S == {j \in i0 + 1..n : ~Tool(j) /\ ~Caller(j)}
    <3>1. S \in SUBSET (1..n) /\ i1 = FirstOf(S)
      BY <1>1, <1>2, <2>2 DEF SkipGroups
    <3>2. i0 >= w
      BY <1>1, <1>2, <2>2
    <3>3. S \subseteq Openers(n)
      BY <1>1, <1>2, <3>2 DEF Openers
    <3>4. \A y \in Openers(n) : y \in S
      BY <1>1, <1>2, <2>1, <2>2 DEF Opener
    <3> HIDE DEF S
    <3>5. FirstOf(S) \in S \cup {n + 1} /\ \A y \in S : FirstOf(S) <= y
      BY <3>1, FirstIs
    <3> QED BY <3>1, <3>3, <3>4, <3>5
  <2>3. CASE ~(i0 <= n /\ Caller(i0))
    <3>1. i1 = i0
      BY <2>3 DEF SkipGroups
    <3>2. i0 = n + 1 \/ (i0 \in w..n /\ i0 \in Openers(n))
      BY <1>1, <1>2, <1>4, <2>3 DEF Openers
    <3> QED BY <1>1, <2>1, <3>1, <3>2
  <2> QED BY <2>2, <2>3
<1>6. T \in SUBSET Nat /\ \A y \in Openers(n) : y <= n
  BY <1>1 DEF Openers
<1>7. i1 \in Nat /\ \A y \in T : i1 <= y
  BY <1>1, <1>5, <1>6
<1>8. Sanitized(w) = i1
  BY DEF Sanitized, i0
<1> HIDE DEF i1, w, T
<1>9. Min(T) = i1
  BY <1>5, <1>6, <1>7, MinIs
<1> QED BY <1>7, <1>8, <1>9 DEF w, T

(* Whatever the history, the request begins at a position.                 *)
LEMMA SanitizedIsNat ==
  ASSUME RowsSaved
  PROVE  Sanitized(WindowStart) \in Nat
<1>1. Len(rows) \in Nat /\ WindowStart \in 1..Len(rows) + 1
  BY WindowStarts DEF RowsSaved
<1> DEFINE i0 == SkipOrphans(WindowStart)
           S == {i \in WindowStart..Len(rows) : ~Orphan(i, WindowStart)}
           after == {j \in i0 + 1..Len(rows) : ~Tool(j) /\ ~Caller(j)}
<1>2. S \in SUBSET (1..Len(rows)) /\ i0 = FirstOf(S)
  BY <1>1 DEF SkipOrphans
<1>3. i0 \in 1..Len(rows) + 1
  <2> HIDE DEF S
  <2> QED BY <1>2, FirstIs
<1>4. Sanitized(WindowStart) \in {i0, FirstOf(after)}
  BY DEF Sanitized, SkipGroups
<1>5. after \in SUBSET (1..Len(rows))
  BY <1>1, <1>3
<1> HIDE DEF i0, after
<1>6. FirstOf(after) \in 1..Len(rows) + 1
  BY <1>5, FirstIs
<1> QED BY <1>1, <1>3, <1>4, <1>6

(* A row is appended: what was there stays.                                *)
LEMMA RowIsSaved ==
  ASSUME RowsSaved, NEW new \in Row, Save(new)
  PROVE  /\ RowsSaved' /\ Len(rows') = Len(rows) + 1 /\ Len(rows) \in Nat
         /\ \A i \in 1..Len(rows) : rows'[i] = rows[i]
         /\ rows'[Len(rows) + 1] = new
<1>1. rows \in Seq(Row) /\ rows' = Append(rows, new) /\ Len(rows) < MaxRows /\ Len(rows) \in Nat
  BY DEF RowsSaved, Save
<1>2. rows' \in Seq(Row) /\ Len(rows') = Len(rows) + 1
  BY <1>1
<1>3. (\A i \in 1..Len(rows) : rows'[i] = rows[i]) /\ rows'[Len(rows) + 1] = new
  BY <1>1
<1>4. Len(rows') <= MaxRows
  BY <1>1, <1>2, HistoryAssumption
<1> QED BY <1>1, <1>2, <1>3, <1>4 DEF RowsSaved

LEMMA TwoIntervals ==
  ASSUME NEW m \in Nat, NEW k \in Nat
  PROVE  (1..m) \cup (m + 1..m + k) = 1..m + k
<1> DEFINE some == 1..m
           more == m + 1..m + k
           all == 1..m + k
<1>1. \A x : x \in all <=> x \in some \/ x \in more
  OBVIOUS
<1> HIDE DEF some, more, all
<1>2. some \cup more = all
  BY <1>1
<1> QED BY <1>2 DEF some, more, all

(* The ids stay numbered when the new message calls nothing, or the next.  *)
LEMMA SaveKeepsNumbers ==
  ASSUME RowsSaved, CallsNumbered, NEW new \in Row, Save(new),
         new.role # "assistant" => new.calls = {},
         NEW k \in Nat,
         new.calls = Cardinality(Claimed(1)) + 1..Cardinality(Claimed(1)) + k \/ new.calls = {}
  PROVE  CallsNumbered'
<1> DEFINE n == Len(rows)
<1>1. /\ Len(rows') = n + 1 /\ n \in Nat
      /\ \A i \in 1..n : rows'[i] = rows[i]
      /\ rows'[n + 1] = new
  BY RowIsSaved
<1>2. PICK m \in Nat : Claimed(1) = 1..m
  BY DEF CallsNumbered
<1>3. Cardinality(Claimed(1)) = m
  BY <1>2, FS_Interval
<1>4. Claimed(1)' = Claimed(1) \cup new.calls
  <2>1. Claimed(1)' = UNION {rows'[i].calls : i \in 1..n + 1}
    BY <1>1 DEF Claimed
  <2>2. ASSUME NEW x PROVE x \in UNION {rows'[i].calls : i \in 1..n + 1} <=> x \in Claimed(1) \cup new.calls
    BY <1>1 DEF Claimed
  <2> QED BY <2>1, <2>2
<1>5. new.calls = {} \/ new.calls = m + 1..m + k
  BY <1>3
<1>6. \E q \in Nat : Claimed(1)' = 1..q
  <2>1. CASE new.calls = {}
    BY <1>2, <1>4, <2>1
  <2>2. CASE new.calls = m + 1..m + k
    <3>1. (1..m) \cup (m + 1..m + k) = 1..m + k /\ m + k \in Nat
      BY <1>2, TwoIntervals
    <3> QED BY <1>2, <1>4, <2>2, <3>1
  <2> QED BY <1>5, <2>1, <2>2
<1>7. \A i \in 1..n : rows[i].calls \cap new.calls = {}
  <2>1. \A i \in 1..n : rows[i].calls \subseteq 1..m
    BY <1>1, <1>2 DEF Claimed
  <2> QED BY <1>2, <1>5, <2>1
<1>8. \A i, j \in 1..n + 1 : i # j => rows'[i].calls \cap rows'[j].calls = {}
  BY <1>1, <1>7 DEF CallsNumbered
<1>9. \A i \in 1..n + 1 : rows'[i].role # "assistant" => rows'[i].calls = {}
  BY <1>1 DEF CallsNumbered
<1> HIDE DEF n
<1> QED BY <1>1, <1>6, <1>8, <1>9 DEF CallsNumbered

(* A new tool message belongs to the last group; others begin one.         *)
LEMMA SaveKeepsGroups ==
  ASSUME RowsSaved, GroupsWhole, NEW new \in Row, Save(new),
         new.role = "tool" =>
           \E c \in 1..Len(rows) : new.call \in rows[c].calls /\ \A k \in c + 1..Len(rows) : Tool(k)
  PROVE  GroupsWhole'
<1>0. PICK n \in Nat : n = Len(rows)
  BY RowIsSaved
<1>1. /\ Len(rows') = n + 1 /\ n \in Nat
      /\ \A i \in 1..n : rows'[i] = rows[i]
      /\ rows'[n + 1] = new
  BY <1>0, RowIsSaved
<1>2. \A i \in 1..n : Tool(i)' <=> Tool(i)
  BY <1>1 DEF Tool
<1>3. ASSUME NEW i \in 1..n, Tool(i)' PROVE InItsGroup(i)'
  <2>1. PICK c \in 1..i - 1 : rows[i].call \in rows[c].calls /\ \A k \in c + 1..i - 1 : Tool(k)
    BY <1>0, <1>2, <1>3 DEF GroupsWhole, InItsGroup
  <2>2. \A k \in c + 1..i - 1 : Tool(k)'
    BY <1>1, <1>2, <2>1
  <2>3. rows'[i].call \in rows'[c].calls
    BY <1>1, <2>1
  <2> QED BY <2>2, <2>3 DEF InItsGroup
<1>4. ASSUME Tool(n + 1)' PROVE InItsGroup(n + 1)'
  <2>1. PICK c \in 1..n : new.call \in rows[c].calls /\ \A k \in c + 1..n : Tool(k)
    BY <1>0, <1>1, <1>4 DEF Tool
  <2>2. \A k \in c + 1..n : Tool(k)'
    BY <1>1, <1>2, <2>1
  <2>3. rows'[n + 1].call \in rows'[c].calls /\ (n + 1) - 1 = n
    BY <1>1, <2>1
  <2> QED BY <1>1, <2>2, <2>3 DEF InItsGroup
<1> QED BY <1>1, <1>3, <1>4 DEF GroupsWhole

(* One run moves.  Unless runs overlapped it is alone, so that what is     *)
(* left to show is what the invariant says of it.                          *)
LEMMA RunMoves ==
  ASSUME HistoryInv, RowsSaved', CallsNumbered', overlapped' \in BOOLEAN,
         NEW r \in Runs, NEW new \in Run, new.pc = "tools" <=> new.pending # {},
         runs' = [runs EXCEPT ![r] = new],
         ~overlapped' => /\ ~overlapped /\ GroupsWhole'
                         /\ \A x \in Runs : x # r => runs[x].pc = "idle"
                         /\ ToolsOfLast(r)' /\ Trimmed(r)'
  PROVE  HistoryInv'
<1>1. /\ runs' \in [Runs -> Run] /\ runs'[r] = new
      /\ \A x \in Runs : x # r => runs'[x] = runs[x]
  BY DEF HistoryInv, RunsSaved
<1>2. RunsSaved'
  BY <1>1 DEF HistoryInv, RunsSaved
<1>3. ASSUME ~overlapped' PROVE OneRun' /\ \A x \in Runs : ToolsOfLast(x)' /\ Trimmed(x)'
  <2>1. \A x \in Runs : x # r => runs'[x].pc = "idle"
    BY <1>1, <1>3
  <2>2. OneRun'
    BY <2>1 DEF OneRun
  <2>3. \A x \in Runs : x # r => ToolsOfLast(x)' /\ Trimmed(x)'
    BY <2>1 DEF ToolsOfLast, Trimmed
  <2> QED BY <1>3, <2>2, <2>3
<1> QED BY <1>2, <1>3 DEF HistoryInv

LEMMA RunFields ==
  ASSUME HistoryInv, NEW r \in Runs
  PROVE  /\ runs[r] \in Run /\ runs[r].question \in Nat /\ runs[r].from \in Nat /\ runs[r].to \in Nat
         /\ runs[r].pending \subseteq Nat /\ (runs[r].pc = "tools" <=> runs[r].pending # {})
<1>1. runs[r] \in Run
  BY DEF HistoryInv, RunsSaved
<1> QED BY <1>1 DEF Run, HistoryInv, RunsSaved

(* A busy run that did not overlap another one is the only one.            *)
LEMMA BusyIsAlone ==
  ASSUME HistoryInv, NEW r \in Runs, runs[r].pc # "idle", ~overlapped
  PROVE  GroupsWhole /\ ToolsOfLast(r) /\ Trimmed(r) /\ \A x \in Runs : x # r => runs[x].pc = "idle"
BY DEF HistoryInv, OneRun

LEMMA EndedIsRun == Ended \in Run /\ Ended.pc = "idle" /\ Ended.pending = {}
BY DEF Ended, Run

LEMMA RowsAreRows ==
  /\ UserRow \in Row /\ UserRow.role = "user" /\ UserRow.calls = {}
  /\ \A cs \in SUBSET Nat : /\ AssistantRow(cs) \in Row
                            /\ AssistantRow(cs).role = "assistant" /\ AssistantRow(cs).calls = cs
  /\ \A id \in Nat : /\ ToolRow(id) \in Row
                     /\ ToolRow(id).role = "tool" /\ ToolRow(id).calls = {} /\ ToolRow(id).call = id
BY DEF Row, UserRow, AssistantRow, ToolRow

(* A row that calls nothing leaves the ids as they are.                    *)
LEMMA PlainRowSaved ==
  ASSUME HistoryInv, NEW new \in Row, new.calls = {}, Save(new)
  PROVE  RowsSaved' /\ CallsNumbered'
<1>1. RowsSaved /\ CallsNumbered /\ 0 \in Nat
  BY DEF HistoryInv
<1>2. CallsNumbered'
  BY <1>1, SaveKeepsNumbers
<1> QED BY <1>1, <1>2, RowIsSaved

LEMMA AskKeeps == ASSUME HistoryInv, NEW r \in Runs, Ask(r) PROVE HistoryInv'
<1> DEFINE new == [Ended EXCEPT !.pc = "read", !.question = Len(rows) + 1]
<1>1. /\ runs[r].pc = "idle" /\ Save(UserRow) /\ runs' = [runs EXCEPT ![r] = new]
      /\ overlapped' = (overlapped \/ \E x \in Runs : runs[x].pc # "idle")
  BY DEF Ask
<1>2. RowsSaved /\ CallsNumbered /\ Len(rows) \in Nat
  BY DEF HistoryInv, RowsSaved
<1>3. new \in Run /\ new.pc = "read" /\ new.pending = {}
  <2>1. Len(rows) + 1 \in Nat
    BY <1>2
  <2> QED BY <2>1, EndedIsRun DEF Run
<1>4. RowsSaved' /\ CallsNumbered'
  BY <1>1, RowsAreRows, PlainRowSaved
<1>5. overlapped' \in BOOLEAN
  BY <1>1
<1>6. ASSUME ~overlapped' PROVE ~overlapped /\ \A x \in Runs : runs[x].pc = "idle"
  BY <1>1, <1>6
<1>7. ~overlapped' => GroupsWhole'
  BY <1>1, <1>2, <1>6, RowsAreRows, SaveKeepsGroups DEF HistoryInv
<1> HIDE DEF new
<1>8. runs'[r] = new
  BY <1>1 DEF HistoryInv, RunsSaved
<1>9. ToolsOfLast(r)' /\ Trimmed(r)'
  BY <1>3, <1>8 DEF ToolsOfLast, Trimmed
<1> QED BY <1>1, <1>3, <1>4, <1>5, <1>6, <1>7, <1>9, RunMoves

LEMMA RowsStay ==
  ASSUME HistoryInv, UNCHANGED rows
  PROVE  RowsSaved' /\ CallsNumbered' /\ (GroupsWhole => GroupsWhole')
<1>1. RowsSaved'
  BY DEF HistoryInv, RowsSaved
<1>2. Claimed(1)' = Claimed(1)
  BY DEF Claimed
<1>3. CallsNumbered'
  BY <1>2 DEF HistoryInv, CallsNumbered
<1>4. ASSUME GroupsWhole PROVE GroupsWhole'
  BY <1>4 DEF GroupsWhole, InItsGroup, Tool
<1> QED BY <1>1, <1>3, <1>4

LEMMA ReadKeeps == ASSUME HistoryInv, NEW r \in Runs, ReadHistory(r) PROVE HistoryInv'
<1> DEFINE new == [runs[r] EXCEPT !.pc = "llm", !.from = Sanitized(WindowStart), !.to = Len(rows)]
<1>1. /\ runs[r].pc = "read" /\ UNCHANGED <<rows, overlapped>>
      /\ runs' = [runs EXCEPT ![r] = new]
  <2>1. runs \in [Runs -> Run]
    BY DEF HistoryInv, RunsSaved
  <2> QED BY <2>1 DEF ReadHistory
<1>2. Len(rows) \in Nat /\ Sanitized(WindowStart) \in Nat
  BY SanitizedIsNat DEF HistoryInv, RowsSaved
<1>3. /\ new \in Run /\ new.pc = "llm" /\ new.pending = runs[r].pending
      /\ new.from = Sanitized(WindowStart) /\ new.to = Len(rows)
  BY <1>2, RunFields DEF Run
<1>4. new.pending = {}
  BY <1>1, <1>3, RunFields
<1> HIDE DEF new
<1>5. RowsSaved' /\ CallsNumbered' /\ (GroupsWhole => GroupsWhole')
  BY <1>1, RowsStay
<1>6. runs'[r] = new
  BY <1>1 DEF HistoryInv, RunsSaved
<1>7. ToolsOfLast(r)'
  BY <1>3, <1>6 DEF ToolsOfLast
<1>8. ASSUME ~overlapped PROVE Trimmed(r)'
  <2>1. new.from = Min(Openers(Len(rows)) \cup {Len(rows) + 1})
    BY <1>3, <1>8, BusyIsAlone, <1>1, SanitizedIsFirstOpener DEF HistoryInv
  <2>2. /\ runs'[r].to = Len(rows) /\ rows' = rows /\ Len(rows) <= Len(rows)
        /\ runs'[r].from = Min(Openers(Len(rows)) \cup {Len(rows) + 1})
    BY <1>1, <1>2, <1>3, <1>6, <2>1
  <2> QED BY <2>2 DEF Trimmed, Openers, Tool, Caller
<1>9. ~overlapped' => /\ ~overlapped /\ GroupsWhole'
                      /\ \A x \in Runs : x # r => runs[x].pc = "idle"
                      /\ ToolsOfLast(r)' /\ Trimmed(r)'
  BY <1>1, <1>5, <1>7, <1>8, BusyIsAlone
<1>10. overlapped' \in BOOLEAN
  BY <1>1 DEF HistoryInv
<1> QED BY <1>1, <1>3, <1>4, <1>5, <1>9, <1>10, RunMoves

LEMMA EndKeeps ==
  ASSUME HistoryInv, NEW r \in Runs, runs[r].pc # "idle", runs' = [runs EXCEPT ![r] = Ended],
         UNCHANGED overlapped, UNCHANGED rows \/ Save(AssistantRow({}))
  PROVE  HistoryInv'
<1>1. AssistantRow({}) \in Row /\ AssistantRow({}).role = "assistant" /\ AssistantRow({}).calls = {}
  BY RowsAreRows
<1>2. RowsSaved' /\ CallsNumbered' /\ (GroupsWhole => GroupsWhole')
  <2>1. CASE UNCHANGED rows
    BY <2>1, RowsStay
  <2>2. CASE Save(AssistantRow({}))
    BY <1>1, <2>2, PlainRowSaved, SaveKeepsGroups DEF HistoryInv
  <2> QED BY <2>1, <2>2
<1>3. runs'[r] = Ended
  BY DEF HistoryInv, RunsSaved
<1>4. ToolsOfLast(r)' /\ Trimmed(r)'
  BY <1>3, EndedIsRun DEF ToolsOfLast, Trimmed
<1>5. overlapped' \in BOOLEAN
  BY DEF HistoryInv
<1>6. ~overlapped' => /\ ~overlapped /\ GroupsWhole'
                      /\ \A x \in Runs : x # r => runs[x].pc = "idle"
                      /\ ToolsOfLast(r)' /\ Trimmed(r)'
  BY <1>2, <1>4, BusyIsAlone
<1> QED BY <1>2, <1>5, <1>6, EndedIsRun, RunMoves

(* The tools an assistant message calls are those of the last group.       *)
LEMMA CallKeeps ==
  ASSUME HistoryInv, NEW r \in Runs, NEW k \in 0..MaxCalls, CallTools(r, k)
  PROVE  HistoryInv'
<1> DEFINE ids == Cardinality(Claimed(1)) + 1..Cardinality(Claimed(1)) + k
           new == [runs[r] EXCEPT !.pc = IF k = 0 THEN "read" ELSE "tools", !.pending = ids]
<1>1. /\ runs[r].pc = "llm" /\ Save(AssistantRow(ids)) /\ UNCHANGED overlapped
      /\ runs' = [runs EXCEPT ![r] = new]
  <2>1. runs \in [Runs -> Run]
    BY DEF HistoryInv, RunsSaved
  <2> QED BY <2>1 DEF CallTools, Accepted
<1>2. k \in Nat /\ RowsSaved /\ CallsNumbered /\ Len(rows) \in Nat
  BY HistoryAssumption DEF HistoryInv, RowsSaved
<1>3. ids \in SUBSET Nat /\ (k = 0 <=> ids = {})
  <2>1. PICK m \in Nat : Claimed(1) = 1..m
    BY <1>2 DEF CallsNumbered
  <2>2. Cardinality(Claimed(1)) = m
    BY <2>1, FS_Interval
  <2>3. k # 0 => m + 1 \in ids
    BY <1>2, <2>2
  <2> QED BY <1>2, <2>2, <2>3
<1>4. /\ AssistantRow(ids) \in Row
      /\ AssistantRow(ids).role = "assistant" /\ AssistantRow(ids).calls = ids
  BY <1>3, RowsAreRows
<1>5. RowsSaved' /\ CallsNumbered'
  BY <1>1, <1>2, <1>4, SaveKeepsNumbers, RowIsSaved
<1>6. GroupsWhole => GroupsWhole'
  BY <1>1, <1>2, <1>4, SaveKeepsGroups
<1>7. /\ new \in Run /\ new.pending = ids /\ new.pc \in {"read", "tools"}
      /\ new.pc = "tools" <=> k # 0
  BY <1>3, RunFields DEF Run
<1> HIDE DEF ids, new
<1>8. runs'[r] = new
  BY <1>1 DEF HistoryInv, RunsSaved
<1>9. ToolsOfLast(r)'
  <2>1. /\ Len(rows') = Len(rows) + 1 /\ rows'[Len(rows) + 1].calls = ids
    BY <1>1, <1>2, <1>4, RowIsSaved
  <2> QED BY <1>2, <1>7, <1>8, <2>1 DEF ToolsOfLast
<1>10. Trimmed(r)'
  BY <1>7, <1>8 DEF Trimmed
<1>11. overlapped' \in BOOLEAN
  BY <1>1 DEF HistoryInv
<1>12. ~overlapped' => /\ ~overlapped /\ GroupsWhole'
                       /\ \A x \in Runs : x # r => runs[x].pc = "idle"
                       /\ ToolsOfLast(r)' /\ Trimmed(r)'
  BY <1>1, <1>6, <1>9, <1>10, BusyIsAlone
<1>13. new.pc = "tools" <=> new.pending # {}
  BY <1>3, <1>7
<1> QED BY <1>1, <1>5, <1>7, <1>11, <1>12, <1>13, RunMoves

(* The result of a tool joins the group of its caller.                     *)
LEMMA ExecuteKeeps == ASSUME HistoryInv, NEW r \in Runs, ExecuteTool(r) PROVE HistoryInv'
<1> DEFINE id == Min(runs[r].pending)
           rest == runs[r].pending \ {id}
           new == [runs[r] EXCEPT !.pending = rest, !.pc = IF rest = {} THEN "read" ELSE "tools"]
<1>1. /\ runs[r].pc = "tools" /\ Save(ToolRow(id)) /\ UNCHANGED overlapped
      /\ runs' = [runs EXCEPT ![r] = new]
  <2>1. runs \in [Runs -> Run]
    BY DEF HistoryInv, RunsSaved
  <2> QED BY <2>1 DEF ExecuteTool
<1>2. RowsSaved /\ CallsNumbered /\ Len(rows) \in Nat
  BY DEF HistoryInv, RowsSaved
<1>3. id \in runs[r].pending /\ id \in Nat
  BY <1>1, RunFields, MinIn
<1>4. /\ ToolRow(id) \in Row /\ ToolRow(id).role = "tool" /\ ToolRow(id).calls = {}
      /\ ToolRow(id).call = id
  BY <1>3, RowsAreRows
<1>5. RowsSaved' /\ CallsNumbered'
  BY <1>1, <1>4, PlainRowSaved
<1>6. rest \in SUBSET Nat
  BY RunFields
<1>7. /\ new \in Run /\ new.pending = rest /\ new.pc \in {"read", "tools"}
      /\ new.pc = "tools" <=> new.pending # {}
  BY <1>6, RunFields DEF Run
<1>8. rest \subseteq runs[r].pending
  OBVIOUS
<1> HIDE DEF id, rest, new
<1>9. runs'[r] = new
  BY <1>1 DEF HistoryInv, RunsSaved
<1>10. ASSUME ~overlapped PROVE GroupsWhole' /\ ToolsOfLast(r)'
  <2>1. GroupsWhole /\ ToolsOfLast(r)
    BY <1>1, <1>10, BusyIsAlone
  <2>2. PICK c \in 1..Len(rows) : runs[r].pending \subseteq rows[c].calls /\ \A x \in c + 1..Len(rows) : Tool(x)
    BY <1>1, <2>1 DEF ToolsOfLast
  <2>3. GroupsWhole'
    BY <1>1, <1>2, <1>3, <1>4, <2>1, <2>2, SaveKeepsGroups
  <2>4. /\ Len(rows') = Len(rows) + 1
        /\ \A i \in 1..Len(rows) : rows'[i] = rows[i]
        /\ rows'[Len(rows) + 1].role = "tool"
    BY <1>1, <1>2, <1>4, RowIsSaved
  <2>5. /\ c \in 1..Len(rows') /\ new.pending \subseteq rows'[c].calls
        /\ \A x \in c + 1..Len(rows') : rows'[x].role = "tool"
    BY <1>2, <1>7, <1>8, <2>2, <2>4 DEF Tool
  <2> QED BY <1>9, <2>3, <2>5 DEF ToolsOfLast, Tool
<1>11. Trimmed(r)'
  BY <1>7, <1>9 DEF Trimmed
<1>12. overlapped' \in BOOLEAN
  BY <1>1 DEF HistoryInv
<1>13. ~overlapped' => /\ ~overlapped /\ GroupsWhole'
                       /\ \A x \in Runs : x # r => runs[x].pc = "idle"
                       /\ ToolsOfLast(r)' /\ Trimmed(r)'
  BY <1>1, <1>10, <1>11, BusyIsAlone
<1> QED BY <1>1, <1>5, <1>7, <1>12, <1>13, RunMoves

LEMMA HistoryInvInit == ChatHistoryInit => HistoryInv
<1> SUFFICES ASSUME ChatHistoryInit PROVE HistoryInv
  OBVIOUS
<1>1. rows = <<>> /\ runs = [r \in Runs |-> Ended] /\ overlapped = FALSE
  BY DEF ChatHistoryInit
<1>2. rows \in Seq(Row) /\ Len(rows) = 0
  BY <1>1
<1>3. Claimed(1) = 1..0
  BY <1>2 DEF Claimed
<1>4. RowsSaved /\ CallsNumbered /\ GroupsWhole
  BY <1>2, <1>3, HistoryAssumption DEF RowsSaved, CallsNumbered, GroupsWhole
<1>5. runs \in [Runs -> Run] /\ \A r \in Runs : runs[r].pc = "idle" /\ runs[r].pending = {}
  BY <1>1, EndedIsRun
<1> QED BY <1>1, <1>4, <1>5 DEF HistoryInv, RunsSaved, OneRun, ToolsOfLast, Trimmed

LEMMA HistoryInvStep == HistoryInv /\ [ChatHistoryStep]_chatHistoryVars => HistoryInv'
<1> SUFFICES ASSUME HistoryInv, [ChatHistoryStep]_chatHistoryVars PROVE HistoryInv'
  OBVIOUS
<1>1. ASSUME NEW r \in Runs, Fail(r) PROVE HistoryInv'
  BY <1>1, EndKeeps DEF Fail
<1>2. ASSUME NEW r \in Runs, Answer(r) PROVE HistoryInv'
  BY <1>2, EndKeeps DEF Answer, Accepted
<1>3. CASE UNCHANGED chatHistoryVars
  <2>1. rows' = rows /\ runs' = runs /\ overlapped' = overlapped
    BY <1>3 DEF chatHistoryVars
  <2>2. RowsSaved' /\ CallsNumbered' /\ (GroupsWhole => GroupsWhole')
    BY <2>1, RowsStay
  <2>3. RunsSaved' /\ (OneRun => OneRun') /\ overlapped' \in BOOLEAN
    BY <2>1 DEF HistoryInv, RunsSaved, OneRun
  <2>4. ASSUME NEW r \in Runs, ToolsOfLast(r), Trimmed(r) PROVE ToolsOfLast(r)' /\ Trimmed(r)'
    <3>1. ToolsOfLast(r)'
      BY <2>1, <2>4 DEF ToolsOfLast, Tool
    <3>2. Trimmed(r)'
      BY <2>1, <2>4 DEF Trimmed, Openers, Tool, Caller
    <3> QED BY <3>1, <3>2
  <2> QED BY <2>1, <2>2, <2>3, <2>4 DEF HistoryInv
<1> QED BY <1>1, <1>2, <1>3, AskKeeps, ReadKeeps, ExecuteKeeps, CallKeeps DEF ChatHistoryStep

LEMMA HistoryInvAlways == ChatHistorySpec => []HistoryInv
BY HistoryInvInit, HistoryInvStep, PTL DEF ChatHistorySpec

(* The rows of a session and the executions of sendMessage have their      *)
(* types.                                                                  *)
THEOREM HistoryTypes == ChatHistorySpec => []ChatHistoryTypeOK
<1>1. HistoryInv => ChatHistoryTypeOK
  BY DEF HistoryInv, RowsSaved, RunsSaved, ChatHistoryTypeOK
<1> QED BY <1>1, HistoryInvAlways, PTL

(* Unless executions overlapped, a request to the LLM begins with the      *)
(* first message of its window that is neither a tool result nor a call of *)
(* tools, and leaves out nothing behind it, for any window, number of rows *)
(* and of calls.                                                           *)
THEOREM AlwaysTrimsToFirstOpener == ChatHistorySpec => []TrimsToFirstOpener
<1>1. HistoryInv => TrimsToFirstOpener
  BY Zenon DEF HistoryInv, Trimmed, TrimsToFirstOpener, Openers
<1> QED BY <1>1, HistoryInvAlways, PTL

(***************************************************************************)
(* ChatTools.  What an answer shows is of its own turn, for any tools,     *)
(* mints and slippages, any window and any number of outputs looked at.    *)
(***************************************************************************)
RunsInRows == \A r \in Runs : runs[r].question \in 0..Len(rows) /\ runs[r].to \in 0..Len(rows)

OutputsSaved ==
  /\ outputs \in Seq(Output) /\ Len(outputs) = Len(rows)
  /\ \A i \in 1..Len(rows) : outputs[i].tool = "set_slippage" /\ outputs[i].ok => outputs[i].bps # 0

(* Nobody has asked since the run did, and its request is up to date.      *)
InItsTurn(r) ==
  runs[r].pc # "idle" =>
    /\ runs[r].question # 0 /\ User(runs[r].question)
    /\ \A i \in runs[r].question + 1..Len(rows) : ~User(i)
    /\ runs[r].pc = "llm" => runs[r].to = Len(rows)

Payload ==
  [question : 0..MaxRows, read : 0..MaxRows, at : 0..MaxRows,
   type : {View[tool] : tool \in DOMAIN View} \cup {"none", "text", "structured"},
   token : Tokens \cup {NoToken}, bps : 0..HighestSlippage, sells : BOOLEAN]

AllIdle == \A r \in Runs : runs[r].pc = "idle"

ToolsInv ==
  /\ HistoryInv /\ RunsInRows /\ OutputsSaved /\ shown \in Payload
  /\ ~overlapped => \A r \in Runs : InItsTurn(r)
  /\ ~overlapped /\ shown # NoAnswer => AllIdle
  /\ AnswersAreOfTheirTurn

(* What executeTool may return.                                            *)
Returned(output) ==
  output \in Output /\ (output.tool = "set_slippage" /\ output.ok => output.bps # 0)

LEMMA MinOfTwo ==
  ASSUME NEW a \in Nat \ {0}, NEW b \in Int, b > 0
  PROVE  Min({a, b}) \in 1..a
<1>1. Min({a, b}) \in {a, b} /\ \A y \in {a, b} : Min({a, b}) <= y
  <2>1. {a, b} \in SUBSET Nat /\ {a, b} # {}
    OBVIOUS
  <2> QED BY <2>1, MinIn, Zenon
<1> QED BY <1>1

LEMMA DoneFields ==
  ASSUME NEW tool
  PROVE  /\ Done(tool).tool = tool /\ Done(tool).bps = 0 /\ Done(tool).token = NoToken
         /\ Erred(tool).tool = tool /\ Erred(tool).ok = FALSE
         /\ (tool \in ToolNames \cup {"none"} => Done(tool) \in Output /\ Erred(tool) \in Output)
<1>1. 0 \in 0..HighestSlippage
  BY ToolsAssumption
<1> QED BY <1>1 DEF Done, Erred, Output

LEMMA ToolsReturn == ASSUME NEW output \in ToolOutputs PROVE Returned(output)
<1>1. ASSUME output \in FetchTokenData PROVE Returned(output)
  <2>1. CASE output = Erred("fetch_token_data")
    BY <2>1, DoneFields DEF Returned, ToolNames, View
  <2>2. ASSUME NEW token \in Mints, output = [Done("fetch_token_data") EXCEPT !.token = token]
        PROVE  Returned(output)
    <3>1. 0 \in 0..HighestSlippage /\ token \in Tokens /\ "fetch_token_data" \in ToolNames
      BY ToolsAssumption DEF Tokens, ToolNames, View
    <3>2. output = [tool |-> "fetch_token_data", ok |-> TRUE, sells |-> FALSE, token |-> token, bps |-> 0]
      BY <2>2 DEF Done
    <3> QED BY <3>1, <3>2 DEF Returned, Output
  <2> QED BY <1>1, <2>1, <2>2 DEF FetchTokenData
<1>2. ASSUME output \in PrepareSwap PROVE Returned(output)
  <2>1. CASE output = Erred("prepare_swap")
    BY <2>1, DoneFields DEF Returned, ToolNames, View
  <2>2. ASSUME NEW from \in UNION {Resolved(name) : name \in Tokens},
               NEW to \in UNION {Resolved(name) : name \in Tokens}, output = Trade(from, to)
        PROVE  Returned(output)
    <3>1. from \in Tokens /\ to \in Tokens
      BY DEF Resolved, Tokens
    <3>2. PICK sells \in BOOLEAN : sells = (to = Sol /\ from # Sol)
      OBVIOUS
    <3>3. PICK token \in Tokens : token = IF sells THEN from ELSE to
      BY <3>1
    <3>4. output = [tool |-> "prepare_swap", ok |-> TRUE, sells |-> sells, token |-> token, bps |-> 0]
      BY <2>2, <3>2, <3>3 DEF Trade, Done
    <3>5. 0 \in 0..HighestSlippage /\ "prepare_swap" \in ToolNames
      BY ToolsAssumption DEF ToolNames, View
    <3> QED BY <3>4, <3>5 DEF Returned, Output
  <2>3. output # Erred("prepare_swap") =>
          \E from, to \in UNION {Resolved(name) : name \in Tokens} : output = Trade(from, to)
    BY <1>2 DEF PrepareSwap
  <2> QED BY <2>1, <2>2, <2>3
<1>3. ASSUME output \in SetSlippage PROVE Returned(output)
  <2>1. PICK bps \in SlippageAsked :
          output = IF bps <= 0 THEN Erred("set_slippage")
                   ELSE [Done("set_slippage") EXCEPT !.bps = Min({HighestSlippage, bps})]
    BY <1>3 DEF SetSlippage
  <2>2. bps \in Int /\ HighestSlippage \in Nat \ {0} /\ "set_slippage" \in ToolNames
    BY ToolsAssumption DEF ToolNames, View
  <2>3. CASE bps <= 0
    BY <2>1, <2>2, <2>3, DoneFields DEF Returned
  <2>4. CASE ~(bps <= 0)
    <3>1. PICK n \in 1..HighestSlippage : n = Min({HighestSlippage, bps})
      BY <2>2, <2>4, MinOfTwo
    <3>2. output = [tool |-> "set_slippage", ok |-> TRUE, sells |-> FALSE, token |-> NoToken, bps |-> n]
      BY <2>1, <2>4, <3>1 DEF Done
    <3>3. n \in 0..HighestSlippage /\ n # 0
      BY <2>2
    <3> QED BY <2>2, <3>2, <3>3 DEF Returned, Output
  <2> QED BY <2>3, <2>4
<1>4. ASSUME NEW tool \in Reads \cup {"navigate_to", "fetch_portfolio_performance"},
             output \in {Done(tool), Erred(tool)}
      PROVE  Returned(output)
  <2>1. tool \in ToolNames /\ tool # "set_slippage"
    BY DEF Reads, ToolNames, View
  <2> QED BY <1>4, <2>1, DoneFields DEF Returned
<1>5. output \in FetchTokenData \cup PrepareSwap \cup SetSlippage \cup FetchFrom(Reads) \cup NavigateTo \cup UnknownTool
  BY DEF ToolOutputs
<1>6. output \in FetchFrom(Reads) \cup NavigateTo \cup UnknownTool =>
        \E tool \in Reads \cup {"navigate_to", "fetch_portfolio_performance"} : output \in {Done(tool), Erred(tool)}
  BY DEF FetchFrom, NavigateTo, UnknownTool
<1> QED BY <1>1, <1>2, <1>3, <1>4, <1>5, <1>6

LEMMA NothingReturned == Returned(NoOutput)
<1>1. NoOutput = Done("none") /\ "none" # "set_slippage"
  BY DEF NoOutput
<1> QED BY <1>1, DoneFields DEF Returned

LEMMA NoAnswerIsPayload == NoAnswer \in Payload /\ NoAnswer.type = "none"
<1>1. 0 \in 0..HighestSlippage /\ 0 \in 0..MaxRows
  BY ToolsAssumption, HistoryAssumption
<1> QED BY <1>1 DEF NoAnswer, Payload

(* A row saved with its output.                                            *)
LEMMA SavedTogether ==
  ASSUME RowsSaved, OutputsSaved, NEW new \in Row, Save(new), NEW output, Returned(output), SavedWith(output)
  PROVE  /\ OutputsSaved' /\ Len(rows') = Len(rows) + 1 /\ Len(rows) \in Nat
         /\ \A i \in 1..Len(rows) : rows'[i] = rows[i] /\ outputs'[i] = outputs[i]
         /\ rows'[Len(rows) + 1] = new
<1>1. /\ Len(rows') = Len(rows) + 1 /\ Len(rows) \in Nat
      /\ \A i \in 1..Len(rows) : rows'[i] = rows[i]
      /\ rows'[Len(rows) + 1] = new
  BY RowIsSaved
<1>2. outputs' = Append(outputs, output) /\ outputs \in Seq(Output) /\ output \in Output /\ Len(outputs) = Len(rows)
  BY <1>1 DEF SavedWith, Returned, OutputsSaved
<1>3. /\ outputs' \in Seq(Output) /\ Len(outputs') = Len(rows) + 1 /\ outputs'[Len(rows) + 1] = output
      /\ \A i \in 1..Len(rows) : outputs'[i] = outputs[i]
  BY <1>1, <1>2
<1>4. \A i \in 1..Len(rows') : i \in 1..Len(rows) \/ i = Len(rows) + 1
  BY <1>1
<1>5. OutputsSaved'
  BY <1>1, <1>3, <1>4 DEF OutputsSaved, Returned
<1> QED BY <1>1, <1>3, <1>5

LEMMA NothingSaved ==
  ASSUME RowsSaved, OutputsSaved, UNCHANGED rows, NEW output, SavedWith(output)
  PROVE  OutputsSaved' /\ outputs' = outputs
<1>1. outputs' = outputs
  <2>1. Len(rows) \in Nat
    BY DEF RowsSaved
  <2> QED BY <2>1 DEF SavedWith
<1> QED BY <1>1 DEF OutputsSaved

(* A busy run moves and nobody asks; no answer is shown meanwhile.         *)
LEMMA BusyMoves ==
  ASSUME ToolsInv, HistoryInv', OutputsSaved', shown' \in Payload, NEW r \in Runs, runs[r].pc # "idle",
         UNCHANGED overlapped, NEW moved \in Run, runs' = [runs EXCEPT ![r] = moved],
         Len(rows) \in Nat, Len(rows') \in Nat, Len(rows) <= Len(rows'),
         \A i \in 1..Len(rows) : rows'[i] = rows[i],
         \A i \in 1..Len(rows') : i \in 1..Len(rows) \/ rows'[i].role # "user",
         moved.to \in 0..Len(rows'),
         \/ moved.question = runs[r].question /\ (moved.pc = "llm" => moved.to = Len(rows'))
         \/ moved = Ended,
         ~overlapped /\ shown' # NoAnswer => moved = Ended,
         AnswersAreOfTheirTurn'
  PROVE  ToolsInv'
<1>1. /\ runs' \in [Runs -> Run] /\ runs'[r] = moved
      /\ \A x \in Runs : x # r => runs'[x] = runs[x]
  BY DEF ToolsInv, HistoryInv, RunsSaved
<1>2. Ended.pc = "idle" /\ Ended.question = 0 /\ Ended.to = 0
  BY DEF Ended
<1>3. RunsInRows'
  <2>1. ASSUME NEW x \in Runs, x # r PROVE runs'[x].question \in 0..Len(rows') /\ runs'[x].to \in 0..Len(rows')
    BY <1>1, <2>1 DEF ToolsInv, RunsInRows
  <2>2. moved.question \in 0..Len(rows')
    BY <1>2 DEF ToolsInv, RunsInRows
  <2> QED BY <1>1, <2>1, <2>2 DEF RunsInRows
<1>4. ASSUME ~overlapped
      PROVE  (\A x \in Runs : InItsTurn(x)') /\ (shown' # NoAnswer => AllIdle')
  <2>1. \A x \in Runs : x # r => runs'[x].pc = "idle"
    BY <1>1, <1>4, BusyIsAlone DEF ToolsInv
  <2>2. \A x \in Runs : x # r => InItsTurn(x)'
    BY <2>1 DEF InItsTurn
  <2>3. ASSUME moved # Ended PROVE InItsTurn(r)'
    <3>1. /\ runs[r].question # 0 /\ User(runs[r].question) /\ runs[r].question \in 0..Len(rows)
          /\ \A i \in runs[r].question + 1..Len(rows) : ~User(i)
      BY <1>4 DEF ToolsInv, InItsTurn, RunsInRows
    <3>2. /\ runs'[r].question = runs[r].question /\ (runs'[r].pc = "llm" => runs'[r].to = Len(rows'))
      BY <1>1, <2>3
    <3>3. PICK q \in 1..Len(rows) : q = runs[r].question
      BY <3>1
    <3>4. User(q)'
      BY <3>1, <3>3 DEF User
    <3>5. ASSUME NEW i \in q + 1..Len(rows') PROVE ~User(i)'
      <4>1. i \in 1..Len(rows')
        OBVIOUS
      <4>2. CASE i \in 1..Len(rows)
        BY <3>1, <3>3, <4>2 DEF User
      <4>3. CASE rows'[i].role # "user"
        BY <4>3 DEF User
      <4> QED BY <4>1, <4>2, <4>3
    <3> QED BY <3>2, <3>3, <3>4, <3>5 DEF InItsTurn
  <2>4. ASSUME moved = Ended PROVE InItsTurn(r)' /\ AllIdle'
    BY <1>1, <1>2, <2>1, <2>4 DEF InItsTurn, AllIdle
  <2> QED BY <1>4, <2>2, <2>3, <2>4
<1> QED BY <1>3, <1>4 DEF ToolsInv

(* While a run is busy and alone nothing is shown.                         *)
LEMMA NothingShown ==
  ASSUME ToolsInv, NEW r \in Runs, runs[r].pc # "idle", ~overlapped
  PROVE  shown = NoAnswer
BY DEF ToolsInv, AllIdle

LEMMA NoAnswerIsFine == ASSUME shown = NoAnswer PROVE AnswersAreOfTheirTurn
BY NoAnswerIsPayload DEF AnswersAreOfTheirTurn

LEMMA StillNothingShown ==
  ASSUME ToolsInv, NEW r \in Runs, runs[r].pc # "idle", UNCHANGED <<overlapped, shown>>
  PROVE  AnswersAreOfTheirTurn' /\ shown' \in Payload /\ ~(~overlapped /\ shown' # NoAnswer)
<1>1. CASE overlapped
  BY <1>1 DEF ToolsInv, AnswersAreOfTheirTurn
<1>2. CASE ~overlapped
  <2>1. shown' = NoAnswer
    BY <1>2, NothingShown
  <2> QED BY <2>1, NoAnswerIsPayload DEF AnswersAreOfTheirTurn
<1> QED BY <1>1, <1>2 DEF ToolsInv

LEMMA AskToolsKeeps == ASSUME ToolsInv, NEW r \in Runs, AskTools(r) PROVE ToolsInv'
<1> DEFINE asked == [Ended EXCEPT !.pc = "read", !.question = Len(rows) + 1]
<1>1. /\ runs[r].pc = "idle" /\ Save(UserRow) /\ runs' = [runs EXCEPT ![r] = asked]
      /\ overlapped' = (overlapped \/ \E x \in Runs : runs[x].pc # "idle")
      /\ SavedWith(NoOutput) /\ shown' = NoAnswer
  BY DEF AskTools, Ask
<1>2. HistoryInv'
  BY AskKeeps DEF AskTools, ToolsInv
<1>3. /\ OutputsSaved' /\ Len(rows') = Len(rows) + 1 /\ Len(rows) \in Nat
      /\ rows'[Len(rows) + 1] = UserRow
  BY <1>1, RowsAreRows, NothingReturned, SavedTogether DEF ToolsInv, HistoryInv
<1>4. asked.pc = "read" /\ asked.question = Len(rows) + 1 /\ asked.to = 0
  BY DEF Ended
<1> HIDE DEF asked
<1>5. /\ runs'[r] = asked
      /\ \A x \in Runs : x # r => runs'[x] = runs[x]
  BY <1>1 DEF ToolsInv, HistoryInv, RunsSaved
<1>6. RunsInRows'
  <2>1. ASSUME NEW x \in Runs, x # r PROVE runs'[x].question \in 0..Len(rows') /\ runs'[x].to \in 0..Len(rows')
    BY <1>3, <1>5, <2>1 DEF ToolsInv, RunsInRows
  <2> QED BY <1>3, <1>4, <1>5, <2>1 DEF RunsInRows
<1>7. ASSUME ~overlapped', NEW x \in Runs PROVE InItsTurn(x)'
  <2>1. CASE x # r
    BY <1>1, <1>5, <1>7, <2>1 DEF InItsTurn
  <2>2. CASE x = r
    BY <1>3, <1>4, <1>5, <2>2, RowsAreRows DEF InItsTurn, User
  <2> QED BY <2>1, <2>2
<1>8. AnswersAreOfTheirTurn' /\ shown' \in Payload
  BY <1>1, NoAnswerIsPayload DEF AnswersAreOfTheirTurn
<1> QED BY <1>1, <1>2, <1>3, <1>6, <1>7, <1>8 DEF ToolsInv

LEMMA ConverseKeeps == ASSUME ToolsInv, NEW r \in Runs, Converse(r) PROVE ToolsInv'
<1>1. SavedWith(NoOutput) /\ shown' = shown /\ (ReadHistory(r) \/ Fail(r) \/ \E n \in 0..MaxCalls : CallTools(r, n))
  BY DEF Converse
<1>2. RowsSaved /\ OutputsSaved /\ HistoryInv /\ Len(rows) \in Nat
  BY DEF ToolsInv, HistoryInv, RowsSaved
<1>3. HistoryInv' /\ runs[r].pc # "idle" /\ overlapped' = overlapped
  BY <1>1, <1>2, ReadKeeps, CallKeeps, EndKeeps DEF ReadHistory, Fail, CallTools, Accepted
<1>4. AnswersAreOfTheirTurn' /\ shown' \in Payload /\ ~(~overlapped /\ shown' # NoAnswer)
  BY <1>1, <1>3, StillNothingShown
<1>5. ASSUME rows' = rows
      PROVE  /\ OutputsSaved' /\ Len(rows') = Len(rows) /\ Len(rows) <= Len(rows')
             /\ \A i \in 1..Len(rows) : rows'[i] = rows[i]
             /\ \A i \in 1..Len(rows') : i \in 1..Len(rows) \/ rows'[i].role # "user"
  BY <1>1, <1>2, <1>5, NothingSaved
<1>6. CASE Fail(r)
  <2>1. Ended \in Run /\ Ended.to = 0
    BY EndedIsRun DEF Ended
  <2>2. runs' = [runs EXCEPT ![r] = Ended] /\ rows' = rows
    BY <1>6 DEF Fail
  <2>3. Ended.to \in 0..Len(rows') /\ Len(rows') \in Nat
    BY <1>2, <2>1, <2>2
  <2> QED BY <1>2, <1>3, <1>4, <1>5, <2>1, <2>2, <2>3, BusyMoves
<1>7. CASE ReadHistory(r)
  <2> DEFINE moved == [runs[r] EXCEPT !.pc = "llm", !.from = Sanitized(WindowStart), !.to = Len(rows)]
  <2>1. Sanitized(WindowStart) \in Nat
    BY <1>2, SanitizedIsNat
  <2>2. /\ moved \in Run /\ moved.to = Len(rows) /\ moved.question = runs[r].question
    BY <1>2, <2>1, RunFields DEF Run
  <2>3. runs' = [runs EXCEPT ![r] = moved] /\ rows' = rows
    <3>1. runs \in [Runs -> Run]
      BY <1>2 DEF HistoryInv, RunsSaved
    <3> QED BY <1>7, <3>1 DEF ReadHistory
  <2> HIDE DEF moved
  <2>4. moved.to \in 0..Len(rows') /\ Len(rows') \in Nat /\ moved.to = Len(rows')
    BY <1>2, <2>2, <2>3
  <2> QED BY <1>2, <1>3, <1>4, <1>5, <2>2, <2>3, <2>4, BusyMoves
<1>8. ASSUME NEW n \in 0..MaxCalls, CallTools(r, n) PROVE ToolsInv'
  <2> DEFINE ids == Cardinality(Claimed(1)) + 1..Cardinality(Claimed(1)) + n
             moved == [runs[r] EXCEPT !.pc = IF n = 0 THEN "read" ELSE "tools", !.pending = ids]
  <2>1. runs' = [runs EXCEPT ![r] = moved] /\ Save(AssistantRow(ids)) /\ runs[r].pc = "llm"
    <3>1. runs \in [Runs -> Run]
      BY <1>2 DEF HistoryInv, RunsSaved
    <3> QED BY <1>8, <3>1 DEF CallTools, Accepted
  <2>2. ids \in SUBSET Nat
    <3>1. PICK m \in Nat : Claimed(1) = 1..m
      BY <1>2 DEF HistoryInv, CallsNumbered
    <3>2. Cardinality(Claimed(1)) = m
      BY <3>1, FS_Interval
    <3> QED BY <3>2, HistoryAssumption
  <2>3. AssistantRow(ids) \in Row /\ AssistantRow(ids).role = "assistant"
    BY <2>2, RowsAreRows
  <2>4. /\ moved \in Run /\ moved.to = runs[r].to /\ moved.question = runs[r].question /\ moved.pc # "llm"
    BY <1>2, <2>2, RunFields DEF Run
  <2> HIDE DEF ids, moved
  <2>5. /\ OutputsSaved' /\ Len(rows') = Len(rows) + 1
        /\ \A i \in 1..Len(rows) : rows'[i] = rows[i]
        /\ rows'[Len(rows) + 1] = AssistantRow(ids)
    BY <1>1, <1>2, <2>1, <2>3, NothingReturned, SavedTogether
  <2>6. \A i \in 1..Len(rows') : i \in 1..Len(rows) \/ rows'[i].role # "user"
    BY <1>2, <2>3, <2>5
  <2>7. moved.to \in 0..Len(rows') /\ Len(rows') \in Nat /\ Len(rows) <= Len(rows')
    BY <1>2, <2>4, <2>5 DEF ToolsInv, RunsInRows
  <2> QED BY <1>2, <1>3, <1>4, <2>1, <2>4, <2>5, <2>6, <2>7, BusyMoves
<1> QED BY <1>1, <1>6, <1>7, <1>8

LEMMA ExecuteSavedKeeps ==
  ASSUME ToolsInv, NEW r \in Runs, ExecuteTool(r), NEW output, Returned(output), SavedWith(output), UNCHANGED shown
  PROVE  ToolsInv'
<1> DEFINE id == Min(runs[r].pending)
           rest == runs[r].pending \ {id}
           moved == [runs[r] EXCEPT !.pending = rest, !.pc = IF rest = {} THEN "read" ELSE "tools"]
<1>1. /\ runs[r].pc = "tools" /\ Save(ToolRow(id)) /\ UNCHANGED overlapped
      /\ runs' = [runs EXCEPT ![r] = moved]
  <2>1. runs \in [Runs -> Run]
    BY DEF ToolsInv, HistoryInv, RunsSaved
  <2> QED BY <2>1 DEF ExecuteTool
<1>2. RowsSaved /\ OutputsSaved /\ HistoryInv /\ Len(rows) \in Nat /\ HistoryInv'
  BY ExecuteKeeps DEF ToolsInv, HistoryInv, RowsSaved
<1>3. id \in Nat
  BY <1>1, <1>2, RunFields, MinIn
<1>4. ToolRow(id) \in Row /\ ToolRow(id).role = "tool"
  BY <1>3, RowsAreRows
<1>5. rest \in SUBSET Nat
  BY <1>2, RunFields
<1>6. /\ moved \in Run /\ moved.to = runs[r].to /\ moved.question = runs[r].question /\ moved.pc # "llm"
  BY <1>2, <1>5, RunFields DEF Run
<1> HIDE DEF id, rest, moved
<1>7. /\ OutputsSaved' /\ Len(rows') = Len(rows) + 1
      /\ \A i \in 1..Len(rows) : rows'[i] = rows[i]
      /\ rows'[Len(rows) + 1] = ToolRow(id)
  BY <1>1, <1>2, <1>4, SavedTogether
<1>8. \A i \in 1..Len(rows') : i \in 1..Len(rows) \/ rows'[i].role # "user"
  BY <1>2, <1>4, <1>7
<1>9. moved.to \in 0..Len(rows') /\ Len(rows') \in Nat /\ Len(rows) <= Len(rows')
  BY <1>2, <1>6, <1>7 DEF ToolsInv, RunsInRows
<1>10. AnswersAreOfTheirTurn' /\ shown' \in Payload /\ ~(~overlapped /\ shown' # NoAnswer)
  BY <1>1, StillNothingShown
<1> QED BY <1>1, <1>2, <1>6, <1>7, <1>8, <1>9, <1>10, BusyMoves

LEMMA ExecuteToolsKeeps == ASSUME ToolsInv, NEW r \in Runs, Execute(r) PROVE ToolsInv'
<1>1. ExecuteTool(r) /\ shown' = shown /\ \E output \in ToolOutputs : SavedWith(output)
  BY DEF Execute
<1> QED BY <1>1, ToolsReturn, ExecuteSavedKeeps

(* Max of a set of numbers up to n is its greatest.                        *)
LEMMA MaxIn ==
  ASSUME NEW n \in Nat, NEW S \in SUBSET (0..n), S # {}
  PROVE  Max(S) \in S /\ \A y \in S : y <= Max(S)
<1> DEFINE D == {n - y : y \in S}
<1>1. D \in SUBSET Nat /\ D # {}
  <2>1. \A y \in S : n - y \in Nat
    OBVIOUS
  <2>2. PICK y : y \in S
    OBVIOUS
  <2>3. n - y \in D
    BY <2>2
  <2> QED BY <2>1, <2>3
<1>2. PICK d \in D : \A e \in D : d <= e
  <2> HIDE DEF D
  <2> QED BY <1>1, LeastOf
<1>3. PICK x \in S : d = n - x
  BY <1>2
<1>4. ASSUME NEW y \in S PROVE y <= x
  <2>1. n - y \in D
    OBVIOUS
  <2>2. n - x <= n - y
    BY <1>2, <1>3, <2>1
  <2> QED BY <2>2
<1>5. \E m \in S : \A y \in S : m >= y
  BY <1>4
<1>6. Max(S) \in S /\ \A y \in S : Max(S) >= y
  BY <1>5, Zenon DEF Max
<1> QED BY <1>6

LEMMA MaxIsOf ==
  ASSUME NEW n \in Nat, NEW S \in SUBSET (0..n), NEW m \in S, \A y \in S : y <= m
  PROVE  Max(S) = m
<1>1. Max(S) \in S /\ \A y \in S : y <= Max(S)
  BY MaxIn
<1>2. PICK k \in S : k = Max(S) /\ \A y \in S : y <= k
  BY <1>1, Zenon
<1>3. m <= k /\ k <= m /\ m \in Nat /\ k \in Nat
  BY <1>2
<1> QED BY <1>2, <1>3

LEMMA FirstReadIs ==
  ASSUME NEW r \in Runs, NEW to \in Nat, runs[r].to = to
  PROVE  FirstRead(r) \in Nat \ {0} /\ \A i \in 1..to : i > to - Window <=> i >= FirstRead(r)
<1> DEFINE x == to - Window + 1
<1>1. Window \in Nat \ {0} /\ x \in Int
  BY HistoryAssumption
<1>2. \E m \in {1, x} : \A y \in {1, x} : m >= y
  BY <1>1
<1>0. FirstRead(r) = Max({1, runs[r].to - Window + 1})
  BY DEF FirstRead
<1>4. FirstRead(r) = Max({1, x})
  <2>1. runs[r].to - Window + 1 = x
    OBVIOUS
  <2> HIDE DEF x
  <2> QED BY <1>0, <2>1
<1> HIDE DEF x
<1>3. Max({1, x}) \in {1, x} /\ \A y \in {1, x} : Max({1, x}) >= y
  BY <1>2, Zenon DEF Max
<1>5. FirstRead(r) >= 1 /\ FirstRead(r) >= x /\ FirstRead(r) \in {1, x}
  BY <1>3, <1>4
<1> QED BY <1>1, <1>5 DEF x

ResultsOf(first, to) == {i \in CurrentTurn(first, to) : Tool(i)}
TypedOf(S) == {i \in Latest(RecentOutputs, S) : outputs[i].tool \in DOMAIN View}

(* The outputs of the tools since the question, inside the window.         *)
SpokenOf(q, to) == {i \in q + 1..to : i > to - Window /\ Tool(i)}

LEMMA ResultsInTurn ==
  ASSUME NEW to \in Nat, NEW first \in Nat \ {0}
  PROVE  ResultsOf(first, to) \subseteq 1..to /\ TypedOf(ResultsOf(first, to)) \subseteq 1..to
<1> DEFINE asked == {i \in first..to : User(i)}
<1>1. CurrentTurn(first, to) \subseteq 1..to
  <2>1. CASE asked = {}
    BY <2>1 DEF CurrentTurn
  <2>2. CASE asked # {}
    <3>1. asked \in SUBSET (0..to)
      OBVIOUS
    <3>2. CurrentTurn(first, to) = Max(asked) + 1..to
      BY <2>2 DEF CurrentTurn
    <3> HIDE DEF asked
    <3>3. Max(asked) \in asked
      BY <2>2, <3>1, MaxIn, Zenon
    <3>4. PICK m \in asked : m = Max(asked)
      BY <3>3, Zenon
    <3>5. CurrentTurn(first, to) = m + 1..to
      BY <3>2, <3>4, Zenon
    <3>6. m \in Nat
      BY <3>1
    <3> QED BY <3>5, <3>6
  <2> QED BY <2>1, <2>2
<1>2. ResultsOf(first, to) \subseteq 1..to
  BY <1>1 DEF ResultsOf
<1> QED BY <1>2 DEF TypedOf, Latest

(* The message of the user that was read last is the question, if it is    *)
(* in the window.                                                          *)
LEMMA TurnIsSpoken ==
  ASSUME NEW to \in Nat, NEW q \in 1..to, NEW first \in Nat \ {0},
         \A i \in 1..to : i > to - Window <=> i >= first,
         User(q), \A i \in q + 1..to : ~User(i)
  PROVE  ResultsOf(first, to) = SpokenOf(q, to)
<1> DEFINE asked == {i \in first..to : User(i)}
<1>1. CASE q >= first
  <2>1. asked \in SUBSET (0..to) /\ q \in asked
    BY <1>1
  <2>2. ASSUME NEW y \in asked PROVE y <= q
    <3>1. y \in first..to /\ User(y)
      OBVIOUS
    <3>2. y \notin q + 1..to
      BY <3>1
    <3> QED BY <3>1, <3>2
  <2>3. asked # {} => CurrentTurn(first, to) = Max(asked) + 1..to
    BY DEF CurrentTurn
  <2> HIDE DEF asked
  <2>4. Max(asked) = q
    BY <2>1, <2>2, MaxIsOf
  <2>5. CurrentTurn(first, to) = q + 1..to
    BY <2>1, <2>3, <2>4
  <2>6. \A i \in q + 1..to : i > to - Window
    BY <1>1
  <2> QED BY <2>5, <2>6 DEF ResultsOf, SpokenOf
<1>2. CASE ~(q >= first)
  <2>1. asked = {}
    BY <1>2
  <2>2. CurrentTurn(first, to) = first..to
    BY <2>1 DEF CurrentTurn
  <2>3. \A i : i \in first..to <=> i \in q + 1..to /\ i > to - Window
    BY <1>2
  <2> QED BY <2>2, <2>3 DEF ResultsOf, SpokenOf
<1> QED BY <1>1, <1>2

LEMMA InferredIs ==
  ASSUME NEW to \in Nat, NEW first \in Nat \ {0}, NEW T, T = TypedOf(ResultsOf(first, to))
  PROVE  /\ InferredFrom(first, to) \in T \cup {0} /\ InferredFrom(first, to) \in Nat
         /\ InferredFrom(first, to) # 0 => InferredFrom(first, to) = Max(T \cup {0})
         /\ to > 0 /\ Tool(to) /\ InferredFrom(first, to) = 0 => T = {}
<1>1. T \cup {0} \in SUBSET (0..to) /\ T \subseteq 1..to
  BY ResultsInTurn
<1>2. Max(T \cup {0}) \in T \cup {0} /\ \A y \in T \cup {0} : y <= Max(T \cup {0})
  BY <1>1, MaxIn
<1>3. InferredFrom(first, to) = IF to > 0 /\ Tool(to) THEN Max(T \cup {0}) ELSE 0
  BY DEF InferredFrom, TypedOf, ResultsOf
<1> QED BY <1>1, <1>2, <1>3

(* The property, of what was spoken.                                       *)
AnswersFine ==
  ~overlapped /\ shown.type \notin {"none", "structured"} =>
    LET typed == TypedOf(SpokenOf(shown.question, shown.read)) IN
    /\ shown.at # 0 =>
         /\ shown.at = Max(typed \cup {0})
         /\ shown.type = "trade_intent" => shown.token = outputs[shown.at].token
         /\ shown.type = "slippage_action" => shown.bps \in 1..HighestSlippage
         /\ shown.type = "slippage_action" /\ outputs[shown.at].ok =>
              shown.bps = outputs[shown.at].bps
    /\ shown.at = 0 /\ Len(rows) > shown.read /\ shown.read > 0 /\ Tool(shown.read) =>
         typed = {}

LEMMA FineIsProperty == AnswersFine <=> AnswersAreOfTheirTurn
BY DEF AnswersFine, AnswersAreOfTheirTurn, TypedOf, SpokenOf

(* What an answer may be, given the row it could be inferred from.         *)
AnswerFrom(a, q, to, n) ==
  /\ a.question = q /\ a.read = to /\ a.at \in {0, n}
  /\ a.at = 0 => a.type \in {"text", "structured"} /\ a.token = NoToken /\ a.bps = 0 /\ a.sells = FALSE
  /\ a.at # 0 =>
       /\ a.type = View[outputs[n].tool] /\ a.token = outputs[n].token /\ a.sells = outputs[n].sells
       /\ a.bps = IF outputs[n].tool = "set_slippage" /\ ~outputs[n].ok THEN DefaultSlippage ELSE outputs[n].bps
  /\ a = [question |-> a.question, read |-> a.read, type |-> a.type, at |-> a.at,
          token |-> a.token, bps |-> a.bps, sells |-> a.sells]

LEMMA TextFields ==
  ASSUME NEW r \in Runs, NEW q, NEW to, q = runs[r].question, to = runs[r].to
  PROVE  Text(r) = [question |-> q, read |-> to, type |-> "text", at |-> 0, token |-> NoToken, bps |-> 0, sells |-> FALSE]
<1>1. PICK none : none = NoToken
  OBVIOUS
<1>2. NoAnswer = [question |-> 0, read |-> 0, type |-> "none", at |-> 0, token |-> none, bps |-> 0, sells |-> FALSE]
  BY <1>1 DEF NoAnswer
<1>3. Text(r) = [NoAnswer EXCEPT !.question = q, !.read = to, !.type = "text"]
  BY DEF Text
<1> QED BY <1>1, <1>2, <1>3

LEMMA TextIs ==
  ASSUME NEW r \in Runs, NEW q, NEW to, q = runs[r].question, to = runs[r].to, NEW n, NEW type \in {"text", "structured"}
  PROVE  AnswerFrom([Text(r) EXCEPT !.type = type], q, to, n)
<1>1. PICK a : a = [question |-> q, read |-> to, type |-> type, at |-> 0, token |-> NoToken, bps |-> 0, sells |-> FALSE]
  OBVIOUS
<1>2. [Text(r) EXCEPT !.type = type] = a
  <2>1. PICK t : t = Text(r)
    OBVIOUS
  <2>2. PICK none, no : /\ none = NoToken /\ no = FALSE
                        /\ t = [question |-> q, read |-> to, type |-> "text", at |-> 0, token |-> none, bps |-> 0, sells |-> no]
    BY <2>1, TextFields, Zenon
  <2>3. PICK u : u = [t EXCEPT !.type = type]
    OBVIOUS
  <2>4. u = [question |-> q, read |-> to, type |-> type, at |-> 0, token |-> none, bps |-> 0, sells |-> no]
    BY <2>2, <2>3
  <2>5. u = a
    BY <1>1, <2>2, <2>4, Zenon
  <2> QED BY <2>1, <2>3, <2>5, Zenon
<1>3. AnswerFrom(a, q, to, n)
  BY <1>1 DEF AnswerFrom
<1> QED BY <1>2, <1>3

LEMMA ShownIs ==
  ASSUME NEW r \in Runs, NEW q, NEW to, q = runs[r].question, to = runs[r].to, NEW n \in Nat, n # 0
  PROVE  AnswerFrom(Shown(r, n), q, to, n) /\ Shown(r, n).at = n
<1>1. PICK type, token, sells, bps :
        /\ type = View[outputs[n].tool] /\ token = outputs[n].token /\ sells = outputs[n].sells
        /\ bps = IF outputs[n].tool = "set_slippage" /\ ~outputs[n].ok THEN DefaultSlippage ELSE outputs[n].bps
  BY Zenon
<1>2. PICK a : a = [question |-> q, read |-> to, type |-> type, at |-> n, token |-> token, bps |-> bps, sells |-> sells]
  OBVIOUS
<1>3. Text(r) = [question |-> q, read |-> to, type |-> "text", at |-> 0, token |-> NoToken, bps |-> 0, sells |-> FALSE]
  BY TextFields
<1>4. Shown(r, n) = [Text(r) EXCEPT !.type = type, !.at = n, !.token = token, !.sells = sells, !.bps = bps]
  BY <1>1, Zenon DEF Shown
<1>5. Shown(r, n) = a
  <2>1. PICK t : t = Text(r)
    OBVIOUS
  <2>2. PICK none, no : /\ none = NoToken /\ no = FALSE
                        /\ t = [question |-> q, read |-> to, type |-> "text", at |-> 0, token |-> none, bps |-> 0, sells |-> no]
    BY <1>3, <2>1, Zenon
  <2>3. PICK u : u = [t EXCEPT !.type = type, !.at = n, !.token = token, !.sells = sells, !.bps = bps]
    OBVIOUS
  <2>4. u = [question |-> q, read |-> to, type |-> type, at |-> n, token |-> token, bps |-> bps, sells |-> sells]
    <3>1. PICK none2, no2 : t = [question |-> q, read |-> to, type |-> "text", at |-> 0, token |-> none2, bps |-> 0, sells |-> no2]
      BY <2>2, Zenon
    <3> QED BY <3>1, <2>3
  <2>5. u = a
    BY <1>2, <2>4
  <2> QED BY <1>4, <2>1, <2>3, <2>5, Zenon
<1>6. AnswerFrom(a, q, to, n) /\ a.at = n
  BY <1>1, <1>2 DEF AnswerFrom
<1> QED BY <1>5, <1>6, Zenon

LEMMA ParsedIs ==
  ASSUME NEW r \in Runs, NEW q, NEW to, q = runs[r].question, to = runs[r].to,
         NEW n \in Nat, n = InferredFrom(FirstRead(r), to), NEW structured \in BOOLEAN
  PROVE  LET a == ParseResponse(r, structured) IN
         AnswerFrom(a, q, to, n) /\ (a.at = 0 /\ a.type = "text" => n = 0)
<1>1. CASE structured
  <2>1. ParseResponse(r, structured) = [Text(r) EXCEPT !.type = "structured"]
    BY <1>1 DEF ParseResponse
  <2>2. [Text(r) EXCEPT !.type = "structured"].type = "structured"
    BY DEF Text, NoAnswer
  <2>3. AnswerFrom([Text(r) EXCEPT !.type = "structured"], q, to, n)
    BY TextIs
  <2> QED BY <2>1, <2>2, <2>3, Zenon
<1>2. CASE ~structured /\ n > 0
  <2>1. ParseResponse(r, structured) = Shown(r, n)
    BY <1>2 DEF ParseResponse
  <2>2. AnswerFrom(Shown(r, n), q, to, n) /\ Shown(r, n).at = n /\ n # 0
    BY <1>2, ShownIs
  <2> QED BY <2>1, <2>2, Zenon
<1>3. CASE ~structured /\ ~(n > 0)
  <2>1. ParseResponse(r, structured) = Text(r)
    BY <1>3 DEF ParseResponse
  <2>2. Text(r) = [Text(r) EXCEPT !.type = "text"]
    BY DEF Text, NoAnswer
  <2>3. AnswerFrom([Text(r) EXCEPT !.type = "text"], q, to, n)
    BY TextIs
  <2>4. n = 0
    BY <1>3
  <2> QED BY <2>1, <2>2, <2>3, <2>4, Zenon
<1> QED BY <1>1, <1>2, <1>3

LEMMA SlippageView == \A tool \in DOMAIN View : View[tool] = "slippage_action" => tool = "set_slippage"
BY DEF View

LEMMA RespondKeeps == ASSUME ToolsInv, NEW r \in Runs, Respond(r) PROVE ToolsInv'
<1>1. /\ runs[r].pc = "llm" /\ (Save(AssistantRow({})) \/ UNCHANGED rows)
      /\ runs' = [runs EXCEPT ![r] = Ended] /\ UNCHANGED overlapped /\ SavedWith(NoOutput)
  BY DEF Respond, Answer, Accepted
<1>2. RowsSaved /\ OutputsSaved /\ HistoryInv /\ Len(rows) \in Nat /\ Len(rows) <= MaxRows /\ MaxRows \in Nat
  BY HistoryAssumption DEF ToolsInv, HistoryInv, RowsSaved
<1>3. HistoryInv'
  BY <1>1, <1>2, EndKeeps
<1>4. AssistantRow({}) \in Row /\ AssistantRow({}).role = "assistant"
  BY RowsAreRows
<1>5. /\ OutputsSaved' /\ Len(rows') \in Nat /\ Len(rows) <= Len(rows') /\ (rows' = rows \/ Len(rows') = Len(rows) + 1)
      /\ \A i \in 1..Len(rows) : rows'[i] = rows[i] /\ outputs'[i] = outputs[i]
      /\ \A i \in 1..Len(rows') : i \in 1..Len(rows) \/ rows'[i].role # "user"
  <2>1. CASE rows' = rows
    BY <1>1, <1>2, <2>1, NothingSaved
  <2>2. CASE Save(AssistantRow({}))
    <3>1. /\ OutputsSaved' /\ Len(rows') = Len(rows) + 1
          /\ \A i \in 1..Len(rows) : rows'[i] = rows[i] /\ outputs'[i] = outputs[i]
          /\ rows'[Len(rows) + 1] = AssistantRow({})
      BY <1>1, <1>2, <1>4, <2>2, NothingReturned, SavedTogether
    <3>2. \A i \in 1..Len(rows') : i \in 1..Len(rows) \/ i = Len(rows) + 1
      BY <1>2, <3>1
    <3> QED BY <1>2, <1>4, <3>1, <3>2
  <2> QED BY <1>1, <2>1, <2>2
<1>6. PICK q \in 0..Len(rows), to \in 0..Len(rows) : q = runs[r].question /\ to = runs[r].to
  BY DEF ToolsInv, RunsInRows
<1>7. PICK first \in Nat \ {0} : first = FirstRead(r) /\ \A i \in 1..to : i > to - Window <=> i >= first
  <2>1. FirstRead(r) \in Nat \ {0} /\ \A i \in 1..to : i > to - Window <=> i >= FirstRead(r)
    BY <1>6, FirstReadIs
  <2> QED BY <2>1
<1>8. PICK T : T = TypedOf(ResultsOf(first, to))
  OBVIOUS
<1>9. PICK n : n = InferredFrom(FirstRead(r), to)
  OBVIOUS
<1>10. /\ n \in T \cup {0} /\ n \in Nat /\ T \subseteq 1..to /\ (n # 0 => n = Max(T \cup {0}))
       /\ to > 0 /\ Tool(to) /\ n = 0 => T = {}
  <2>1. to \in Nat /\ n = InferredFrom(first, to)
    BY <1>6, <1>7, <1>9
  <2>2. T \subseteq 1..to
    BY <1>8, <2>1, ResultsInTurn
  <2>3. /\ n \in T \cup {0} /\ n \in Nat /\ (n # 0 => n = Max(T \cup {0}))
        /\ to > 0 /\ Tool(to) /\ n = 0 => T = {}
    BY <1>8, <2>1, InferredIs, Zenon
  <2> QED BY <2>2, <2>3
<1>11. PICK a : a = shown'
  OBVIOUS
<1>12. /\ AnswerFrom(a, q, to, n)
       /\ rows' = rows => a.type = "text" /\ a.at = 0
       /\ rows' # rows /\ a.at = 0 /\ a.type = "text" => n = 0
  <2>1. CASE rows' = rows
    <3>1. a = Text(r)
      BY <1>11, <2>1 DEF Respond
    <3>2. Text(r) = [Text(r) EXCEPT !.type = "text"] /\ Text(r).type = "text" /\ Text(r).at = 0
      BY DEF Text, NoAnswer
    <3>3. AnswerFrom([Text(r) EXCEPT !.type = "text"], q, to, n)
      BY <1>6, TextIs
    <3> QED BY <2>1, <3>1, <3>2, <3>3, Zenon
  <2>2. CASE rows' # rows
    <3>1. PICK structured \in BOOLEAN : a = ParseResponse(r, structured)
      BY <1>11, <2>2 DEF Respond
    <3>2. AnswerFrom(a, q, to, n) /\ (a.at = 0 /\ a.type = "text" => n = 0)
      BY <1>6, <1>9, <1>10, <3>1, ParsedIs
    <3> QED BY <2>2, <3>2
  <2> QED BY <2>1, <2>2
<1>13. n # 0 => n \in 1..Len(rows) /\ outputs[n].tool \in DOMAIN View
  BY <1>6, <1>8, <1>10 DEF TypedOf
<1>14. a \in Payload
  <2>1. q \in 0..MaxRows /\ to \in 0..MaxRows /\ n \in 0..MaxRows /\ 0 \in 0..MaxRows
    BY <1>2, <1>6, <1>13, <1>10
  <2>2. DefaultSlippage \in 0..HighestSlippage /\ 0 \in 0..HighestSlippage
    BY ToolsAssumption
  <2>3. CASE a.at = 0
    BY <1>12, <2>1, <2>2, <2>3 DEF AnswerFrom, Payload
  <2>4. CASE a.at # 0
    <3>1. n \in 1..Len(rows) /\ outputs[n].tool \in DOMAIN View
      BY <1>12, <1>13, <2>4 DEF AnswerFrom
    <3>2. outputs[n].token \in Tokens \cup {NoToken} /\ outputs[n].bps \in 0..HighestSlippage /\ outputs[n].sells \in BOOLEAN
      <4>1. outputs[n] \in Output
        BY <1>2, <3>1 DEF OutputsSaved
      <4> QED BY <4>1 DEF Output
    <3> QED BY <1>12, <2>1, <2>2, <2>4, <3>1, <3>2 DEF AnswerFrom, Payload
  <2> QED BY <2>3, <2>4
<1>15. AnswersFine'
  <2>1. SUFFICES ASSUME ~overlapped, a.type # "structured" PROVE AnswersFine'
    BY <1>1, <1>11 DEF AnswersFine
  <2>2. q \in 1..to /\ User(q) /\ (\A i \in q + 1..to : ~User(i)) /\ to = Len(rows)
    <3>1. InItsTurn(r)
      BY <2>1 DEF ToolsInv
    <3>2. /\ q # 0 /\ User(q) /\ (\A i \in q + 1..Len(rows) : ~User(i)) /\ to = Len(rows)
      BY <1>1, <1>6, <3>1 DEF InItsTurn
    <3> QED BY <1>6, <3>2
  <2>3. T = TypedOf(SpokenOf(q, to))
    <3>1. ResultsOf(first, to) = SpokenOf(q, to)
      BY <1>6, <1>7, <2>2, TurnIsSpoken, SMTT(30)
    <3> QED BY <1>8, <3>1, Zenon
  <2>4. SpokenOf(q, to)' = SpokenOf(q, to) /\ SpokenOf(q, to) \subseteq 1..to
    <3>1. \A i \in q + 1..to : Tool(i)' = Tool(i)
      BY <1>5, <1>6, <2>2 DEF Tool
    <3> QED BY <2>2, <3>1 DEF SpokenOf
  <2>5. \A S \in SUBSET (1..to) : TypedOf(S)' = TypedOf(S)
    <3>1. TAKE S \in SUBSET (1..to)
    <3>2. PICK L : L = Latest(RecentOutputs, S)
      OBVIOUS
    <3>3. \A i \in L : outputs'[i] = outputs[i]
      <4>1. L \subseteq S
        BY <3>2 DEF Latest
      <4>2. \A i \in 1..to : i \in 1..Len(rows)
        BY <1>6
      <4> QED BY <1>5, <4>1, <4>2
    <3> QED BY <3>2, <3>3 DEF TypedOf
  <2>6. TypedOf(SpokenOf(q, to))' = T
    <3>1. PICK S \in SUBSET (1..to) : S = SpokenOf(q, to) /\ S = SpokenOf(q, to)'
      BY <2>4
    <3>2. TypedOf(S)' = TypedOf(S)
      BY <2>5
    <3> QED BY <2>3, <3>1, <3>2 DEF TypedOf
  <2>7. a.question = q /\ a.read = to
    BY <1>12 DEF AnswerFrom
  <2>8. ASSUME a.at # 0
        PROVE  /\ a.at = Max(T \cup {0})
               /\ a.token = outputs'[a.at].token
               /\ a.type = "slippage_action" =>
                    a.bps \in 1..HighestSlippage /\ (outputs'[a.at].ok => a.bps = outputs'[a.at].bps)
    <3>1. /\ n \in 1..Len(rows) /\ outputs[n].tool \in DOMAIN View /\ a.at = n
          /\ a.type = View[outputs[n].tool] /\ a.token = outputs[n].token
          /\ a.bps = IF outputs[n].tool = "set_slippage" /\ ~outputs[n].ok THEN DefaultSlippage ELSE outputs[n].bps
      BY <1>12, <1>13, <2>8 DEF AnswerFrom
    <3>2. outputs'[n] = outputs[n]
      BY <1>5, <3>1
    <3>3. ASSUME a.type = "slippage_action"
          PROVE  a.bps \in 1..HighestSlippage /\ (outputs'[n].ok => a.bps = outputs'[n].bps)
      <4>1. outputs[n].tool = "set_slippage"
        BY <3>1, <3>3, SlippageView
      <4>2. outputs[n].bps \in 0..HighestSlippage /\ outputs[n].ok \in BOOLEAN
        <5>1. outputs[n] \in Output
          BY <1>2, <3>1 DEF OutputsSaved
        <5> QED BY <5>1 DEF Output
      <4>3. outputs[n].ok => outputs[n].bps # 0
        BY <1>2, <3>1, <4>1 DEF OutputsSaved
      <4>4. CASE outputs[n].ok
        BY <3>1, <3>2, <4>2, <4>3, <4>4
      <4>5. CASE ~outputs[n].ok
        BY <3>1, <3>2, <4>1, <4>5, ToolsAssumption
      <4> QED BY <4>4, <4>5
    <3> QED BY <1>10, <2>8, <3>1, <3>2, <3>3
  <2>9. ASSUME a.at = 0, Len(rows') > to, to > 0, Tool(to)' PROVE T = {}
    <3>1. rows' # rows
      BY <2>2, <2>9
    <3>2. a.type = "text"
      BY <1>12, <2>1, <2>9 DEF AnswerFrom
    <3>3. Tool(to)
      BY <1>5, <1>6, <2>9 DEF Tool
    <3> QED BY <1>10, <1>12, <2>9, <3>1, <3>2, <3>3
  <2>10. shown'.question = q /\ shown'.read = to /\ shown'.at = a.at /\ shown'.type = a.type
         /\ shown'.token = a.token /\ shown'.bps = a.bps
    BY <1>11, <2>7
  <2>11. TypedOf(SpokenOf(shown.question, shown.read))' = T
    BY <2>6, <2>10 DEF TypedOf, SpokenOf
  <2>12. /\ shown'.at # 0 =>
              /\ shown'.at = Max(T \cup {0})
              /\ shown'.type = "trade_intent" => shown'.token = outputs'[shown'.at].token
              /\ shown'.type = "slippage_action" => shown'.bps \in 1..HighestSlippage
              /\ shown'.type = "slippage_action" /\ outputs'[shown'.at].ok => shown'.bps = outputs'[shown'.at].bps
         /\ shown'.at = 0 /\ Len(rows') > shown'.read /\ shown'.read > 0 /\ Tool(shown.read)' => T = {}
    <3>1. Tool(shown.read)' = Tool(to)'
      BY <2>10 DEF Tool
    <3> QED BY <2>8, <2>9, <2>10, <3>1
  <2> QED BY <2>11, <2>12 DEF AnswersFine
<1>16. AnswersAreOfTheirTurn'
  BY <1>15, FineIsProperty, PTL
<1>17. Ended \in Run /\ Ended.to \in 0..Len(rows')
  BY <1>5, EndedIsRun DEF Ended
<1> QED BY <1>1, <1>2, <1>3, <1>5, <1>11, <1>14, <1>16, <1>17, BusyMoves

LEMMA NothingMoves ==
  ASSUME ToolsInv, UNCHANGED <<chatHistoryVars, chatToolsVars>>
  PROVE  ToolsInv'
<1>1. rows' = rows /\ runs' = runs /\ overlapped' = overlapped /\ outputs' = outputs /\ shown' = shown
  BY DEF chatHistoryVars, chatToolsVars
<1>2. HistoryInv'
  BY HistoryInvStep DEF ToolsInv
<1>3. RunsInRows' /\ OutputsSaved' /\ shown' \in Payload /\ AllIdle' = AllIdle
  BY <1>1 DEF ToolsInv, RunsInRows, OutputsSaved, AllIdle
<1>4. \A r \in Runs : InItsTurn(r) => InItsTurn(r)'
  BY <1>1 DEF InItsTurn, User
<1>5. AnswersAreOfTheirTurn'
  <2>1. AnswersAreOfTheirTurn
    BY DEF ToolsInv
  <2> QED BY <1>1, <2>1 DEF AnswersAreOfTheirTurn, Tool
<1> QED BY <1>1, <1>2, <1>3, <1>4, <1>5 DEF ToolsInv

LEMMA ToolsInvInit == ChatHistoryInit /\ ChatToolsInit => ToolsInv
<1> SUFFICES ASSUME ChatHistoryInit, ChatToolsInit PROVE ToolsInv
  OBVIOUS
<1>1. HistoryInv
  BY HistoryInvInit
<1>2. rows = <<>> /\ runs = [r \in Runs |-> Ended] /\ outputs = <<>> /\ shown = NoAnswer
  BY DEF ChatHistoryInit, ChatToolsInit
<1>3. \A r \in Runs : runs[r].pc = "idle" /\ runs[r].question = 0 /\ runs[r].to = 0
  BY <1>2 DEF Ended
<1>4. Len(rows) = 0 /\ outputs \in Seq(Output) /\ Len(outputs) = 0
  BY <1>2
<1>5. RunsInRows /\ OutputsSaved /\ \A r \in Runs : InItsTurn(r)
  BY <1>3, <1>4 DEF RunsInRows, OutputsSaved, InItsTurn
<1> QED BY <1>1, <1>2, <1>5, NoAnswerIsPayload, NoAnswerIsFine DEF ToolsInv

LEMMA ToolsInvStep == ToolsInv /\ ChatToolsStep => ToolsInv'
BY AskToolsKeeps, ConverseKeeps, ExecuteToolsKeeps, RespondKeeps DEF ChatToolsStep

(* The same history without a look at what the tools return: an answer     *)
(* shows nothing there.                                                    *)
LEMMA HistoryAlone ==
  ASSUME ToolsInv, shown = NoAnswer, ChatHistoryStep, SavedWith(NoOutput), UNCHANGED shown
  PROVE  ToolsInv'
<1>1. PICK r \in Runs : \/ Ask(r) \/ ReadHistory(r) \/ ExecuteTool(r) \/ Answer(r) \/ Fail(r)
                       \/ \E n \in 0..MaxCalls : CallTools(r, n)
  BY DEF ChatHistoryStep
<1>2. CASE Ask(r)
  BY <1>2, AskToolsKeeps DEF AskTools
<1>3. CASE ReadHistory(r) \/ Fail(r) \/ \E n \in 0..MaxCalls : CallTools(r, n)
  BY <1>3, ConverseKeeps DEF Converse
<1>4. CASE ExecuteTool(r)
  BY <1>4, NothingReturned, ExecuteSavedKeeps
<1>5. CASE Answer(r)
  <2>1. /\ runs[r].pc # "idle" /\ (Save(AssistantRow({})) \/ UNCHANGED rows)
        /\ runs' = [runs EXCEPT ![r] = Ended] /\ UNCHANGED overlapped
    BY <1>5 DEF Answer, Accepted
  <2>2. RowsSaved /\ OutputsSaved /\ HistoryInv /\ Len(rows) \in Nat /\ HistoryInv'
    <3>1. RowsSaved /\ OutputsSaved /\ HistoryInv /\ Len(rows) \in Nat
      BY DEF ToolsInv, HistoryInv, RowsSaved
    <3> QED BY <2>1, <3>1, EndKeeps
  <2>3. AssistantRow({}) \in Row /\ AssistantRow({}).role = "assistant"
    BY RowsAreRows
  <2>4. /\ OutputsSaved' /\ Len(rows') \in Nat /\ Len(rows) <= Len(rows')
        /\ \A i \in 1..Len(rows) : rows'[i] = rows[i]
        /\ \A i \in 1..Len(rows') : i \in 1..Len(rows) \/ rows'[i].role # "user"
    <3>1. CASE rows' = rows
      BY <2>2, <3>1, NothingSaved
    <3>2. CASE Save(AssistantRow({}))
      <4>1. /\ OutputsSaved' /\ Len(rows') = Len(rows) + 1
            /\ \A i \in 1..Len(rows) : rows'[i] = rows[i]
            /\ rows'[Len(rows) + 1] = AssistantRow({})
        BY <2>2, <2>3, <3>2, NothingReturned, SavedTogether
      <4>2. \A i \in 1..Len(rows') : i \in 1..Len(rows) \/ i = Len(rows) + 1
        BY <2>2, <4>1
      <4> QED BY <2>2, <2>3, <4>1, <4>2
    <3> QED BY <2>1, <3>1, <3>2
  <2>5. AnswersAreOfTheirTurn' /\ shown' \in Payload
    BY NoAnswerIsPayload DEF AnswersAreOfTheirTurn
  <2>6. Ended \in Run /\ Ended.to \in 0..Len(rows')
    BY <2>4, EndedIsRun DEF Ended
  <2> QED BY <2>1, <2>2, <2>4, <2>5, <2>6, BusyMoves
<1> QED BY <1>1, <1>2, <1>3, <1>4, <1>5

ChatToolsSpec ==
  ChatHistoryInit /\ ChatToolsInit /\ [][ChatToolsStep]_<<chatHistoryVars, chatToolsVars>>

(* An answer shows nothing of an earlier question unless executions        *)
(* overlapped: one that is inferred shows the newest output of its turn    *)
(* that can be shown, one that is not had nothing to show; for any number  *)
(* of executions, overlapping or not, any tools, window and outputs.       *)
THEOREM AnswersAreAlwaysOfTheirTurn == ChatToolsSpec => []AnswersAreOfTheirTurn
<1>1. ToolsInv /\ [ChatToolsStep]_<<chatHistoryVars, chatToolsVars>> => ToolsInv'
  BY ToolsInvStep, NothingMoves
<1>2. ToolsInv => AnswersAreOfTheirTurn
  BY DEF ToolsInv
<1> QED BY ToolsInvInit, <1>1, <1>2, PTL DEF ChatToolsSpec

(* The invariant of the three parts of the chat together.                  *)
ChatInv == ToolsInv /\ (focus = "history" => shown = NoAnswer)

(* The rows, the runs and the outputs of their tools have their types and  *)
(* fit together, and an answer shows what its own turn fetched, however    *)
(* the history is used.                                                    *)
THEOREM ChatInductive == ChatSpec => []ChatInv
<1>1. ChatInit => ChatInv
  BY ToolsInvInit DEF ChatInit, ChatInv, ChatToolsInit
<1>2. ChatInv /\ [ChatNext]_chatVars => ChatInv'
  <2> SUFFICES ASSUME ChatInv, [ChatNext]_chatVars PROVE ChatInv'
    OBVIOUS
  <2>1. ToolsInv /\ (focus = "history" => shown = NoAnswer)
    BY DEF ChatInv
  <2>2. CASE Quota \/ UNCHANGED chatVars
    <3>1. UNCHANGED <<chatHistoryVars, chatToolsVars>> /\ focus' = focus /\ shown' = shown
      BY <2>2 DEF Quota, chatVars, chatToolsVars
    <3> QED BY <2>1, <3>1, NothingMoves DEF ChatInv
  <2>3. CASE History
    <3>1. focus = "history" /\ focus' = focus /\ ChatHistoryStep /\ SavedWith(NoOutput) /\ shown' = shown
      BY <2>3 DEF History
    <3> QED BY <2>1, <3>1, HistoryAlone DEF ChatInv
  <2>4. CASE Tools
    <3>1. focus = "tools" /\ focus' = focus /\ ChatToolsStep
      BY <2>4 DEF Tools
    <3> QED BY <2>1, <3>1, ToolsInvStep DEF ChatInv
  <2> QED BY <2>2, <2>3, <2>4 DEF ChatNext
<1> QED BY <1>1, <1>2, PTL DEF ChatSpec

(* What is read of the history is what it should be: a request begins with *)
(* the first message of its window that is no tool's, and an answer that   *)
(* is inferred shows the newest output of its own turn that can be shown,  *)
(* unless executions overlapped; for any tools, mints, slippages, window,  *)
(* number of outputs looked at, rows and calls.                            *)
THEOREM HistoryIsAlwaysReadRight == ChatSpec => []HistoryIsReadRight
<1>1. ChatInv => HistoryIsReadRight
  <2> SUFFICES ASSUME ChatInv PROVE HistoryIsReadRight
    OBVIOUS
  <2>1. ToolsInv
    BY DEF ChatInv
  <2>2. ChatHistoryTypeOK
    BY <2>1 DEF ToolsInv, HistoryInv, RowsSaved, RunsSaved, ChatHistoryTypeOK
  <2>3. TrimsToFirstOpener
    BY <2>1, Zenon DEF ToolsInv, HistoryInv, Trimmed, TrimsToFirstOpener, Openers
  <2>4. ChatToolsTypeOK
    BY <2>1 DEF ToolsInv, OutputsSaved, Payload, ChatToolsTypeOK
  <2>5. AnswersAreOfTheirTurn
    BY <2>1 DEF ToolsInv
  <2> QED BY <2>2, <2>3, <2>4, <2>5 DEF HistoryIsReadRight
<1> QED BY <1>1, ChatInductive, PTL
===============================================================================
