------------------------------ MODULE ChatQuota ------------------------------
(***************************************************************************)
(* Sending a message to the AI chat.  A session may have one message in    *)
(* progress (an in-memory set), and a user needs quota: a number of free   *)
(* answers a day, then paid credits.  The quota is read before the LLM is  *)
(* called and consumed only after the LLM has answered, so a call may find *)
(* it gone by then.  Every `await` of sendMessage is a step boundary.      *)
(***************************************************************************)
EXTENDS Integers, FiniteSets

CONSTANTS
  Users,
  Sessions,
  Calls,       \* concurrent executions of sendMessage
  FreeLimit,   \* FREE_DAILY_QUOTA_LIMIT
  LastDay,     \* bound: the days are 0..LastDay
  MaxBalance,  \* bound: credits a user holds at once
  NoUser, NoSession

ASSUME QuotaAssumption ==
  /\ FreeLimit \in Nat \ {0}
  /\ LastDay \in Nat
  /\ MaxBalance \in Nat
  /\ NoUser \notin Users
  /\ NoSession \notin Sessions

VARIABLES
  usage,    \* table feature_usage: free answers per user and day; no row = 0
  balance,  \* table user_credits
  today,    \* the day in UTC+7
  active,   \* activeProcessingSessions
  calls     \* the executions of sendMessage and what each has read

vars == <<usage, balance, today, active, calls>>

Days     == 0..LastDay
Tables   == {"feature_usage", "user_credits"}
Pcs      == {"idle", "check", "admit", "prepare", "llm", "chargeFree", "chargePaid"}
Outcomes == {"none", "busy", "denied", "error", "failed", "free", "paid", "refused"}

(* day: the usage date computed last; seen, available: what getQuotaStatus *)
(* has read and whether that is enough.  History: answered, charges and    *)
(* overtaken, the user was charged by another call since this one began.   *)
Call ==
  [pc : Pcs, user : Users \cup {NoUser}, session : Sessions \cup {NoSession},
   day : Days, seen : SUBSET Tables, available : BOOLEAN,
   answered : BOOLEAN, charges : Nat, overtaken : BOOLEAN, outcome : Outcomes]

NewCall == [pc |-> "idle", user |-> NoUser, session |-> NoSession, day |-> 0,
            seen |-> {}, available |-> FALSE,
            answered |-> FALSE, charges |-> 0, overtaken |-> FALSE, outcome |-> "none"]

TypeOK ==
  /\ usage \in [Users -> [Days -> 0..FreeLimit]]
  /\ balance \in [Users -> Nat]
  /\ today \in Days
  /\ active \subseteq Sessions
  /\ calls \in [Calls -> Call]

Init ==
  /\ usage = [u \in Users |-> [d \in Days |-> 0]]
  /\ balance = [u \in Users |-> 0]
  /\ today = 0
  /\ active = {}
  /\ calls = [c \in Calls |-> NewCall]

Continue(c, pc) == calls' = [calls EXCEPT ![c].pc = pc]
End(c, outcome) == calls' = [calls EXCEPT ![c].pc = "idle", ![c].outcome = outcome]

(* The `finally` of sendMessage, wherever its `try` was left. *)
Unlock(c) == active' = active \ {calls[c].session}

(***************************************************************************)
(* sendMessage up to the call of the LLM                                   *)
(***************************************************************************)

(* 429 when the session is in the set, else the quota is asked for.        *)
SendMessage(c, u, s) ==
  LET call == [NewCall EXCEPT !.user = u, !.session = s, !.day = today] IN
  /\ calls[c].pc = "idle"
  /\ calls' = [calls EXCEPT ![c] =
       IF s \in active THEN [call EXCEPT !.outcome = "busy"]
                       ELSE [call EXCEPT !.pc = "check"]]
  /\ UNCHANGED <<usage, balance, today, active>>

(* getQuotaStatus: two queries sent together, answered in either order.    *)
Read(c, table, available) ==
  /\ calls[c].pc = "check"
  /\ table \notin calls[c].seen
  /\ calls' = [calls EXCEPT
       ![c].seen = @ \cup {table},
       ![c].available = @ \/ available,
       ![c].pc = IF calls[c].seen \cup {table} = Tables THEN "admit" ELSE "check"]
  /\ UNCHANGED <<usage, balance, today, active>>

(* Mutants: an answer too few, a credit too many.                          *)
ReadUsageMutant(c)  ==
  Read(c, "feature_usage", usage[calls[c].user][calls[c].day] + 1 < FreeLimit)
ReadCreditMutant(c) == Read(c, "user_credits", balance[calls[c].user] >= 0)

ReadUsage(c)  == Read(c, "feature_usage", usage[calls[c].user][calls[c].day] < FreeLimit)
ReadCredit(c) == Read(c, "user_credits", balance[calls[c].user] > 0)

(* The set is not looked at again: whoever passed the first test enters.   *)
Admit(c) ==
  /\ calls[c].pc = "admit"
  /\ IF calls[c].available
       THEN active' = active \cup {calls[c].session} /\ Continue(c, "prepare")
       ELSE UNCHANGED active /\ End(c, "denied")
  /\ UNCHANGED <<usage, balance, today>>

(* getOrCreateSession and the saving of the user's message.                *)
Prepare(c) ==
  /\ calls[c].pc = "prepare"
  /\ Continue(c, "llm")
  /\ UNCHANGED <<usage, balance, today, active>>

(* A failed query or a session of somebody else (403) leaves sendMessage   *)
(* before its `try`: a session in the set stays there.                     *)
PrepareFails(c) ==
  /\ calls[c].pc \in {"check", "prepare"}
  /\ End(c, "error")
  /\ UNCHANGED <<usage, balance, today, active>>

(***************************************************************************)
(* The LLM loop and the consumption of the quota                           *)
(***************************************************************************)

(* The loop returns a response; consumeQuota computes the date anew.       *)
LlmAnswers(c) ==
  /\ calls[c].pc = "llm"
  /\ calls' = [calls EXCEPT ![c].pc = "chargeFree", ![c].day = today, ![c].answered = TRUE]
  /\ UNCHANGED <<usage, balance, today, active>>

(* Mutant: a failed answer is charged like any other.                      *)
LlmFailsMutant(c) ==
  /\ calls[c].pc = "llm"
  /\ calls' = [calls EXCEPT ![c].pc = "chargeFree", ![c].day = today]
  /\ UNCHANGED <<usage, balance, today, active>>

(* The loop throws (timeout, API or database error): an apology, no charge.*)
LlmFails(c) ==
  /\ calls[c].pc = "llm"
  /\ Unlock(c)
  /\ End(c, "failed")
  /\ UNCHANGED <<usage, balance, today>>

(* c is charged, and overtakes every other call of its user in progress.   *)
Charge(c, outcome) ==
  calls' = [k \in Calls |->
    IF k = c
      THEN [calls[c] EXCEPT !.pc = "idle", !.outcome = outcome, !.charges = @ + 1]
      ELSE [calls[k] EXCEPT !.overtaken =
              @ \/ (calls[k].pc # "idle" /\ calls[k].user = calls[c].user)]]

(* Mutant: the WHERE says < instead of <=.                                 *)
FreeLeftMutant(c) == usage[calls[c].user][calls[c].day] + 1 < FreeLimit

FreeLeft(c) == usage[calls[c].user][calls[c].day] + 1 <= FreeLimit

(* The UPSERT with count + 1 <= limit in its WHERE.                        *)
ChargeFree(c) ==
  /\ calls[c].pc = "chargeFree"
  /\ \/ /\ FreeLeft(c)
        /\ usage' = [usage EXCEPT ![calls[c].user][calls[c].day] = @ + 1]
        /\ Charge(c, "free")
        /\ Unlock(c)
     \/ /\ ~FreeLeft(c)
        /\ Continue(c, "chargePaid")
        /\ UNCHANGED <<usage, active>>
  /\ UNCHANGED <<balance, today>>

(* Mutant: the WHERE forgets the balance.                                  *)
AffordableMutant(c) == TRUE

Affordable(c) == balance[calls[c].user] >= 1

(* The UPDATE with balance >= 1 in its WHERE.  When it matches no row the  *)
(* answer has been given for nothing: the result is not looked at.         *)
ChargePaid(c) ==
  /\ calls[c].pc = "chargePaid"
  /\ \/ /\ Affordable(c)
        /\ balance' = [balance EXCEPT ![calls[c].user] = @ - 1]
        /\ Charge(c, "paid")
     \/ /\ ~Affordable(c)
        /\ End(c, "refused")
        /\ UNCHANGED balance
  /\ Unlock(c)
  /\ UNCHANGED <<usage, today>>

(* Either statement of consumeQuota rejects; the error is logged.          *)
ChargeFails(c) ==
  /\ calls[c].pc \in {"chargeFree", "chargePaid"}
  /\ End(c, "error")
  /\ Unlock(c)
  /\ UNCHANGED <<usage, balance, today>>

(***************************************************************************)
(* Billing and the clock                                                   *)
(***************************************************************************)

(* completeOrder adds the credits of an order.                             *)
TopUp(u) ==
  /\ balance[u] < MaxBalance
  /\ balance' = [balance EXCEPT ![u] = @ + 1]
  /\ UNCHANGED <<usage, today, active, calls>>

Midnight ==
  /\ today < LastDay
  /\ today' = today + 1
  /\ UNCHANGED <<usage, balance, active, calls>>

CallStep(c) ==
  \/ ReadUsage(c) \/ ReadCredit(c) \/ Admit(c)
  \/ Prepare(c) \/ PrepareFails(c)
  \/ LlmAnswers(c) \/ LlmFails(c)
  \/ ChargeFree(c) \/ ChargePaid(c) \/ ChargeFails(c)

Next ==
  \/ \E c \in Calls, u \in Users, s \in Sessions : SendMessage(c, u, s)
  \/ \E c \in Calls : CallStep(c)
  \/ \E u \in Users : TopUp(u)
  \/ Midnight

Spec == Init /\ [][Next]_vars

-------------------------------------------------------------------------------
(***************************************************************************)
(* Properties                                                              *)
(***************************************************************************)

(* A message is charged at most once, and only if the LLM answered it: the *)
(* two statements of consumeQuota never both take effect, and no failure   *)
(* on the way to the answer costs anything.                                *)
OneChargePerAnswer ==
  \A c \in Calls : calls[c].charges <= IF calls[c].answered THEN 1 ELSE 0

(* An answer goes unpaid for lack of quota only in the race sendMessage    *)
(* accepts: another call of the same user was charged between the start of *)
(* this one, which fixed the day it asks about, and its own charge.  One   *)
(* call at a time never gets a free ride, not even across midnight.        *)
RefusedWasOvertaken ==
  \A c \in Calls : calls[c].outcome = "refused" => calls[c].overtaken

(* A user told "Daily quota exceeded" really had no free answer left on    *)
(* the day of the check: the reads are stale, but usage never falls.       *)
DeniedWasExhausted ==
  \A c \in Calls :
    calls[c].outcome = "denied" => usage[calls[c].user][calls[c].day] = FreeLimit

(* Free answers go first: a credit is taken only from a user whose free    *)
(* answers of the day of the charge are used up, although the two          *)
(* statements of consumeQuota are not one transaction.                     *)
FreeBeforePaid ==
  [][\A u \in Users : balance'[u] < balance[u] =>
       \E c \in Calls :
         /\ calls[c].user = u /\ calls[c].pc = "chargePaid"
         /\ usage[u][calls[c].day] = FreeLimit]_vars

Processing(s) ==
  {c \in Calls : calls[c].session = s
                   /\ calls[c].pc \in {"prepare", "llm", "chargeFree", "chargePaid"}}

(* "Session ... is already processing a message, rejecting"                *)
(* (chat.service.ts:592): a session processes one message at a time.  The  *)
(* code breaks this: the quota is awaited between the test and the add.    *)
OneMessagePerSession ==
  \A s \in Sessions : Cardinality(Processing(s)) <= 1

(* "Already processing a message" (chat.service.ts:593) is only said of a  *)
(* session that is processing one.  The code breaks this: a failure before *)
(* the `try` leaves the session in the set for good.                       *)
ActiveIsProcessing ==
  \A s \in active : Processing(s) # {}
==============================================================================
