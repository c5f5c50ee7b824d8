----------------------------- MODULE ChatHistory -----------------------------
(***************************************************************************)
(* The history of one chat session and what of it is sent to the LLM.      *)
(* runLlmLoop reads the last rows of the session, trims them so that no    *)
(* tool result is sent without the assistant message that called the tool, *)
(* asks the LLM, and saves what it answers: text, or calls of tools whose  *)
(* results are saved one by one before the loop starts again.  Rows are    *)
(* only appended, so a request is an interval of positions.                *)
(***************************************************************************)
EXTENDS Integers, Sequences, FiniteSets, FiniteSetsExt

CONSTANTS
  Runs,      \* executions of sendMessage in this session
  Window,    \* HISTORY_WINDOW
  MaxCalls,  \* bound: tools called by one assistant message
  MaxRows    \* bound: rows of the session

ASSUME HistoryAssumption ==
  /\ Window \in Nat \ {0}
  /\ MaxCalls \in Nat
  /\ MaxRows \in Nat

VARIABLES
  rows,       \* table chat_messages, in the order of createdAt
  runs,       \* the executions of sendMessage
  overlapped  \* history: a run began while another was in progress

chatHistoryVars == <<rows, runs, overlapped>>

(* calls: the ids of the tool calls of an assistant message; call: the id  *)
(* a tool message answers.                                                 *)
Row == [role : {"user", "assistant", "tool"}, calls : SUBSET Nat, call : Nat]

(* question: the row the run answers; from..to: the request it has sent;   *)
(* pending: the calls whose tools have not been executed.                  *)
Run == [pc : {"idle", "read", "llm", "tools"}, question : Nat,
        from : Nat, to : Nat, pending : SUBSET Nat]

Ended == [pc |-> "idle", question |-> 0, from |-> 1, to |-> 0, pending |-> {}]

ChatHistoryTypeOK ==
  /\ rows \in Seq(Row) /\ Len(rows) <= MaxRows
  /\ runs \in [Runs -> Run]
  /\ \A r \in Runs : runs[r].pc = "tools" <=> runs[r].pending # {}
  /\ overlapped \in BOOLEAN

ChatHistoryInit ==
  /\ rows = <<>>
  /\ runs = [r \in Runs |-> Ended]
  /\ overlapped = FALSE

User(i)   == rows[i].role = "user"
Tool(i)   == rows[i].role = "tool"
Caller(i) == rows[i].role = "assistant" /\ rows[i].calls # {}

(***************************************************************************)
(* sanitizeHistoryMessages on the rows first..Len(rows)                    *)
(***************************************************************************)
FirstOf(S) == Min(S \cup {Len(rows) + 1})

Claimed(first)   == UNION {rows[i].calls : i \in first..Len(rows)}
Orphan(i, first) == Tool(i) /\ rows[i].call \notin Claimed(first)

(* The first loop: the orphans at the front.                               *)
SkipOrphans(first) == FirstOf({i \in first..Len(rows) : ~Orphan(i, first)})

(* Mutant: after the first group the rest is taken as it is.               *)
SkipGroupsMutant(i) ==
  IF i <= Len(rows) /\ Caller(i) THEN FirstOf({j \in i + 1..Len(rows) : ~Tool(j)}) ELSE i

(* The second loop: as long as a caller leads, it and the tool messages    *)
(* behind it go.                                                           *)
SkipGroups(i) ==
  IF i <= Len(rows) /\ Caller(i)
    THEN FirstOf({j \in i + 1..Len(rows) : ~Tool(j) /\ ~Caller(j)})
    ELSE i

Sanitized(first) == SkipGroups(SkipOrphans(first))

(* ORDER BY createdAt DESC, take HISTORY_WINDOW, reverse.                  *)
WindowStart == Max({1, Len(rows) - Window + 1})

(***************************************************************************)
(* The steps of a run                                                      *)
(***************************************************************************)
Save(row) == Len(rows) < MaxRows /\ rows' = Append(rows, row)

UserRow          == [role |-> "user", calls |-> {}, call |-> 0]
AssistantRow(cs) == [role |-> "assistant", calls |-> cs, call |-> 0]
ToolRow(id)      == [role |-> "tool", calls |-> {}, call |-> id]

(* sendMessage saves the user's message and enters the loop.               *)
Ask(r) ==
  /\ runs[r].pc = "idle"
  /\ Save(UserRow)
  /\ runs' = [runs EXCEPT ![r] = [Ended EXCEPT !.pc = "read", !.question = Len(rows) + 1]]
  /\ overlapped' = (overlapped \/ \E x \in Runs : runs[x].pc # "idle")

(* The head of runLlmLoop: the history is read, trimmed and sent.          *)
ReadHistory(r) ==
  /\ runs[r].pc = "read"
  /\ runs' = [runs EXCEPT ![r].pc = "llm", ![r].from = Sanitized(WindowStart),
                          ![r].to = Len(rows)]
  /\ UNCHANGED <<rows, overlapped>>

(* Every call in the request is answered before anything but a tool speaks *)
(* again, which the API insists on.                                        *)
Answered(from, to) ==
  \A i \in from..to : Caller(i) =>
    \A id \in rows[i].calls : \E j \in i + 1..to :
      Tool(j) /\ rows[j].call = id /\ \A k \in i + 1..j : Tool(k)

Accepted(r) == runs[r].pc = "llm" /\ Answered(runs[r].from, runs[r].to)

(* finish_reason "tool_calls": the assistant message is saved.  The ids    *)
(* are new.                                                                *)
CallTools(r, n) ==
  LET used  == Cardinality(Claimed(1))
      calls == used + 1..used + n IN
  /\ Accepted(r)
  /\ Save(AssistantRow(calls))
  /\ runs' = [runs EXCEPT ![r].pc = IF n = 0 THEN "read" ELSE "tools", ![r].pending = calls]
  /\ UNCHANGED overlapped

(* executeTool, which answers with an error text rather than throw, and    *)
(* the saving of its result; after the last one the loop starts again.     *)
ExecuteTool(r) ==
  LET id   == Min(runs[r].pending)
      rest == runs[r].pending \ {id} IN
  /\ runs[r].pc = "tools"
  /\ Save(ToolRow(id))
  /\ runs' = [runs EXCEPT ![r].pending = rest,
                          ![r].pc = IF rest = {} THEN "read" ELSE "tools"]
  /\ UNCHANGED overlapped

(* Text is saved and returned; an answer without choices is returned only. *)
Answer(r) ==
  /\ Accepted(r)
  /\ Save(AssistantRow({})) \/ UNCHANGED rows
  /\ runs' = [runs EXCEPT ![r] = Ended]
  /\ UNCHANGED overlapped

(* Whatever the run awaits rejects: a query, the LLM (a timeout, a request *)
(* it does not accept), or the process stops.                              *)
Fail(r) ==
  /\ runs[r].pc # "idle"
  /\ runs' = [runs EXCEPT ![r] = Ended]
  /\ UNCHANGED <<rows, overlapped>>

ChatHistoryStep == \E r \in Runs :
  \/ Ask(r) \/ ReadHistory(r) \/ ExecuteTool(r) \/ Answer(r) \/ Fail(r)
  \/ \E n \in 0..MaxCalls : CallTools(r, n)

ChatHistorySpec == ChatHistoryInit /\ [][ChatHistoryStep]_chatHistoryVars

-------------------------------------------------------------------------------
(***************************************************************************)
(* Properties                                                              *)
(***************************************************************************)

Sent(r) == runs[r].from..runs[r].to

(* The request starts with a user message or a plain answer, as the        *)
(* comment on sanitizeHistoryMessages says (chat.service.ts:443-446), and  *)
(* nothing behind the first such message of the window is dropped.         *)
TrimsToFirstOpener ==
  ~overlapped => \A r \in Runs : runs[r].pc = "llm" =>
    LET openers == {i \in 1..runs[r].to :
                      i > runs[r].to - Window /\ ~Tool(i) /\ ~Caller(i)} IN
    runs[r].from = Min(openers \cup {runs[r].to + 1})

(* "Both parts are dropped together so the remainder is always             *)
(* self-consistent" (chat.service.ts:450): every call sent is sent with    *)
(* its result.  The code breaks this: a run that fails before it has saved *)
(* a result leaves a call without one in the middle of the history.        *)
RequestsAreComplete ==
  ~overlapped => \A r \in Runs : runs[r].pc = "llm" => Answered(runs[r].from, runs[r].to)
==============================================================================
