------------------------------- MODULE MCChat --------------------------------
(***************************************************************************)
(* The chat: its quota; the history of one session, whatever its tools     *)
(* return; and the same history with what they return.  focus, chosen      *)
(* initially, says which of the three moves.                               *)
(***************************************************************************)
EXTENDS ChatQuota, ChatTools, TLC

CONSTANT
  MaxRowsWithOutputs  \* bound: rows of a session whose outputs are told apart

VARIABLE focus

chatVars == <<focus, vars, chatHistoryVars, chatToolsVars>>

ChatInit ==
  /\ focus \in {"quota", "history", "tools"}
  /\ Init /\ ChatHistoryInit /\ ChatToolsInit

Quota ==
  focus = "quota" /\ Next /\ UNCHANGED <<focus, chatHistoryVars, chatToolsVars>>

History ==
  /\ focus = "history" /\ ChatHistoryStep
  /\ SavedWith(NoOutput)
  /\ UNCHANGED <<focus, vars, shown>>

(* One execution of sendMessage after the other.                           *)
Tools ==
  /\ focus = "tools" /\ ChatToolsStep
  /\ ~overlapped' /\ Len(rows') <= MaxRowsWithOutputs
  /\ UNCHANGED <<focus, vars>>

ChatNext == Quota \/ History \/ Tools

ChatSpec == ChatInit /\ [][ChatNext]_chatVars

(* A tool with a view of each kind of content, and one without a view.     *)
MCTools     == {"fetch_token_data", "prepare_swap", "set_slippage", "search_tokens"}
MCSlippages == {0, 4}

(* Calls, sessions and runs of a session are interchangeable.              *)
Symmetry == Permutations(Calls) \cup Permutations(Sessions) \cup Permutations(Runs)

-------------------------------------------------------------------------------
(* What is read of the history is what it should be: the request, see      *)
(* TrimsToFirstOpener, and the outputs an answer shows, see                *)
(* AnswersAreOfTheirTurn; rows, outputs and answers have their types.      *)
HistoryIsReadRight ==
  /\ ChatHistoryTypeOK /\ ChatToolsTypeOK
  /\ TrimsToFirstOpener
  /\ AnswersAreOfTheirTurn
==============================================================================
