------------------------------ MODULE ChatTools ------------------------------
(***************************************************************************)
(* What the tools of the chat return and what an answer shows of them.     *)
(* The rows and the runs are those of ChatHistory; here every tool message *)
(* also has the output of executeTool as its content, and every answer the *)
(* payload parseResponse makes of it: the LLM may answer with a structured *)
(* payload of its own; plain text is shown with the latest output of the   *)
(* turn that has a typed view.                                             *)
(***************************************************************************)
EXTENDS ChatHistory

CONSTANTS
  Mints,            \* token mints
  Sol,              \* the mint of SOL
  UnknownToken,     \* a name that is no mint, and that no search finds
  HighestSlippage,  \* 5000
  DefaultSlippage,  \* 50
  RecentOutputs,    \* outputs of a turn that are looked at: 5
  ToolsCalled,      \* bound: the tools the LLM calls
  SlippageAsked     \* bound: the slippages it asks for

ASSUME ToolsAssumption ==
  /\ Sol \in Mints /\ UnknownToken \notin Mints
  /\ HighestSlippage \in Nat /\ DefaultSlippage \in 1..HighestSlippage
  /\ RecentOutputs \in Nat \ {0}
  /\ SlippageAsked \subseteq Int

VARIABLES
  outputs,  \* content of each row, where it is a tool's
  shown     \* the answer given last

chatToolsVars == <<outputs, shown>>

(***************************************************************************)
(* executeTool                                                             *)
(***************************************************************************)

(* The view that shows what a tool returned.  The LLM is offered           *)
(* fetch_portfolio_performance, but executeTool does not know it.          *)
View == [set_slippage                |-> "slippage_action",
         prepare_swap                |-> "trade_intent",
         navigate_to                 |-> "navigation",
         fetch_portfolio             |-> "portfolio_summary",
         fetch_wallet_portfolio      |-> "portfolio_summary",
         fetch_portfolio_activities  |-> "portfolio_activities",
         fetch_wallet_activities     |-> "portfolio_activities",
         fetch_portfolio_performance |-> "portfolio_performance",
         fetch_token_data            |-> "token_brief"]

ToolNames == DOMAIN View \cup {"search_tokens", "fetch_discovery"}

NoToken == "no token"
Tokens  == Mints \cup {UnknownToken}

Output == [tool : ToolNames \cup {"none"}, ok : BOOLEAN, sells : BOOLEAN,
           token : Tokens \cup {NoToken}, bps : 0..HighestSlippage]

Done(tool)   == [tool |-> tool, ok |-> TRUE, sells |-> FALSE, token |-> NoToken, bps |-> 0]
(* {"error": ...}: arguments that are refused, or a service that threw.    *)
Erred(tool)  == [Done(tool) EXCEPT !.ok = FALSE]
NoOutput     == Done("none")

(* A mint is taken as it is; the name of a common token has its mint;      *)
(* another is searched for, and kept when nothing is found.                *)
Resolved(name) == IF name \in Mints THEN {name} ELSE Tokens

(* findOne throws for what is not a mint.                                  *)
FetchTokenData ==
  {[Done("fetch_token_data") EXCEPT !.token = token] : token \in Resolved(UnknownToken) \cap Mints}
    \cup {Erred("fetch_token_data")}

(* To SOL from something else is a sale of that; the rest is a purchase.   *)
(* The price impact is asked for too, and left out where it is not known.  *)
Trade(from, to) ==
  LET sells == to = Sol /\ from # Sol IN
  [Done("prepare_swap") EXCEPT !.sells = sells, !.token = IF sells THEN from ELSE to]

PrepareSwap ==
  {Trade(from, to) : from, to \in UNION {Resolved(name) : name \in Tokens}}
    \cup {Erred("prepare_swap")}

SetSlippage ==
  {IF bps <= 0 THEN Erred("set_slippage")
     ELSE [Done("set_slippage") EXCEPT !.bps = Min({HighestSlippage, bps})] :
   bps \in SlippageAsked}

(* Reads of other services; the ones of the user's own portfolio need the  *)
(* user's id, the ones of a wallet its address.                            *)
Reads == {"search_tokens", "fetch_discovery", "fetch_portfolio", "fetch_wallet_portfolio",
          "fetch_portfolio_activities", "fetch_wallet_activities"}

FetchFrom(tools) == {Done(tool) : tool \in tools} \cup {Erred(tool) : tool \in tools}

NavigateTo == {Done("navigate_to"), Erred("navigate_to")}

UnknownTool == {Erred("fetch_portfolio_performance")}

ToolOutputs ==
  {output \in FetchTokenData \cup PrepareSwap \cup SetSlippage \cup FetchFrom(Reads)
                \cup NavigateTo \cup UnknownTool : output.tool \in ToolsCalled}

(***************************************************************************)
(* inferTypedResponseFromTools and parseResponse                           *)
(***************************************************************************)

(* Mutant: the turn of an output does not matter.                          *)
CurrentTurnMutant(first, last) == first..last

(* The rows behind the last message of the user that was read.             *)
CurrentTurn(first, last) ==
  LET asked == {i \in first..last : User(i)} IN
  IF asked = {} THEN first..last ELSE Max(asked) + 1..last

Latest(n, S) == {i \in S : Cardinality({j \in S : j > i}) < n}

(* The row of the latest output with a view, 0 if there is none; only when *)
(* a tool spoke last.                                                      *)
InferredFrom(first, last) ==
  LET results == {i \in CurrentTurn(first, last) : Tool(i)}
      typed   == {i \in Latest(RecentOutputs, results) : outputs[i].tool \in DOMAIN View} IN
  IF last > 0 /\ Tool(last) THEN Max(typed \cup {0}) ELSE 0

(* An answer: the question it is for, the last row that was read for it,   *)
(* the type it has, the row it is inferred from and what it says.          *)
NoAnswer == [question |-> 0, read |-> 0, type |-> "none", at |-> 0,
             token |-> NoToken, bps |-> 0, sells |-> FALSE]

Text(r) == [NoAnswer EXCEPT !.question = runs[r].question, !.read = runs[r].to, !.type = "text"]

(* A view of an error is a view of nothing, with a default of its own.     *)
Shown(r, i) ==
  [Text(r) EXCEPT !.type = View[outputs[i].tool], !.at = i, !.token = outputs[i].token,
                  !.sells = outputs[i].sells,
                  !.bps = IF outputs[i].tool = "set_slippage" /\ ~outputs[i].ok
                            THEN DefaultSlippage ELSE outputs[i].bps]

(* The history is the one read at the head of the loop, before it is       *)
(* trimmed.                                                                *)
FirstRead(r) == Max({1, runs[r].to - Window + 1})

ParseResponse(r, structured) ==
  LET at == InferredFrom(FirstRead(r), runs[r].to) IN
  CASE structured -> [Text(r) EXCEPT !.type = "structured"]
    [] ~structured /\ at > 0 -> Shown(r, at)
    [] OTHER -> Text(r)

(***************************************************************************)
(* The steps of a run, with the content of what it saves                   *)
(***************************************************************************)
ChatToolsTypeOK ==
  /\ outputs \in Seq(Output) /\ Len(outputs) = Len(rows)
  /\ shown \in [question : 0..MaxRows, read : 0..MaxRows, at : 0..MaxRows,
                type : {View[tool] : tool \in DOMAIN View} \cup {"none", "text", "structured"},
                token : Tokens \cup {NoToken}, bps : 0..HighestSlippage, sells : BOOLEAN]

ChatToolsInit == outputs = <<>> /\ shown = NoAnswer

SavedWith(output) ==
  outputs' = IF Len(rows') > Len(rows) THEN Append(outputs, output) ELSE outputs

AskTools(r) == Ask(r) /\ SavedWith(NoOutput) /\ shown' = NoAnswer

Converse(r) ==
  /\ ReadHistory(r) \/ Fail(r) \/ \E n \in 0..MaxCalls : CallTools(r, n)
  /\ SavedWith(NoOutput)
  /\ UNCHANGED shown

Execute(r) ==
  /\ ExecuteTool(r)
  /\ \E output \in ToolOutputs : SavedWith(output)
  /\ UNCHANGED shown

(* Without a choice of the LLM nothing is saved or parsed.                 *)
Respond(r) ==
  /\ Answer(r)
  /\ SavedWith(NoOutput)
  /\ \E structured \in BOOLEAN :
       shown' = IF rows' = rows THEN Text(r) ELSE ParseResponse(r, structured)

ChatToolsStep == \E r \in Runs : AskTools(r) \/ Converse(r) \/ Execute(r) \/ Respond(r)

-------------------------------------------------------------------------------
(* An answer never shows what an earlier question fetched, prepared or     *)
(* set, however that one ended and however little of the history is read:  *)
(* an answer that is inferred shows an output of the run that gives it,    *)
(* and the newest of those it looks at that can be shown; one that is not, *)
(* had nothing to show.                                                    *)
AnswersAreOfTheirTurn ==
  ~overlapped /\ shown.type \notin {"none", "structured"} =>
    LET spoken == {i \in shown.question + 1..shown.read :
                     i > shown.read - Window /\ Tool(i)}
        typed  == {i \in Latest(RecentOutputs, spoken) : outputs[i].tool \in DOMAIN View} IN
    /\ shown.at # 0 =>
         /\ shown.at = Max(typed \cup {0})
         /\ shown.type = "trade_intent" => shown.token = outputs[shown.at].token
         /\ shown.type = "slippage_action" => shown.bps \in 1..HighestSlippage
         /\ shown.type = "slippage_action" /\ outputs[shown.at].ok =>
              shown.bps = outputs[shown.at].bps
    /\ shown.at = 0 /\ Len(rows) > shown.read /\ shown.read > 0 /\ Tool(shown.read) =>
         typed = {}
==============================================================================
