--------------------------- MODULE StakingHistory ----------------------------
(***************************************************************************)
(* The staking history of one account: a window of the chain's signatures  *)
(* has been read, from newestSyncedSignature down to oldestSyncedSignature.*)
(* A request without a cursor reads what is newer, one with a cursor what  *)
(* is older, a batch each; both save a sync state derived from the copy    *)
(* they read first, and the save is a SELECT and an UPDATE of the columns  *)
(* that differ.  A signature is its position on the chain.                 *)
(***************************************************************************)
EXTENDS Integers, FiniteSets, Sequences, FiniteSetsExt, SequencesExt

CONSTANTS
  HistoryCalls, \* requests at the same time
  BatchOf,      \* SIGNATURE_BACKFILL_BATCH_SIZE
  HistoryPage,  \* pageSize
  MaxSigs,      \* bound: signatures of the account
  MaxHistory    \* bound: requests

ASSUME HistoryAssumption ==
  BatchOf \in Nat \ {0} /\ MaxSigs \in Nat /\ MaxSigs >= 2 /\ MaxHistory \in Nat

VARIABLES
  sigs,      \* the chain: which transactions are of the staking program
  history,   \* staking_history: the signatures stored
  state,     \* staking_history_sync_state, or none
  calls,     \* the requests: what they do, their copy of the state, their batch
  begun,
  skipped,   \* history: signatures a batch had no room for, or without an answer
  joined     \* history: a save wrote between the SELECT and the UPDATE of another

stakingVars == <<sigs, history, state, calls, begun, skipped, joined>>

Null == 0
NoState == [newest |-> Null, oldest |-> Null, reached |-> FALSE, made |-> FALSE]
NoCall == [stage |-> "idle", older |-> FALSE, state |-> NoState, batch |-> {}, rows |-> {}, row |-> NoState]

StakingTypeOK ==
  /\ Len(sigs) <= MaxSigs /\ history \cup skipped \subseteq 1..MaxSigs /\ joined \in BOOLEAN
  /\ state.newest \in 0..MaxSigs /\ state.oldest \in 0..MaxSigs /\ begun \in 0..MaxHistory
  /\ \A c \in HistoryCalls :
       calls[c].stage \in {"idle", "state", "create", "count", "backfill", "details", "upsert", "save", "write",
                            "read"}

StakingInit ==
  /\ sigs \in {[i \in 1..n |-> TRUE] : n \in {0, 2}}
  /\ history = {} /\ state = NoState
  /\ calls = [c \in HistoryCalls |-> NoCall] /\ begun = 0 /\ skipped = {} /\ joined = FALSE

NewTransaction ==
  /\ Len(sigs) < MaxSigs
  /\ \E staking \in BOOLEAN : sigs' = Append(sigs, staking)
  /\ UNCHANGED <<history, state, calls, begun, skipped, joined>>

GetHistory(c) ==
  /\ calls[c].stage = "idle" /\ begun < MaxHistory
  /\ begun' = begun + 1
  /\ \E older \in BOOLEAN : calls' = [calls EXCEPT ![c] = [NoCall EXCEPT !.stage = "state", !.older = older]]
  /\ UNCHANGED <<sigs, history, state, skipped, joined>>

(* Whether the records are counted, before an older batch.                 *)
Wanted(c) == IF calls[c].older THEN "count" ELSE "backfill"

(* getOrCreateSyncState.                                                   *)
GetSyncState(c) ==
  /\ calls[c].stage = "state"
  /\ calls' = [calls EXCEPT ![c].state = state, ![c].stage = IF state.made THEN Wanted(c) ELSE "create"]
  /\ UNCHANGED <<sigs, history, state, begun, skipped, joined>>

(* The row of an account is unique: the second of two creations fails, and *)
(* with it the request.                                                    *)
CreateSyncState(c) ==
  /\ calls[c].stage = "create"
  /\ IF state.made
     THEN calls' = [calls EXCEPT ![c] = NoCall] /\ UNCHANGED state
     ELSE /\ state' = [NoState EXCEPT !.made = TRUE]
          /\ calls' = [calls EXCEPT ![c].state = state', ![c].stage = Wanted(c)]
  /\ UNCHANGED <<sigs, history, begun, skipped, joined>>

(* An older batch is read when less than a page is stored.                 *)
CountHistory(c) ==
  /\ calls[c].stage = "count"
  /\ LET enough == Cardinality(history) >= HistoryPage \/ calls[c].state.reached
     IN  calls' = [calls EXCEPT ![c].stage = IF enough THEN "read" ELSE "backfill"]
  /\ UNCHANGED <<sigs, history, state, begun, skipped, joined>>

NewestOf(S) == {s \in S : Cardinality({t \in S : t > s}) < BatchOf}

(* backfillLatestHistory: getSignaturesForAddress until the newest synced. *)
ReadLatest(c) ==
  /\ calls[c].stage = "backfill" /\ ~calls[c].older
  /\ LET wanted == {s \in DOMAIN sigs : s > calls[c].state.newest}
     IN  /\ calls' = [calls EXCEPT ![c].batch = NewestOf(wanted),
                                   ![c].stage = IF wanted = {} THEN "read" ELSE "details"]
         /\ skipped' = IF calls[c].state.newest = Null THEN skipped ELSE skipped \cup (wanted \ NewestOf(wanted))
  /\ UNCHANGED <<sigs, history, state, begun, joined>>

(* backfillOlderHistory: those before the oldest synced; none is the end.  *)
ReadOlder(c) ==
  /\ calls[c].stage = "backfill" /\ calls[c].older
  /\ LET before == IF calls[c].state.oldest = Null THEN Len(sigs) + 1 ELSE calls[c].state.oldest
         wanted == {s \in DOMAIN sigs : s < before}
     IN  calls' = [calls EXCEPT ![c].batch = NewestOf(wanted),
                                ![c].stage = IF wanted = {} THEN "save" ELSE "details"]
  /\ UNCHANGED <<sigs, history, state, begun, skipped, joined>>

(* fetchHistoryRecordsFromSignatures: a transaction the node does not find *)
(* is left out like one of another program; an error fails the request.    *)
GetTransactions(c) ==
  /\ calls[c].stage = "details"
  /\ \E missing \in {{}} \cup {{s} : s \in calls[c].batch} :
       /\ calls' = [calls EXCEPT ![c].rows = {s \in calls[c].batch \ missing : sigs[s]}, ![c].stage = "upsert"]
       /\ skipped' = skipped \cup missing
  /\ UNCHANGED <<sigs, history, state, begun, joined>>

(* A call or a query fails, and the request with it.                       *)
Fails(c) ==
  /\ calls[c].stage # "idle"
  /\ calls' = [calls EXCEPT ![c] = NoCall]
  /\ UNCHANGED <<sigs, history, state, begun, skipped, joined>>

(* The state an older or a newer batch leaves, over the copy of the caller;*)
(* no older batch is the end of the history.                               *)
NextState(c) ==
  LET old == calls[c].state
      batch == calls[c].batch
  IN  IF batch = {} THEN [old EXCEPT !.reached = TRUE]
      ELSE IF calls[c].older
      THEN [old EXCEPT !.newest = IF @ = Null THEN Max(batch) ELSE @, !.oldest = Min(batch), !.reached = FALSE]
      ELSE [old EXCEPT !.newest = Max(batch), !.oldest = IF @ = Null THEN Min(batch) ELSE @]

(* Mutant: the cursors move before the records are stored.                 *)
UpsertRecordsMutant(c) ==
  /\ calls[c].stage = "upsert"
  /\ state' = NextState(c)
  /\ calls' = [calls EXCEPT ![c].stage = "save"]
  /\ UNCHANGED <<sigs, history, begun, skipped, joined>>

(* persistHistoryBatch: the records first, then the state.                 *)
UpsertRecords(c) ==
  /\ calls[c].stage = "upsert"
  /\ history' = history \cup calls[c].rows
  /\ calls' = [calls EXCEPT ![c].stage = "save"]
  /\ UNCHANGED <<sigs, state, begun, skipped, joined>>

(* repository.save: the row is selected by its id,                         *)
SaveSyncState(c) ==
  /\ calls[c].stage = "save"
  /\ calls' = [calls EXCEPT ![c].row = state, ![c].stage = "write"]
  /\ UNCHANGED <<sigs, history, state, begun, skipped, joined>>

(* and its columns that have to differ from it are updated.                *)
Updated(c) ==
  LET next == NextState(c)
      row == calls[c].row
  IN  [newest  |-> IF row.newest # next.newest THEN next.newest ELSE state.newest,
       oldest  |-> IF row.oldest # next.oldest THEN next.oldest ELSE state.oldest,
       reached |-> IF row.reached # next.reached THEN next.reached ELSE state.reached,
       made    |-> state.made]

UpdateColumns(c) ==
  /\ calls[c].stage = "write"
  /\ state' = Updated(c)
  /\ joined' = (joined \/ state # calls[c].row)
  /\ calls' = [calls EXCEPT ![c].stage = "read"]
  /\ UNCHANGED <<sigs, history, begun, skipped>>

(* readHistoryPage is answered from what is stored.                        *)
ReadHistoryPage(c) ==
  /\ calls[c].stage = "read"
  /\ calls' = [calls EXCEPT ![c] = NoCall]
  /\ UNCHANGED <<sigs, history, state, begun, skipped, joined>>

StakingStep ==
  \/ NewTransaction
  \/ \E c \in HistoryCalls :
       \/ GetHistory(c) \/ GetSyncState(c) \/ CreateSyncState(c) \/ CountHistory(c) \/ ReadLatest(c)
       \/ ReadOlder(c) \/ GetTransactions(c) \/ Fails(c) \/ UpsertRecords(c) \/ SaveSyncState(c)
       \/ UpdateColumns(c) \/ ReadHistoryPage(c)

-------------------------------------------------------------------------------
(***************************************************************************)
(* Properties                                                              *)
(***************************************************************************)

(* Requests save a sync state derived from an older copy and fail between  *)
(* any two steps, yet inside the window the state claims every transaction *)
(* of the program is stored, except those a batch had no room for and      *)
(* those the node did not find; unless the two statements of a save had    *)
(* another save between them, which joins two windows with a gap.          *)
WindowIsStored ==
  ~joined => \A s \in DOMAIN sigs :
    sigs[s] /\ state.oldest # Null /\ s \in state.oldest..state.newest => s \in history \cup skipped
===============================================================================
