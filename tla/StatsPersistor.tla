---------------------------- MODULE StatsPersistor ----------------------------
(***************************************************************************)
(* The 24 hour statistics of one mint: every priced swap adds an entry to  *)
(* the sorted sets in Redis and marks the mint as active; a minute cron    *)
(* copies the totals of the active mints into their rows and drops the     *)
(* mints without entries from the active set.  Entries are counted, young  *)
(* ones and ones that are older than 24 hours but still in the set: they   *)
(* go with the next write, or with the whole key an hour later.            *)
(***************************************************************************)
EXTENDS Integers

CONSTANTS
  MaxEntries,  \* bound: entries in the sorted set
  StatsFaults  \* which of "redis", "db" occur

ASSUME MaxEntriesAssumption == MaxEntries \in Nat

VARIABLES
  active,      \* is the mint in ACTIVE_TOKENS?
  entries,     \* TXNS_24H and VOLUME_24H: [young, old]
  storing,     \* a swap has marked the mint and awaits the writes of its entry
  sweep,       \* the cron: "idle", or what it found of this mint
  statsRow,    \* txns24hTotal of the row
  missed       \* history: the cron overlapped a swap, or an error occurred

statsVars == <<active, entries, storing, sweep, statsRow, missed>>

StatsTypeOK ==
  /\ active \in BOOLEAN /\ storing \in BOOLEAN /\ missed \in BOOLEAN
  /\ entries.young \in 0..MaxEntries /\ entries.old \in 0..MaxEntries
  /\ sweep \in {"idle", "listed", "toRemove"}
  /\ statsRow \in 0..MaxEntries

StatsInit ==
  /\ active = FALSE
  /\ entries = [young |-> 0, old |-> 0]
  /\ storing = FALSE
  /\ sweep = "idle"
  /\ statsRow = 0
  /\ missed = FALSE

Total == entries.young + entries.old

(* Mutant: the mint is not marked.                                         *)
MarkActiveMutant ==
  /\ ~storing /\ entries.young < MaxEntries
  /\ storing' = TRUE
  /\ missed' = (missed \/ sweep # "idle")
  /\ UNCHANGED <<active, entries, sweep, statsRow>>

(* onSwapEvent sends SADD first and does not wait for it.                  *)
MarkActive ==
  /\ ~storing /\ entries.young < MaxEntries
  /\ storing' = TRUE
  /\ \/ active' = TRUE /\ missed' = (missed \/ sweep # "idle")
     \/ "redis" \in StatsFaults /\ missed' = TRUE /\ UNCHANGED active
  /\ UNCHANGED <<entries, sweep, statsRow>>

(* storeVolumeAndTxns: ZADD, then the entries of yesterday are cut.        *)
StoreEntry ==
  /\ storing
  /\ storing' = FALSE
  /\ \/ entries' = [young |-> entries.young + 1, old |-> 0] /\ missed' = (missed \/ sweep # "idle")
     \/ "redis" \in StatsFaults /\ missed' = TRUE /\ UNCHANGED entries
  /\ UNCHANGED <<active, sweep, statsRow>>

(* A day without a swap, then the hour until the key expires.              *)
EntriesAge ==
  /\ ~storing /\ sweep = "idle"
  /\ entries' = IF entries.young > 0 THEN [young |-> 0, old |-> entries.young]
                ELSE [young |-> 0, old |-> 0]
  /\ UNCHANGED <<active, storing, sweep, statsRow, missed>>

ListActive ==
  /\ sweep = "idle" /\ active
  /\ sweep' = "listed"
  /\ missed' = (missed \/ storing)
  /\ UNCHANGED <<active, entries, storing, statsRow>>

(* readAggregates and what follows from it; an error reads as no entries.  *)
ReadAggregates ==
  /\ sweep = "listed"
  /\ \/ Total = 0 /\ sweep' = "toRemove" /\ UNCHANGED <<statsRow, missed>>
     \/ "redis" \in StatsFaults /\ sweep' = "toRemove" /\ missed' = TRUE /\ UNCHANGED statsRow
     \/ Total > 0 /\ sweep' = "idle" /\ statsRow' = Total /\ UNCHANGED missed
     \/ Total > 0 /\ "db" \in StatsFaults /\ sweep' = "idle" /\ UNCHANGED <<statsRow, missed>>
  /\ UNCHANGED <<active, entries, storing>>

(* srem logs an error of Redis and goes on.                                *)
RemoveInactive ==
  /\ sweep = "toRemove"
  /\ active' = FALSE \/ ("redis" \in StatsFaults /\ UNCHANGED active)
  /\ sweep' = "idle"
  /\ UNCHANGED <<entries, storing, statsRow, missed>>

StatsStep ==
  MarkActive \/ StoreEntry \/ EntriesAge \/ ListActive \/ ReadAggregates \/ RemoveInactive

-------------------------------------------------------------------------------
(***************************************************************************)
(* Properties                                                              *)
(***************************************************************************)

(* A mint with trades is never dropped for good: it is active, unless the  *)
(* cron had overlapped a swap or a read had failed.                        *)
TradedMintIsActive == Total > 0 /\ ~missed => active
==============================================================================
