------------------------------ MODULE TokenSync -------------------------------
(***************************************************************************)
(* New mints on mainnet: a swap or a request puts a mint nobody knows into *)
(* the queue set of Redis; every minute a job pops a batch, asks Jupiter   *)
(* and then the chain, stores the rows, marks the mints as known and drops *)
(* their cached metadata.  A stored row is only told apart by its version. *)
(* Any command may fail: RedisService logs the error and its caller goes   *)
(* on as though it had been done.                                          *)
(***************************************************************************)
EXTENDS Integers, FiniteSets

CONSTANTS
  Mints,
  BatchSize,
  MaxVersion,   \* bound: how often a row is written
  Watched,      \* bound: the mints whose metadata is read and whose keys expire
  MaxReads      \* bound: reads of metadata

ASSUME SyncAssumption == MaxVersion \in Nat \ {0} /\ MaxReads \in Nat

VARIABLES
  version,   \* the row of tokens, per mint; 0: no row
  queue,   \* PENDING_TOKEN_SYNC
  knownMints,     \* KNOWN_TOKEN
  metadata,  \* TOKEN_METADATA: the version cached, 0 without
  checks,    \* enqueueIfUnknown in progress: the mint and the command to come
  job,       \* the batch being synced: its stage, its mints, those with data
  reader,    \* getTokenMetadata between its query and its SETEX
  reads,     \* how many readers there were
  discarded,    \* history: mints whose batch was discarded since they were queued
  overtaken,     \* history: a row was written while a reader held an older one
  undropped      \* history: mints whose metadata a failed DEL left in the cache

syncVars == <<version, queue, knownMints, metadata, checks, job, reader, reads, discarded, overtaken, undropped>>

NoJob == [stage |-> "pop", mints |-> {}, data |-> {}, left |-> {}, drops |-> {}]
NoReader == [mint |-> "none", version |-> 0]

SyncTypeOK ==
  /\ version \in [Mints -> 0..MaxVersion] /\ metadata \in [Mints -> 0..MaxVersion]
  /\ queue \subseteq Mints /\ knownMints \subseteq Mints /\ discarded \subseteq Mints
  /\ checks \subseteq Mints \X {"row", "sadd", "sentinel"}
  /\ job.stage \in {"pop", "jupiter", "chain", "upsert", "mark"}
  /\ reads \in 0..MaxReads /\ overtaken \in BOOLEAN /\ undropped \subseteq Mints

SyncInit ==
  /\ version = [m \in Mints |-> 0] /\ metadata = [m \in Mints |-> 0]
  /\ queue = {} /\ knownMints = {} /\ discarded = {}
  /\ checks = {} /\ job = NoJob
  /\ reader = NoReader /\ reads = 0 /\ overtaken = FALSE /\ undropped = {}

Goes(m, at, then) == checks' = (checks \ {<<m, at>>}) \cup (IF then = "end" THEN {} ELSE {<<m, then>>})

(* enqueueIfUnknown, for a swap of the mint or a request for a token       *)
(* without a row: the sentinel does not exist, or Redis does not say.      *)
(* Bound: one check at a time.                                             *)
Seen(m) ==
  /\ checks = {}
  /\ checks' = checks \cup {<<m, "row">>}
  /\ UNCHANGED <<version, queue, knownMints, metadata, job, reader, reads, discarded, overtaken, undropped>>

CheckRow(m) ==
  /\ <<m, "row">> \in checks
  /\ Goes(m, "row", IF version[m] > 0 THEN "sentinel" ELSE "sadd")
  /\ UNCHANGED <<version, queue, knownMints, metadata, job, reader, reads, discarded, overtaken, undropped>>

MarkKnown(m) ==
  /\ <<m, "sentinel">> \in checks
  /\ Goes(m, "sentinel", "end")
  /\ knownMints' = knownMints \cup {m}
  /\ UNCHANGED <<version, queue, metadata, job, reader, reads, discarded, overtaken, undropped>>

(* Mutant: a mint that was queued counts as known.                         *)
EnqueueMutant(m) ==
  /\ <<m, "sadd">> \in checks
  /\ Goes(m, "sadd", "end")
  /\ queue' = queue \cup {m} /\ discarded' = discarded \ {m}
  /\ knownMints' = knownMints \cup {m}
  /\ UNCHANGED <<version, metadata, job, reader, reads, overtaken, undropped>>

Enqueue(m) ==
  /\ <<m, "sadd">> \in checks
  /\ Goes(m, "sadd", "end")
  /\ queue' = queue \cup {m} /\ discarded' = discarded \ {m}
  /\ UNCHANGED <<version, knownMints, metadata, job, reader, reads, overtaken, undropped>>

(* The last command of a check is refused.                                 *)
CheckFails(m) ==
  /\ \E at \in {"row", "sadd", "sentinel"} : <<m, at>> \in checks /\ Goes(m, at, "end")
  /\ UNCHANGED <<version, queue, knownMints, metadata, job, reader, reads, discarded, overtaken, undropped>>

(* drainCluster: SPOP takes the mints out before anything is stored.       *)
DrainCluster ==
  /\ job = NoJob /\ queue # {}
  /\ \E batch \in SUBSET queue :
       /\ batch # {} /\ Cardinality(batch) <= BatchSize
       /\ batch = queue \/ Cardinality(batch) = BatchSize
       /\ job' = [NoJob EXCEPT !.stage = "jupiter", !.mints = batch]
       /\ queue' = queue \ batch
  /\ UNCHANGED <<version, knownMints, metadata, checks, reader, reads, discarded, overtaken, undropped>>

(* The mints Jupiter has; an error counts as none.                         *)
AskJupiter ==
  /\ job.stage = "jupiter"
  /\ \E found \in SUBSET job.mints : job' = [job EXCEPT !.stage = "chain", !.data = found]
  /\ UNCHANGED <<version, queue, knownMints, metadata, checks, reader, reads, discarded, overtaken, undropped>>

(* getMintDecimals of the others; the batch ends when there is no data.    *)
AskChain ==
  /\ job.stage = "chain"
  /\ \E found \in SUBSET (job.mints \ job.data) :
       LET data == job.data \cup found
       IN  /\ job' = IF data = {} THEN NoJob ELSE [job EXCEPT !.stage = "upsert", !.data = data]
           /\ discarded' = discarded \cup (job.mints \ data)
  /\ UNCHANGED <<version, queue, knownMints, metadata, checks, reader, reads, overtaken, undropped>>

Upsert ==
  /\ job.stage = "upsert"
  /\ version' = [m \in Mints |-> IF m \in job.data /\ version[m] < MaxVersion THEN version[m] + 1 ELSE version[m]]
  /\ overtaken' = (overtaken \/ (reader # NoReader /\ reader.mint \in job.data))
  /\ job' = [job EXCEPT !.stage = "mark", !.left = job.data]
  /\ UNCHANGED <<queue, knownMints, metadata, checks, reader, reads, discarded, undropped>>

UpsertFails ==
  /\ job.stage = "upsert"
  /\ discarded' = discarded \cup job.data
  /\ job' = NoJob
  /\ UNCHANGED <<version, queue, knownMints, metadata, checks, reader, reads, overtaken, undropped>>

(* Mint by mint, in any order: SETEX of the sentinel, then DEL of the      *)
(* cached metadata.                                                        *)
MarkSynced ==
  /\ job.stage = "mark"
  /\ \E m \in job.left :
       /\ knownMints' \in {knownMints \cup {m}, knownMints}
       /\ job' = [job EXCEPT !.left = @ \ {m}, !.drops = @ \cup {m}]
  /\ UNCHANGED <<version, queue, metadata, checks, reader, reads, discarded, overtaken, undropped>>

DropMetadata ==
  /\ \E m \in job.drops :
       /\ \/ metadata' = [metadata EXCEPT ![m] = 0] /\ undropped' = undropped \ {m}
          \/ metadata' = metadata /\ undropped' = undropped \cup {x \in {m} : metadata[x] > 0}
       /\ job' = IF job.left = {} /\ job.drops = {m} THEN NoJob ELSE [job EXCEPT !.drops = @ \ {m}]
  /\ UNCHANGED <<version, queue, knownMints, checks, reader, reads, discarded, overtaken>>

(* getTokenMetadata (findMany and findOne likewise): a miss in the cache,  *)
(* the row, and only then the cache is written.                            *)
ReadMetadata(m) ==
  /\ reader = NoReader /\ reads < MaxReads /\ m \in Watched
  /\ metadata[m] = 0 /\ version[m] > 0
  /\ reader' = [mint |-> m, version |-> version[m]]
  /\ reads' = reads + 1
  /\ UNCHANGED <<version, queue, knownMints, metadata, checks, job, discarded, overtaken, undropped>>

CacheMetadata ==
  /\ reader # NoReader
  /\ metadata' \in {[metadata EXCEPT ![reader.mint] = reader.version], metadata}
  /\ reader' = NoReader
  /\ UNCHANGED <<version, queue, knownMints, checks, job, reads, discarded, overtaken, undropped>>

(* A day later a key expires.                                              *)
Forgotten(m) ==
  /\ m \in Watched
  /\ \/ knownMints' = knownMints \ {m} /\ UNCHANGED <<metadata, undropped>>
     \/ metadata' = [metadata EXCEPT ![m] = 0] /\ undropped' = undropped \ {m} /\ UNCHANGED knownMints
  /\ UNCHANGED <<version, queue, checks, job, reader, reads, discarded, overtaken>>

Drain == DrainCluster \/ AskJupiter \/ AskChain \/ Upsert \/ UpsertFails \/ MarkSynced \/ DropMetadata

SyncStep ==
  \/ \E m \in Mints : Seen(m) \/ CheckRow(m) \/ MarkKnown(m) \/ Enqueue(m)
                      \/ CheckFails(m) \/ ReadMetadata(m) \/ Forgotten(m)
  \/ CacheMetadata \/ Drain

-------------------------------------------------------------------------------
(***************************************************************************)
(* Properties                                                              *)
(***************************************************************************)

(* A mint is known only with a row, so no mint is taken for known and left *)
(* without data; and cached metadata is that of the row once its batch is  *)
(* over, unless a reader overlapped the write of the row or the DEL that   *)
(* drops it failed.                                                        *)
KnownHasRow ==
  /\ \A m \in knownMints : version[m] > 0
  /\ job = NoJob /\ ~overtaken => \A m \in Mints \ undropped : metadata[m] \in {0, version[m]}
===============================================================================
