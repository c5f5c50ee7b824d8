---------------------------- MODULE Tokens_proofs -----------------------------
(***************************************************************************)
(* Proofs about tokens: the catalogue, the discovery pages, the            *)
(* statistics, the price, the candles and the chart of a mint, and the     *)
(* client of CoinGecko.                                                    *)
(***************************************************************************)
EXTENDS TokenCatalogue, StatsPersistor, TokenPrice, OhlcBuckets, TokenCharts,
        DiscoveryWindows, CoinGecko, Sums_proofs, FiniteSetTheorems, TLAPS

(***************************************************************************)
(* TokenCatalogue.  A link to CoinGecko stays, for any lists, batches and  *)
(* retries.                                                                *)
(***************************************************************************)
CatalogueSpec == CatalogueInit /\ [][CatalogueStep]_catalogueVars

CatalogueRow == [name : {"real", "made"}, numbers : {"zero", "jupiter", "gecko"}, linked : BOOLEAN]

RowsTyped(table) == \A a \in DOMAIN table : table[a] \in CatalogueRow

RunFields == {"kind", "stage", "todo", "want", "values", "attempt"}

(* Rows in the table and rows about to be written have every column.       *)
CatalogueInv == RowsTyped(catalogue) /\ RowsTyped(seed.values) /\ DOMAIN seed = RunFields

(* What LinksAreKept says of a step.                                       *)
KeepsLinks ==
  \A a \in DOMAIN catalogue :
    catalogue[a].linked /\ ~catalogue'[a].linked =>
      seed.kind = "chain" /\ a \in DOMAIN seed.values /\ ~seed.values[a].linked

LEMMA PutEffect ==
  ASSUME RowsTyped(catalogue), NEW values, RowsTyped(values), NEW order, Put(values, order)
  PROVE  /\ RowsTyped(catalogue')
         /\ \A a \in DOMAIN catalogue :
              catalogue'[a] = IF a \in DOMAIN values THEN values[a] ELSE catalogue[a]
<1>1. catalogue' = [a \in DOMAIN catalogue \cup DOMAIN values |->
                      IF a \in DOMAIN values THEN values[a] ELSE catalogue[a]]
  BY DEF Put
<1> QED BY <1>1 DEF RowsTyped

(* What the seeder writes: a link that is there stays, but in a copied row.*)
LEMMA ValuesEffect ==
  ASSUME CatalogueInv, NEW S, S \subseteq DOMAIN seed.values
  PROVE  /\ RowsTyped(Values(S)) /\ DOMAIN Values(S) = S
         /\ \A a \in S : /\ seed.kind = "chain" => Values(S)[a] = seed.values[a]
                         /\ seed.kind # "chain" /\ a \in DOMAIN catalogue
                             => Values(S)[a].linked = catalogue[a].linked
<1>1. ASSUME NEW a \in S, a \in DOMAIN catalogue
      PROVE  /\ [seed.values[a] EXCEPT !.linked = catalogue[a].linked] \in CatalogueRow
             /\ [seed.values[a] EXCEPT !.linked = catalogue[a].linked].linked = catalogue[a].linked
  <2>1. seed.values[a] \in CatalogueRow /\ catalogue[a] \in CatalogueRow
    BY <1>1 DEF CatalogueInv, RowsTyped
  <2>2. catalogue[a].linked \in BOOLEAN
    BY <2>1 DEF CatalogueRow
  <2> QED BY <2>1, <2>2 DEF CatalogueRow
<1>2. \A a \in S : seed.values[a] \in CatalogueRow
  BY DEF CatalogueInv, RowsTyped
<1> QED BY <1>1, <1>2 DEF Values, RowsTyped

(* The seeder writes rows it has fetched or copied.                        *)
LEMMA SeederKeepsLinks ==
  ASSUME CatalogueInv, NEW S, S \subseteq DOMAIN seed.values, Put(Values(S), seed.want)
  PROVE  RowsTyped(catalogue') /\ KeepsLinks
<1>1. /\ RowsTyped(Values(S)) /\ DOMAIN Values(S) = S
      /\ \A a \in S : /\ seed.kind = "chain" => Values(S)[a] = seed.values[a]
                      /\ seed.kind # "chain" /\ a \in DOMAIN catalogue
                           => Values(S)[a].linked = catalogue[a].linked
  BY ValuesEffect, Zenon
<1>2. RowsTyped(catalogue)
  BY DEF CatalogueInv
<1>3. /\ RowsTyped(catalogue')
      /\ \A a \in DOMAIN catalogue :
           catalogue'[a] = IF a \in S THEN Values(S)[a] ELSE catalogue[a]
  BY <1>1, <1>2, PutEffect
<1>4. ASSUME NEW a \in DOMAIN catalogue, catalogue[a].linked, ~catalogue'[a].linked
      PROVE  seed.kind = "chain" /\ a \in DOMAIN seed.values /\ ~seed.values[a].linked
  <2>1. a \in S /\ catalogue'[a] = Values(S)[a]
    BY <1>3, <1>4
  <2>2. seed.kind = "chain" => Values(S)[a] = seed.values[a]
    BY <1>1, <2>1, Zenon
  <2>3. seed.kind # "chain" => Values(S)[a].linked = catalogue[a].linked
    BY <1>1, <2>1, Zenon
  <2>4. a \in DOMAIN seed.values
    BY <2>1
  <2> QED BY <1>4, <2>1, <2>2, <2>3, <2>4, Zenon
<1> QED BY <1>3, <1>4, Zenon DEF KeepsLinks

(* A job that updates a row keeps or makes its link.                       *)
LEMMA UpdateKeepsLinks ==
  ASSUME CatalogueInv, NEW a, NEW new, Update(a, new),
         a \in DOMAIN catalogue => new \in CatalogueRow /\ new.linked \in {catalogue[a].linked, TRUE}
  PROVE  RowsTyped(catalogue') /\ KeepsLinks
<1> DEFINE values == [x \in {a} \cap DOMAIN catalogue |-> new]
<1>1. RowsTyped(values) /\ Put(values, <<a>>)
  BY DEF RowsTyped, Update
<1>2. RowsTyped(catalogue)
  BY DEF CatalogueInv
<1>3. \A x \in DOMAIN catalogue : (x \in DOMAIN values <=> x = a) /\ (x = a => values[x] = new)
  OBVIOUS
<1> HIDE DEF values
<1>4. /\ RowsTyped(catalogue')
      /\ \A x \in DOMAIN catalogue :
           catalogue'[x] = IF x \in DOMAIN values THEN values[x] ELSE catalogue[x]
  BY <1>1, <1>2, PutEffect
<1>5. ASSUME NEW x \in DOMAIN catalogue
      PROVE  catalogue'[x] = catalogue[x] \/ (x = a /\ catalogue'[x] = new)
  BY <1>3, <1>4
<1>6. ASSUME NEW x \in DOMAIN catalogue, catalogue[x].linked PROVE catalogue'[x].linked
  <2>1. CASE catalogue'[x] = catalogue[x]
    BY <1>6, <2>1
  <2>2. CASE x = a /\ catalogue'[x] = new
    <3>1. new.linked = catalogue[x].linked \/ new.linked = TRUE
      BY <2>2
    <3> QED BY <1>6, <2>2, <3>1, Zenon
  <2> QED BY <1>5, <2>1, <2>2
<1> QED BY <1>4, <1>6, Zenon DEF KeepsLinks

LEMMA CatalogueInit0 == CatalogueInit => CatalogueInv
BY DEF CatalogueInit, CatalogueInv, RowsTyped, NoRows, NoRun, RunFields

(* A step that leaves the table alone.                                     *)
LEMMA TableStays == ASSUME UNCHANGED catalogue PROVE KeepsLinks
BY Zenon DEF KeepsLinks

LEMMA CatalogueInvStep ==
  ASSUME CatalogueInv, [CatalogueStep]_catalogueVars
  PROVE  CatalogueInv' /\ KeepsLinks
<1> USE DEF CatalogueInv
<1>1. CASE UNCHANGED catalogueVars
  BY <1>1, TableStays DEF catalogueVars
<1>2. ASSUME NEW kind, NEW list, Start(kind, list) PROVE CatalogueInv' /\ KeepsLinks
  <2>1. catalogue' = catalogue /\ seed'.values = NoRows /\ DOMAIN seed' = RunFields
    BY <1>2 DEF Start, NoRun, RunFields
  <2> QED BY <2>1, TableStays DEF RowsTyped, NoRows
<1>3. CASE NextBatch
  <2>1. /\ catalogue' = catalogue /\ DOMAIN seed' = RunFields
        /\ seed'.values = NoRows
    BY <1>3 DEF NextBatch, NoRun, RunFields
  <2> QED BY <2>1, TableStays DEF RowsTyped, NoRows
<1>4. CASE FetchBatch
  <2>1. catalogue' = catalogue
    BY <1>4 DEF FetchBatch
  <2>2. \A x \in BOOLEAN : (IF x THEN TokenRow("real", "jupiter", FALSE) ELSE TokenRow("made", "zero", FALSE)) \in CatalogueRow
    BY DEF TokenRow, CatalogueRow
  <2>3. RowsTyped(seed'.values) /\ DOMAIN seed' = RunFields
    <3>1. PICK answered \in SUBSET Range(seed.want) :
       seed' = IF seed.kind = "chain"
               THEN [seed EXCEPT !.want = Kept(@, answered),
                                 !.stage = IF answered = {} THEN "batch" ELSE "copy"]
               ELSE [seed EXCEPT !.stage = "upsert",
                                 !.values = [a \in Range(seed.want) |->
                                   IF a \in answered THEN TokenRow("real", "jupiter", FALSE)
                                   ELSE TokenRow("made", "zero", FALSE)]]
      BY <1>4, Zenon DEF FetchBatch
    <3> DEFINE fetched == [a \in Range(seed.want) |->
                             IF a \in answered THEN TokenRow("real", "jupiter", FALSE)
                             ELSE TokenRow("made", "zero", FALSE)]
    <3>2. RowsTyped(fetched)
      BY <2>2 DEF RowsTyped
    <3>3. DOMAIN seed' = RunFields
      BY <3>1
    <3>4. seed'.values \in {seed.values, fetched}
      BY <3>1 DEF RunFields
    <3> HIDE DEF fetched
    <3> QED BY <3>2, <3>3, <3>4
  <2> QED BY <2>1, <2>3, TableStays
<1>5. CASE CopyRows
  <2>1. catalogue' = catalogue
    BY <1>5 DEF CopyRows
  <2> DEFINE copied == [a \in Range(seed.want) \cap DOMAIN catalogue |->
                          [catalogue[a] EXCEPT !.numbers = "jupiter"]]
  <2>2. DOMAIN seed' = RunFields /\ seed'.values = copied
    BY <1>5 DEF CopyRows, RunFields
  <2>3. RowsTyped(copied)
    BY DEF RowsTyped, CatalogueRow
  <2> HIDE DEF copied
  <2> QED BY <2>1, <2>2, <2>3, TableStays
<1>6. CASE UpsertBatch \/ BatchFails \/ UpsertRow
  <2>1. DOMAIN seed' = RunFields /\ seed'.values = seed.values
    BY <1>6 DEF UpsertBatch, BatchFails, UpsertRow, AfterRow, RunFields
  <2>2. \/ catalogue' = catalogue
        \/ \E S \in SUBSET DOMAIN seed.values : Put(Values(S), seed.want)
    BY <1>6, Zenon DEF UpsertBatch, BatchFails, UpsertRow
  <2>3. RowsTyped(catalogue') /\ KeepsLinks
    BY <2>2, SeederKeepsLinks, TableStays
  <2> QED BY <2>1, <2>3
<1>7. CASE ReadMarketPage \/ ListUnlinked
  BY <1>7, TableStays DEF ReadMarketPage, ListUnlinked
<1>8. ASSUME NEW a, NEW new, Update(a, new), UNCHANGED seed,
             \/ new = [catalogue[a] EXCEPT !.numbers = "gecko"]
             \/ new = [catalogue[a] EXCEPT !.linked = TRUE]
      PROVE  CatalogueInv' /\ KeepsLinks
  <2>1. ASSUME a \in DOMAIN catalogue
        PROVE  new \in CatalogueRow /\ new.linked \in {catalogue[a].linked, TRUE}
    BY <1>8, <2>1 DEF RowsTyped, CatalogueRow
  <2> QED BY <1>8, <2>1, UpdateKeepsLinks
<1>9. CASE EnrichBatch
  <2>1. /\ UNCHANGED seed
        /\ \/ UNCHANGED catalogue
           \/ \E a \in cron.left : Update(a, [catalogue[a] EXCEPT !.numbers = "gecko"])
    BY <1>9, Zenon DEF EnrichBatch
  <2> QED BY <1>8, <2>1, TableStays
<1>10. ASSUME NEW a \in resolving, ResolveId(a) PROVE CatalogueInv' /\ KeepsLinks
  <2>1. /\ UNCHANGED seed
        /\ UNCHANGED catalogue \/ Update(a, [catalogue[a] EXCEPT !.linked = TRUE])
    BY <1>10, Zenon DEF ResolveId
  <2> QED BY <1>8, <2>1, TableStays
<1> QED BY <1>1, <1>2, <1>3, <1>4, <1>5, <1>6, <1>7, <1>9, <1>10, Zenon
        DEF CatalogueStep, SyncProvisionedTokens, SyncDbTokens, UpdateTokenOnChainData, ResolveIds

(* No step of a seeder or a cron clears the CoinGecko link of a row, but   *)
(* the on-chain job when it writes back the copy it read before the link   *)
(* came, for any lists, batches, retries and crons under way.              *)
THEOREM LinksAreAlwaysKept == CatalogueSpec => LinksAreKept
<1>1. CatalogueInv /\ [CatalogueStep]_catalogueVars => CatalogueInv'
  BY CatalogueInvStep, Zenon
<1>2. CatalogueInv /\ [CatalogueStep]_catalogueVars => [KeepsLinks]_catalogueVars
  BY CatalogueInvStep, Zenon
<1> QED BY CatalogueInit0, <1>1, <1>2, PTL DEF CatalogueSpec, LinksAreKept, KeepsLinks

(***************************************************************************)
(* StatsPersistor.  A mint with entries stays in the active set, for any   *)
(* bound.                                                                  *)
(***************************************************************************)
StatsSpec == StatsInit /\ [][StatsStep]_statsVars

(* Entries are young or old, never both: a write cuts the old ones.        *)
EntriesOK ==
  /\ entries.young \in Nat /\ entries.old \in Nat
  /\ entries.young <= MaxEntries /\ entries.old <= MaxEntries
  /\ entries.young = 0 \/ entries.old = 0
  /\ storing => entries.young < MaxEntries

FlagsOK == active \in BOOLEAN /\ storing \in BOOLEAN /\ missed \in BOOLEAN

SweepTypes == sweep \in {"idle", "listed", "toRemove"} /\ statsRow \in 0..MaxEntries

(* What the cron found is still so: a swap that comes between its steps is *)
(* recorded in missed.                                                     *)
SweepOK ==
  ~missed => /\ storing => active
             /\ sweep # "idle" => ~storing
             /\ sweep = "toRemove" => Total = 0
             /\ Total > 0 => active

StatsInv == EntriesOK /\ SweepTypes /\ SweepOK

LEMMA StatsInvInit == StatsInit => StatsInv
  BY MaxEntriesAssumption
  DEF StatsInit, StatsInv, EntriesOK, SweepTypes, SweepOK, Total

(* The flags are Boolean, whatever else happens.                           *)
LEMMA FlagsAlways == StatsSpec => []FlagsOK
<1>1. StatsInit => FlagsOK
  BY Zenon DEF StatsInit, FlagsOK
<1>2. FlagsOK /\ [StatsStep]_statsVars => FlagsOK'
  <2> SUFFICES ASSUME FlagsOK, [StatsStep]_statsVars PROVE FlagsOK'
    OBVIOUS
  <2> USE DEF FlagsOK
  <2>1. CASE MarkActive     BY <2>1, Zenon DEF MarkActive
  <2>2. CASE StoreEntry     BY <2>2, Zenon DEF StoreEntry
  <2>3. CASE EntriesAge     BY <2>3, Zenon DEF EntriesAge
  <2>4. CASE ListActive     BY <2>4, Zenon DEF ListActive
  <2>5. CASE ReadAggregates BY <2>5, Zenon DEF ReadAggregates
  <2>6. CASE RemoveInactive BY <2>6, Zenon DEF RemoveInactive
  <2>7. CASE UNCHANGED statsVars BY <2>7, Zenon DEF statsVars
  <2> QED
    BY <2>1, <2>2, <2>3, <2>4, <2>5, <2>6, <2>7 DEF StatsStep
<1> QED
  BY <1>1, <1>2, PTL DEF StatsSpec

(* One step per action: each names what it disturbs.                       *)
LEMMA StatsInvStep == StatsInv /\ [StatsStep]_statsVars => StatsInv'
<1> SUFFICES ASSUME StatsInv, [StatsStep]_statsVars PROVE StatsInv'
  OBVIOUS
<1> USE MaxEntriesAssumption DEF StatsInv, EntriesOK, SweepTypes, SweepOK, Total
<1>1. CASE MarkActive
  BY <1>1 DEF MarkActive
<1>2. CASE StoreEntry
  <2>1. /\ storing /\ storing' = FALSE
        /\ UNCHANGED <<active, sweep, statsRow>>
        /\ missed => missed'
    BY <1>2, Zenon DEF StoreEntry
  <2>2. CASE UNCHANGED entries /\ missed'
    BY <2>1, <2>2
  <2>3. CASE /\ entries' = [young |-> entries.young + 1, old |-> 0]
             /\ missed' = (missed \/ sweep # "idle")
    <3>1. entries'.young = entries.young + 1 /\ entries'.old = 0
      BY <2>3
    <3>2. ~missed' => ~missed /\ sweep = "idle" /\ active
      BY <2>1, <2>3, Zenon
    <3> QED
      BY <2>1, <3>1, <3>2
  <2> QED
    BY <1>2, <2>2, <2>3, Zenon DEF StoreEntry
<1>3. CASE EntriesAge
  BY <1>3 DEF EntriesAge
<1>4. CASE ListActive
  BY <1>4 DEF ListActive
<1>5. CASE ReadAggregates
  BY <1>5 DEF ReadAggregates
<1>6. CASE RemoveInactive
  BY <1>6 DEF RemoveInactive
<1>7. CASE UNCHANGED statsVars
  BY <1>7 DEF statsVars
<1> QED
  BY <1>1, <1>2, <1>3, <1>4, <1>5, <1>6, <1>7 DEF StatsStep

LEMMA StatsInvAlways == StatsSpec => []StatsInv
  BY StatsInvInit, StatsInvStep, PTL DEF StatsSpec

(* The counters and flags of the statistics have their types.              *)
THEOREM StatsTypes == StatsSpec => []StatsTypeOK
<1>1. EntriesOK => entries.young \in 0..MaxEntries /\ entries.old \in 0..MaxEntries
  BY MaxEntriesAssumption DEF EntriesOK
<1>2. StatsInv /\ FlagsOK => StatsTypeOK
  BY <1>1, Zenon DEF StatsInv, SweepTypes, FlagsOK, StatsTypeOK
<1> QED
  BY <1>2, StatsInvAlways, FlagsAlways, PTL

(* A mint with trades is active unless the cron overlapped a swap or an    *)
(* error occurred, however many entries its sets may hold.                 *)
THEOREM TradedMintStaysActive == StatsSpec => []TradedMintIsActive
<1>1. StatsInv => TradedMintIsActive
  BY DEF StatsInv, SweepOK, TradedMintIsActive
<1> QED
  BY <1>1, StatsInvAlways, PTL

(***************************************************************************)
(* TokenPrice.  A fresh price is ordered by slot, for any messages and     *)
(* readers.                                                                *)
(***************************************************************************)
PriceSpec == PriceInit /\ [][PriceStep]_priceVars

CachedPrice == [price : Nat, slot : Nat, source : Sources, life : {"absent", "stale", "fresh"}]

(* A job's message is one of the indexer's or names the reader.            *)
ReaderMsg == {[kind |-> r, slot |-> 0, price |-> 0] : r \in Readers}
PriceJob == [msg : Messages \cup ReaderMsg, by : {"consumer", "stats", "holders", "market", "reader"},
             pc : {"set", "peek", "ttl", "row", "refill", "insert"}, price : Nat]

(* A job knows a message the indexer has published, and inserts or refills *)
(* only valid prices.                                                      *)
JobOK(j) ==
  /\ j.by # "reader" => j.msg \in Messages \ pending
  /\ j.by = "reader" => j.pc \in {"peek", "ttl", "row", "refill"}
  /\ j.by = "market" => j.pc = "insert"
  /\ j.pc = "refill" => Valid(j.price)
  /\ j.pc = "insert" => j.by # "stats" /\ Valid(j.msg.price)

CacheOK == cache \in CachedPrice /\ (cache.life = "absent" <=> cache.source = "none")

JobsOK == jobs \subseteq PriceJob /\ \A j \in jobs : JobOK(j)

EventsOK ==
  /\ row \in Nat
  /\ \A e \in events : e.price \in Nat /\ Valid(e.price)
  /\ pending \subseteq Messages /\ handled \cap pending = {}

PriceInv == CacheOK /\ JobsOK /\ EventsOK

LEMMA MessageFields ==
  ASSUME NEW m \in Messages
  PROVE  m.kind \in {"swap", "update"} /\ m.slot \in Nat /\ m.price \in Nat /\ m.quoted \in Nat
  BY MessagesAssumption

LEMMA PriceJobFields ==
  ASSUME NEW j \in PriceJob
  PROVE  /\ j.msg \in Messages \cup ReaderMsg /\ j.by \in {"consumer", "stats", "holders", "market", "reader"}
         /\ j.pc \in {"set", "peek", "ttl", "row", "refill", "insert"} /\ j.price \in Nat
  BY DEF PriceJob

LEMMA CacheFields ==
  ASSUME NEW c \in CachedPrice
  PROVE  c.price \in Nat /\ c.slot \in Nat /\ c.source \in Sources /\ c.life \in {"absent", "stale", "fresh"}
  BY DEF CachedPrice

LEMMA AbsentIsCached == Absent \in CachedPrice /\ Absent.life = "absent" /\ Absent.source = "none"
  BY DEF Absent, CachedPrice, Sources

LEMMA JobMoves ==
  ASSUME NEW j \in PriceJob, NEW pc \in {"set", "peek", "ttl", "row", "refill", "insert"}
  PROVE  /\ [j EXCEPT !.pc = pc] \in PriceJob
         /\ [j EXCEPT !.pc = pc].pc = pc
         /\ [j EXCEPT !.pc = pc].msg = j.msg /\ [j EXCEPT !.pc = pc].by = j.by /\ [j EXCEPT !.pc = pc].price = j.price
  BY DEF PriceJob

LEMMA PriceInvInit == PriceInit => PriceInv
  BY AbsentIsCached DEF PriceInit, PriceInv, CacheOK, JobsOK, EventsOK

(* A job ends, or is replaced by one that is as good.                      *)
LEMMA JobsKeep ==
  ASSUME PriceInv, NEW j \in jobs, pending' = pending,
         \/ Finish(j)
         \/ \E q \in PriceJob : JobOK(q) /\ jobs' = (jobs \ {j}) \cup {q}
  PROVE  JobsOK'
  BY DEF PriceInv, JobsOK, JobOK, Finish, Valid

LEMMA NewJob ==
  ASSUME NEW m \in Messages \cup ReaderMsg, NEW by \in {"consumer", "stats", "holders", "market", "reader"},
         NEW pc \in {"set", "peek", "ttl", "row", "refill", "insert"}
  PROVE  /\ Job(m, by, pc) \in PriceJob
         /\ Job(m, by, pc).msg = m /\ Job(m, by, pc).by = by /\ Job(m, by, pc).pc = pc
  BY DEF Job, PriceJob

LEMMA DeliverKeeps == ASSUME PriceInv, NEW m \in Messages, Deliver(m) PROVE PriceInv'
<1>1. /\ m \in pending /\ pending' = pending \ {m} /\ jobs' = jobs \cup Handlers(m)
      /\ UNCHANGED <<cache, row, events, handled>>
  BY DEF Deliver
<1>2. ASSUME NEW j \in Handlers(m)
      PROVE  /\ j \in PriceJob /\ j.msg = m /\ j.by # "reader"
             /\ j.by = "market" => j.pc = "insert"
             /\ j.pc \in {"set", "peek", "insert"}
             /\ j.pc = "insert" => j.by # "stats" /\ Valid(m.price)
  <2>1. PICK by \in {"consumer", "stats", "holders", "market"}, pc \in {"set", "peek", "insert"} :
          /\ j = Job(m, by, pc)
          /\ by = "market" => pc = "insert"
          /\ pc = "insert" => by = "market" /\ Sane(m.price)
    BY <1>2 DEF Handlers
  <2>2. j \in PriceJob /\ j.msg = m /\ j.by = by /\ j.pc = pc
    BY <2>1, NewJob
  <2> QED
    BY <2>1, <2>2 DEF Sane, Valid
<1>3. ASSUME NEW j \in jobs PROVE j \in PriceJob /\ JobOK(j)'
  BY <1>1 DEF PriceInv, JobsOK, JobOK
<1>4. ASSUME NEW j \in Handlers(m) PROVE JobOK(j)'
  <2>1. m \notin pending'
    BY <1>1
  <2> QED
    BY <1>2, <2>1 DEF JobOK
<1>5. JobsOK'
  BY <1>1, <1>2, <1>3, <1>4 DEF JobsOK
<1>6. CacheOK' /\ EventsOK'
  BY <1>1 DEF PriceInv, CacheOK, EventsOK
<1> QED
  BY <1>5, <1>6 DEF PriceInv

LEMMA ReadKeeps == ASSUME PriceInv, NEW r \in Readers, Read(r) PROVE PriceInv'
<1> DEFINE q == Job([kind |-> r, slot |-> 0, price |-> 0], "reader", "peek")
<1>1. jobs' = jobs \cup {q} /\ UNCHANGED <<cache, row, events, pending, handled>>
  BY DEF Read
<1>2. q \in PriceJob /\ q.by = "reader" /\ q.pc = "peek"
  <2>1. [kind |-> r, slot |-> 0, price |-> 0] \in ReaderMsg
    BY DEF ReaderMsg
  <2> QED
    BY <2>1, NewJob
<1> HIDE DEF q
<1>3. JobsOK'
  BY <1>1, <1>2 DEF PriceInv, JobsOK, JobOK
<1> QED
  BY <1>1, <1>3 DEF PriceInv, CacheOK, EventsOK

LEMMA SetKeeps == ASSUME PriceInv, NEW j \in jobs, Set(j) PROVE PriceInv'
<1>1. /\ j.pc = "set"
      /\ cache' = cache \/ (Accepts(Offer(j), j.msg.native) /\ cache' = Offer(j))
      /\ handled' \subseteq handled \cup {j.msg}
      /\ UNCHANGED <<row, events, pending>>
  BY DEF Set, SetAccepted, SetDropped
<1>2. j \in PriceJob /\ JobOK(j)
  BY DEF PriceInv, JobsOK
<1>3. j.by \in {"consumer", "stats", "holders"} /\ j.msg \in Messages \ pending
  BY <1>1, <1>2, PriceJobFields DEF JobOK
<1>4. CacheOK'
  <2>1. Offer(j) \in CachedPrice /\ Offer(j).life = "fresh" /\ Offer(j).source # "none"
    BY <1>3, MessageFields DEF Offer, CachedPrice, Sources
  <2> QED
    BY <1>1, <2>1 DEF PriceInv, CacheOK
<1>5. JobsOK'
  <2> DEFINE pc == IF j.by = "consumer" THEN "insert" ELSE "peek"
             q == [j EXCEPT !.pc = pc]
  <2>0. pc \in {"set", "peek", "ttl", "row", "refill", "insert"}
    OBVIOUS
  <2>1. Finish(j) \/ (Accepts(Offer(j), j.msg.native) /\ j.by # "stats" /\ jobs' = (jobs \ {j}) \cup {q})
    BY DEF Set, SetAccepted, SetDropped, Goto
  <2>2. CASE Finish(j)
    BY <1>1, <2>2, JobsKeep
  <2>3. CASE Accepts(Offer(j), j.msg.native) /\ j.by # "stats" /\ jobs' = (jobs \ {j}) \cup {q}
    <3>1. Valid(j.msg.price)
      BY <2>3 DEF Accepts, Offer
    <3>2. q \in PriceJob /\ q.pc = pc /\ q.msg = j.msg /\ q.by = j.by
      BY <1>2, <2>0, JobMoves
    <3> HIDE DEF q
    <3>3. JobOK(q)
      BY <1>3, <2>3, <3>1, <3>2 DEF JobOK
    <3> QED
      BY <1>1, <2>3, <3>2, <3>3, JobsKeep
  <2> QED
    BY <2>1, <2>2, <2>3
<1>6. EventsOK'
  BY <1>1, <1>3 DEF PriceInv, EventsOK
<1> QED
  BY <1>4, <1>5, <1>6 DEF PriceInv

LEMMA PeekKeeps == ASSUME PriceInv, NEW j \in jobs, Peek(j) \/ PeekTtl(j) \/ ReadRow(j) PROVE PriceInv'
<1>1. UNCHANGED <<cache, row, events, pending, handled>> /\ j.pc \in {"peek", "ttl", "row"}
  BY DEF Peek, PeekTtl, ReadRow
<1>2. j \in PriceJob /\ JobOK(j) /\ row \in Nat
  BY DEF PriceInv, JobsOK, EventsOK
<1>3. JobsOK'
  <2>1. CASE Finish(j)
    BY <1>1, <2>1, JobsKeep
  <2>2. ASSUME NEW pc \in {"ttl", "row"}, Goto(j, pc) PROVE JobsOK'
    <3> DEFINE q == [j EXCEPT !.pc = pc]
    <3>0. pc \in {"set", "peek", "ttl", "row", "refill", "insert"}
      BY <2>2
    <3>1. q \in PriceJob /\ q.pc = pc /\ q.msg = j.msg /\ q.by = j.by
      BY <1>2, <3>0, JobMoves
    <3>2. jobs' = (jobs \ {j}) \cup {q}
      BY <2>2 DEF Goto
    <3> HIDE DEF q
    <3>3. JobOK(q)
      BY <1>1, <1>2, <2>2, <3>1 DEF JobOK
    <3> QED
      BY <1>1, <3>1, <3>2, <3>3, JobsKeep
  <2>3. CASE Valid(row) /\ jobs' = (jobs \ {j}) \cup {[j EXCEPT !.pc = "refill", !.price = row]}
    <3> DEFINE q == [j EXCEPT !.pc = "refill", !.price = row]
    <3>1. q \in PriceJob /\ q.pc = "refill" /\ q.msg = j.msg /\ q.by = j.by /\ q.price = row
      BY <1>2 DEF PriceJob
    <3>2. JobOK(q)
      BY <1>1, <1>2, <2>3, <3>1 DEF JobOK
    <3> QED
      BY <1>1, <2>3, <3>1, <3>2, JobsKeep
  <2> QED
    BY <2>1, <2>2, <2>3 DEF Peek, PeekTtl, ReadRow
<1> QED
  BY <1>1, <1>3 DEF PriceInv, CacheOK, EventsOK

LEMMA RefillKeeps == ASSUME PriceInv, NEW j \in jobs, Refill(j) PROVE PriceInv'
<1> DEFINE c == [cache EXCEPT !.price = j.price, !.source = "reference-sync", !.life = "fresh"]
<1>1. /\ cache' \in {cache, c} /\ Finish(j)
      /\ UNCHANGED <<row, events, pending, handled>>
  BY DEF Refill
<1>2. j \in PriceJob /\ cache \in CachedPrice
  BY DEF PriceInv, JobsOK, CacheOK
<1>3. c \in CachedPrice /\ c.life = "fresh" /\ c.source = "reference-sync"
  BY <1>2, PriceJobFields DEF CachedPrice, Sources
<1> HIDE DEF c
<1>4. CacheOK'
  BY <1>1, <1>3 DEF PriceInv, CacheOK
<1>5. JobsOK'
  BY <1>1, JobsKeep
<1> QED
  BY <1>1, <1>4, <1>5 DEF PriceInv, EventsOK

LEMMA InsertKeeps == ASSUME PriceInv, NEW j \in jobs, Insert(j) PROVE PriceInv'
<1>1. /\ j.pc = "insert" /\ Finish(j) /\ UNCHANGED <<cache, row, pending>>
      /\ events' = events \cup {[slot |-> j.msg.slot, price |-> j.msg.price]}
      /\ handled' = handled \cup {j.msg}
  BY DEF Insert
<1>2. j.msg \in Messages \ pending /\ Valid(j.msg.price)
  BY <1>1 DEF PriceInv, JobsOK, JobOK
<1>3. EventsOK'
  BY <1>1, <1>2, MessageFields DEF PriceInv, EventsOK
<1>4. JobsOK'
  BY <1>1, JobsKeep
<1> QED
  BY <1>1, <1>3, <1>4 DEF PriceInv, CacheOK

LEMMA AgeKeeps == ASSUME PriceInv, Age PROVE PriceInv' /\ cache'.life # "fresh"
<1> DEFINE c == [cache EXCEPT !.life = "stale"]
<1>1. /\ cache' = IF cache.life = "fresh" THEN c ELSE Absent
      /\ UNCHANGED <<row, events, pending, jobs, handled>>
  BY DEF Age
<1>2. c \in CachedPrice /\ c.life = "stale" /\ c.source = cache.source
  BY DEF PriceInv, CacheOK, CachedPrice
<1> HIDE DEF c
<1>3. CacheOK' /\ cache'.life # "fresh"
  BY <1>1, <1>2, AbsentIsCached DEF PriceInv, CacheOK
<1> QED
  BY <1>1, <1>3 DEF PriceInv, JobsOK, JobOK, EventsOK

LEMMA PersistKeeps == ASSUME PriceInv, PersistLatestPrices PROVE PriceInv'
<1>1. PICK e \in events : row' = e.price
  BY DEF PersistLatestPrices, Newest
<1>2. UNCHANGED <<cache, events, pending, jobs, handled>>
  BY DEF PersistLatestPrices
<1>3. EventsOK'
  BY <1>1, <1>2 DEF PriceInv, EventsOK
<1> QED
  BY <1>2, <1>3 DEF PriceInv, CacheOK, JobsOK, JobOK

LEMMA PriceInvStep == PriceInv /\ [PriceStep]_priceVars => PriceInv'
<1> SUFFICES ASSUME PriceInv, [PriceStep]_priceVars PROVE PriceInv'
  OBVIOUS
<1>1. CASE UNCHANGED priceVars
  BY <1>1 DEF priceVars, PriceInv, CacheOK, JobsOK, JobOK, EventsOK
<1>2. CASE PriceStep
  BY <1>2, DeliverKeeps, ReadKeeps, SetKeeps, PeekKeeps, RefillKeeps, InsertKeeps, AgeKeeps, PersistKeeps DEF PriceStep
<1> QED
  BY <1>1, <1>2

LEMMA PriceInvAlways == PriceSpec => []PriceInv
  BY PriceInvInit, PriceInvStep, PTL DEF PriceSpec

(* The cached price, the row of the token and the jobs under way have      *)
(* their types.                                                            *)
THEOREM PriceTypes == PriceSpec => []PriceTypeOK
<1>1. PriceInv => PriceTypeOK
  BY CacheFields, PriceJobFields DEF PriceInv, CacheOK, JobsOK, JobOK, EventsOK, PriceTypeOK
<1> QED
  BY <1>1, PriceInvAlways, PTL

(* No step replaces a fresh cached price by one of an earlier slot, or by  *)
(* one read from the database before it arrived, for any messages, readers *)
(* and jobs under way.                                                     *)
THEOREM FreshPriceIsAlwaysSlotOrdered == PriceSpec => FreshPriceIsSlotOrdered
<1> DEFINE Ordered == cache.life = "fresh" /\ cache'.life = "fresh" /\ cache' # cache
                        => cache'.slot >= cache.slot /\ cache'.source # "reference-sync"
<1>1. PriceInv /\ [PriceStep]_priceVars => [Ordered]_priceVars
  <2> SUFFICES ASSUME PriceInv, PriceStep PROVE Ordered
    OBVIOUS
  <2>1. ASSUME NEW j \in jobs, Set(j) PROVE Ordered
    <3>1. cache' = cache \/ (cache' = Offer(j) /\ Accepts(Offer(j), j.msg.native))
      BY <2>1 DEF Set, SetAccepted, SetDropped
    <3>2. Offer(j).source # "reference-sync"
      BY DEF Offer
    <3> QED
      BY <3>1, <3>2 DEF Accepts
  <2>2. ASSUME NEW j \in jobs, Refill(j) PROVE Ordered
    BY <2>2 DEF Refill
  <2>3. CASE Age
    BY <2>3, AgeKeeps
  <2>4. CASE cache' = cache
    BY <2>4
  <2> QED
    BY <2>1, <2>2, <2>3, <2>4 DEF PriceStep, Deliver, Read, Peek, PeekTtl, ReadRow, Insert, PersistLatestPrices
<1> QED
  BY <1>1, PriceInvAlways, PTL DEF PriceSpec, FreshPriceIsSlotOrdered

(***************************************************************************)
(* OhlcBuckets.  A persisted candle is a prefix of its bucket and stays,   *)
(* for any trades and calls.                                               *)
(***************************************************************************)
OhlcSpec == OhlcInit /\ [][OhlcStep]_ohlcVars

OhlcCall == [pc : {"idle", "read", "persist", "eval"}, bucket : Buckets \cup {None},
             prev : Buckets \cup {None}, price : Int, bar : Bar]

(* bar is what bucket b once was.                                          *)
PrefixOf(bar, b) ==
  /\ bars[b] # NoBar
  /\ bar.open = bars[b].open /\ bar.high <= bars[b].high /\ bar.volume <= bars[b].volume

OhlcTables ==
  /\ now \in Buckets /\ seen \in Buckets \cup {None} /\ close \in Int
  /\ bars \in [Buckets -> Bar] /\ rows \in [Buckets -> Bar]
  /\ calls \in [Calls -> OhlcCall]

CallOK(c) ==
  /\ calls[c].pc # "idle" => calls[c].bucket \in Buckets
  /\ calls[c].pc \in {"read", "persist"} => calls[c].prev \in Buckets
  /\ calls[c].pc = "persist" => PrefixOf(calls[c].bar, calls[c].prev)

RowsOK == \A b \in Buckets : rows[b] # NoBar => PrefixOf(rows[b], b)

OhlcInv == OhlcTables /\ RowsOK /\ \A c \in Calls : CallOK(c)

LEMMA NoBarIsBar == NoBar \in Bar /\ NoBar.volume = 0
  BY DEF NoBar, Bar, None

LEMMA BarFields ==
  ASSUME NEW bar \in Bar
  PROVE  bar.open \in Int /\ bar.high \in Int /\ bar.low \in Int /\ bar.close \in Int /\ bar.volume \in Nat
  BY DEF Bar

LEMMA CallFields ==
  ASSUME NEW call \in OhlcCall
  PROVE  /\ call.pc \in {"idle", "read", "persist", "eval"} /\ call.price \in Int /\ call.bar \in Bar
         /\ call.bucket \in Buckets \cup {None} /\ call.prev \in Buckets \cup {None}
  BY DEF OhlcCall

LEMMA NoCallIsCall == NoCall \in OhlcCall /\ NoCall.pc = "idle"
  BY NoBarIsBar DEF NoCall, OhlcCall, None

LEMMA ReadyCall ==
  ASSUME NEW call \in OhlcCall
  PROVE  ReadyToFold(call) \in OhlcCall /\ ReadyToFold(call).pc = "eval" /\ ReadyToFold(call).bucket = call.bucket
  BY NoBarIsBar DEF ReadyToFold, OhlcCall

LEMMA OhlcInvInit == OhlcInit => OhlcInv
  BY OhlcAssumption, NoBarIsBar, NoCallIsCall
  DEF OhlcInit, OhlcInv, OhlcTables, RowsOK, CallOK, Buckets, None

(* One call moves; the bars are as they were.                              *)
LEMMA CallsKeep ==
  ASSUME OhlcInv, NEW c \in Calls, NEW q \in OhlcCall, calls' = [calls EXCEPT ![c] = q], bars' = bars,
         q.pc # "idle" => q.bucket \in Buckets,
         q.pc \in {"read", "persist"} => q.prev \in Buckets,
         q.pc = "persist" => PrefixOf(q.bar, q.prev)
  PROVE  calls' \in [Calls -> OhlcCall] /\ \A d \in Calls : CallOK(d)'
<1>1. calls' \in [Calls -> OhlcCall] /\ calls'[c] = q /\ \A d \in Calls : d # c => calls'[d] = calls[d]
  BY DEF OhlcInv, OhlcTables
<1>2. ASSUME NEW d \in Calls PROVE CallOK(d)'
  BY <1>1 DEF OhlcInv, CallOK, PrefixOf
<1> QED
  BY <1>1, <1>2

LEMMA TradeKeeps == ASSUME OhlcInv, NEW c \in Calls, Trade(c) PROVE OhlcInv'
<1> DEFINE stale == seen # None /\ seen # now
           q == [pc |-> IF stale THEN "read" ELSE "eval", bucket |-> now,
                 prev |-> IF stale THEN seen ELSE None, price |-> Prices[Arrived + 1], bar |-> NoBar]
<1>1. /\ Arrived + 1 \in DOMAIN Prices
      /\ calls' = [calls EXCEPT ![c] = q]
      /\ seen' = IF stale THEN seen ELSE now
      /\ UNCHANGED <<now, bars, close, rows>>
  BY DEF Trade
<1>2. Prices[Arrived + 1] \in Int
  BY <1>1, OhlcAssumption
<1>3. now \in Buckets /\ seen \in Buckets \cup {None}
  BY DEF OhlcInv, OhlcTables
<1>4. q \in OhlcCall /\ q.pc \in {"read", "eval"} /\ q.bucket = now /\ (q.pc = "read" => q.prev \in Buckets)
  BY <1>2, <1>3, NoBarIsBar DEF OhlcCall
<1> HIDE DEF q
<1>5. calls' \in [Calls -> OhlcCall] /\ \A d \in Calls : CallOK(d)'
  BY <1>1, <1>3, <1>4, CallsKeep
<1> QED
  BY <1>1, <1>3, <1>5 DEF OhlcInv, OhlcTables, RowsOK, PrefixOf

LEMMA ReadPreviousKeeps == ASSUME OhlcInv, NEW c \in Calls, ReadPrevious(c) PROVE OhlcInv'
<1> DEFINE call == calls[c]
           bar == bars[call.prev]
           q == IF bar = NoBar THEN ReadyToFold(call) ELSE [call EXCEPT !.pc = "persist", !.bar = bar]
<1>1. /\ call.pc = "read"
      /\ calls' = [calls EXCEPT ![c] = q]
      /\ seen' = IF bar = NoBar THEN call.bucket ELSE seen
      /\ UNCHANGED <<now, bars, close, rows>>
  BY DEF ReadPrevious
<1>2. call \in OhlcCall /\ call.bucket \in Buckets /\ call.prev \in Buckets
  BY <1>1 DEF OhlcInv, OhlcTables, CallOK
<1>3. bar \in Bar
  BY <1>2 DEF OhlcInv, OhlcTables
<1>4. /\ q \in OhlcCall /\ q.bucket = call.bucket /\ q.pc \in {"eval", "persist"}
      /\ q.pc = "persist" => q.prev = call.prev /\ q.bar = bar /\ bar # NoBar
  <2>1. CASE bar = NoBar
    BY <1>2, <2>1, ReadyCall
  <2>2. CASE bar # NoBar
    BY <1>2, <1>3, <2>2 DEF OhlcCall
  <2> QED
    BY <2>1, <2>2
<1>5. q.pc = "persist" => PrefixOf(q.bar, q.prev)
  BY <1>3, <1>4, BarFields DEF PrefixOf
<1> HIDE DEF q
<1>6. calls' \in [Calls -> OhlcCall] /\ \A d \in Calls : CallOK(d)'
  BY <1>1, <1>2, <1>4, <1>5, CallsKeep
<1>7. seen' \in Buckets \cup {None}
  BY <1>1, <1>2 DEF OhlcInv, OhlcTables
<1> QED
  BY <1>1, <1>6, <1>7 DEF OhlcInv, OhlcTables, RowsOK, PrefixOf

(* The row of a bucket is kept, or is a prefix of its bars.                *)
LEMMA PersistedKeeps ==
  ASSUME OhlcInv, NEW b \in Buckets, NEW bar \in Bar, PrefixOf(bar, b), rows' \in {rows, Persisted(b, bar)}, bars' = bars
  PROVE  /\ rows' \in [Buckets -> Bar] /\ RowsOK'
         /\ \A d \in Buckets : rows[d] # NoBar => rows'[d] = rows[d]
<1>1. /\ rows' \in [Buckets -> Bar]
      /\ \A d \in Buckets : rows[d] # NoBar => rows'[d] = rows[d]
      /\ \A d \in Buckets : rows'[d] # NoBar => rows'[d] = rows[d] \/ (d = b /\ rows'[d] = bar)
  BY DEF Persisted, OhlcInv, OhlcTables
<1> QED
  BY <1>1 DEF OhlcInv, RowsOK, PrefixOf

LEMMA PersistPreviousKeeps ==
  ASSUME OhlcInv, NEW c \in Calls, PersistPrevious(c)
  PROVE  OhlcInv' /\ bars' = bars /\ \A d \in Buckets : rows[d] # NoBar => rows'[d] = rows[d]
<1> DEFINE call == calls[c]
<1>1. /\ call.pc = "persist" /\ rows' \in {rows, Persisted(call.prev, call.bar)} /\ seen' = call.bucket
      /\ calls' = [calls EXCEPT ![c] = ReadyToFold(call)]
      /\ UNCHANGED <<now, bars, close>>
  BY DEF PersistPrevious
<1>2. call \in OhlcCall /\ call.bucket \in Buckets /\ call.prev \in Buckets /\ PrefixOf(call.bar, call.prev)
  BY <1>1 DEF OhlcInv, OhlcTables, CallOK
<1>3. /\ rows' \in [Buckets -> Bar] /\ RowsOK'
      /\ \A d \in Buckets : rows[d] # NoBar => rows'[d] = rows[d]
  BY <1>1, <1>2, CallFields, PersistedKeeps
<1>4. calls' \in [Calls -> OhlcCall] /\ \A d \in Calls : CallOK(d)'
  BY <1>1, <1>2, ReadyCall, CallsKeep
<1> QED
  BY <1>1, <1>2, <1>3, <1>4 DEF OhlcInv, OhlcTables

LEMMA HigherIs == ASSUME NEW x \in Int, NEW y \in Int PROVE Higher(x, y) \in Int /\ x <= Higher(x, y)
  BY DEF Higher

LEMMA LowerIs == ASSUME NEW x \in Int, NEW y \in Int PROVE Lower(x, y) \in Int
  BY DEF Lower

LEMMA OpenedIsBar == ASSUME OhlcTables, NEW p \in Int PROVE Opened(p) \in Bar
<1> DEFINE open == IF close = None THEN p ELSE close
<1>1. open \in Int
  BY DEF OhlcTables
<1> QED
  BY <1>1, HigherIs, LowerIs DEF Opened, Bar

(* A trade raises the bars of its bucket.                                  *)
LEMMA FoldIs ==
  ASSUME OhlcInv, NEW c \in Calls, Fold(c)
  PROVE  \E new \in Bar :
           /\ bars' = [bars EXCEPT ![calls[c].bucket] = new]
           /\ new # NoBar /\ new.volume > 0
           /\ bars[calls[c].bucket] # NoBar =>
                /\ new.open = bars[calls[c].bucket].open /\ bars[calls[c].bucket].high <= new.high
                /\ bars[calls[c].bucket].volume <= new.volume
<1> DEFINE call == calls[c]
           p == call.price
           b == call.bucket
           old == IF bars[b] = NoBar THEN Opened(p) ELSE bars[b]
           low == IF old.low = 0 THEN p ELSE Lower(old.low, p)
           new == [old EXCEPT !.close = p, !.high = Higher(old.high, p), !.low = low, !.volume = old.volume + 1]
<1>1. call.pc = "eval" /\ bars' = [bars EXCEPT ![b] = new]
  BY DEF Fold
<1>2. call \in OhlcCall /\ p \in Int /\ b \in Buckets
  BY <1>1, CallFields DEF OhlcInv, OhlcTables, CallOK
<1>3. old \in Bar /\ old.high \in Int /\ old.low \in Int /\ old.volume \in Nat
  BY <1>2, OpenedIsBar, BarFields DEF OhlcInv, OhlcTables
<1>4. Higher(old.high, p) \in Int /\ old.high <= Higher(old.high, p) /\ low \in Int
  BY <1>2, <1>3, HigherIs, LowerIs
<1> HIDE DEF old, low
<1>5. /\ new \in Bar /\ new.open = old.open /\ new.high = Higher(old.high, p) /\ new.volume = old.volume + 1
  <2> DEFINE high == Higher(old.high, p)
             n == old.volume + 1
  <2>1. n \in Nat /\ high \in Int
    BY <1>3, <1>4
  <2>2. p \in Int /\ old \in Bar /\ low \in Int
    BY <1>2, <1>3, <1>4
  <2> HIDE DEF p, high, n
  <2>3. LET q == [old EXCEPT !.close = p, !.high = high, !.low = low, !.volume = n]
        IN  q \in Bar /\ q.open = old.open /\ q.high = high /\ q.volume = n
    BY <2>1, <2>2 DEF Bar
  <2> QED
    BY <2>3 DEF high, n
<1> HIDE DEF new
<1>6. new # NoBar /\ (bars[b] # NoBar => new.open = bars[b].open /\ bars[b].high <= new.high /\ bars[b].volume <= new.volume)
  <2>1. new.volume # NoBar.volume
    BY <1>3, <1>5, NoBarIsBar
  <2>2. bars[b] # NoBar => old = bars[b]
    BY DEF old
  <2> QED
    BY <1>3, <1>4, <1>5, <2>1, <2>2
<1>7. new \in Bar /\ new.volume > 0
  BY <1>3, <1>5
<1> QED
  BY <1>1, <1>6, <1>7

(* Whatever was a prefix of a bucket still is one.                         *)
LEMMA FoldKeeps == ASSUME OhlcInv, NEW c \in Calls, Fold(c) PROVE OhlcInv'
<1> DEFINE call == calls[c]
           p == call.price
           b == call.bucket
<1>1. /\ call.pc = "eval" /\ close' = p /\ calls' = [calls EXCEPT ![c] = NoCall]
      /\ UNCHANGED <<now, seen, rows>>
  BY DEF Fold
<1>2. call \in OhlcCall /\ p \in Int /\ b \in Buckets
  BY <1>1, CallFields DEF OhlcInv, OhlcTables, CallOK
<1>5. PICK new \in Bar :
           /\ bars' = [bars EXCEPT ![b] = new]
           /\ new # NoBar
           /\ bars[b] # NoBar => /\ new.open = bars[b].open /\ bars[b].high <= new.high
                                /\ bars[b].volume <= new.volume
  BY FoldIs
<1>7. /\ bars' \in [Buckets -> Bar] /\ bars'[b] = new
      /\ \A d \in Buckets : d # b => bars'[d] = bars[d]
  BY <1>2, <1>5 DEF OhlcInv, OhlcTables
<1> HIDE DEF b
<1>8. ASSUME NEW bar \in Bar, NEW d \in Buckets, PrefixOf(bar, d) PROVE PrefixOf(bar, d)'
  <2>1. CASE d = b
    <3>1. bars[d] \in Bar /\ bars'[d] = new
      BY <1>7, <2>1 DEF OhlcInv, OhlcTables
    <3>2. bars[d].high \in Int /\ bars[d].volume \in Nat /\ new.high \in Int /\ new.volume \in Nat
          /\ bar.high \in Int /\ bar.volume \in Nat
      BY <1>5, <3>1, BarFields
    <3> QED
      BY <1>5, <1>8, <2>1, <3>1, <3>2 DEF PrefixOf
  <2>2. CASE d # b
    BY <1>7, <1>8, <2>2 DEF PrefixOf
  <2> QED
    BY <2>1, <2>2
<1>9. RowsOK'
  BY <1>1, <1>8 DEF OhlcInv, OhlcTables, RowsOK
<1>10. calls' \in [Calls -> OhlcCall] /\ calls'[c] = NoCall /\ \A d \in Calls : d # c => calls'[d] = calls[d]
  BY <1>1, NoCallIsCall DEF OhlcInv, OhlcTables
<1>11. ASSUME NEW d \in Calls PROVE CallOK(d)'
  <2>1. CASE d = c
    BY <1>10, <2>1, NoCallIsCall DEF CallOK
  <2>2. CASE d # c
    <3>1. calls'[d] = calls[d] /\ calls[d] \in OhlcCall /\ CallOK(d)
      BY <1>10, <2>2 DEF OhlcInv, OhlcTables
    <3>2. calls[d].bar \in Bar
      BY <3>1, CallFields
    <3> QED
      BY <1>8, <3>1, <3>2 DEF CallOK
  <2> QED
    BY <2>1, <2>2
<1> QED
  BY <1>1, <1>2, <1>7, <1>9, <1>10, <1>11 DEF OhlcInv, OhlcTables

LEMMA NextBucketKeeps == ASSUME OhlcInv, NextBucket PROVE OhlcInv'
  BY OhlcAssumption DEF NextBucket, OhlcInv, OhlcTables, RowsOK, CallOK, PrefixOf, Buckets

LEMMA FlushStaleKeeps ==
  ASSUME OhlcInv, FlushStale
  PROVE  OhlcInv' /\ bars' = bars /\ \A d \in Buckets : rows[d] # NoBar => rows'[d] = rows[d]
<1>1. PICK b \in Stale : rows' = Persisted(b, bars[b])
  BY DEF FlushStale
<1>2. UNCHANGED <<now, bars, close, seen, calls>>
  BY DEF FlushStale
<1>3. b \in Buckets /\ bars[b] \in Bar /\ PrefixOf(bars[b], b)
  <2>1. b \in Buckets /\ bars[b] \in Bar /\ bars[b] # NoBar
    BY DEF Stale, OhlcInv, OhlcTables
  <2> QED
    BY <2>1, BarFields DEF PrefixOf
<1>4. /\ rows' \in [Buckets -> Bar] /\ RowsOK'
      /\ \A d \in Buckets : rows[d] # NoBar => rows'[d] = rows[d]
  BY <1>1, <1>2, <1>3, PersistedKeeps
<1> QED
  BY <1>2, <1>4 DEF OhlcInv, OhlcTables, CallOK, PrefixOf

LEMMA OhlcInvStep ==
  ASSUME OhlcInv, [OhlcStep]_ohlcVars
  PROVE  OhlcInv' /\ \A d \in Buckets : rows[d] # NoBar => rows'[d] = rows[d]
<1>1. CASE UNCHANGED ohlcVars
  BY <1>1 DEF ohlcVars, OhlcInv, OhlcTables, RowsOK, CallOK, PrefixOf
<1>2. CASE OhlcStep
  <2>1. ASSUME NEW c \in Calls, Trade(c) \/ ReadPrevious(c) \/ Fold(c) PROVE OhlcInv' /\ rows' = rows
    BY <2>1, TradeKeeps, ReadPreviousKeeps, FoldKeeps DEF Trade, ReadPrevious, Fold
  <2>2. CASE NextBucket
    BY <2>2, NextBucketKeeps DEF NextBucket
  <2> QED
    BY <1>2, <2>1, <2>2, PersistPreviousKeeps, FlushStaleKeeps DEF OhlcStep
<1> QED
  BY <1>1, <1>2

LEMMA OhlcInvAlways == OhlcSpec => []OhlcInv
  BY OhlcInvInit, OhlcInvStep, PTL DEF OhlcSpec

(* Only buckets up to now are traded, and what is traded stays traded.     *)
BarsPast ==
  /\ \A b \in Buckets : bars[b] # NoBar => b <= now /\ bars[b].volume > 0
  /\ \A c \in Calls : calls[c].pc # "idle" => calls[c].bucket <= now

LEMMA BarsPastStep ==
  ASSUME OhlcInv, BarsPast, [OhlcStep]_ohlcVars
  PROVE  BarsPast' /\ now <= now' /\ \A b \in Buckets : bars[b] # NoBar => bars'[b] # NoBar
<1>1. now \in Int /\ \A c \in Calls : calls[c] \in OhlcCall
  BY OhlcAssumption DEF OhlcInv, OhlcTables, Buckets
<1>2. CASE UNCHANGED ohlcVars
  BY <1>1, <1>2 DEF ohlcVars, BarsPast
<1>3. ASSUME NEW c \in Calls, Trade(c) PROVE BarsPast' /\ now <= now' /\ bars' = bars
  <2>1. bars' = bars /\ now' = now
        /\ \A d \in Calls : d # c => calls'[d] = calls[d]
    BY <1>3 DEF Trade, OhlcInv, OhlcTables
  <2>2. calls'[c].bucket = now
    BY <1>3 DEF Trade, OhlcInv, OhlcTables
  <2> QED
    BY <1>1, <2>1, <2>2 DEF BarsPast
<1>4. ASSUME NEW c \in Calls, NEW q \in OhlcCall, calls[c].pc # "idle", q.bucket = calls[c].bucket,
             calls' = [calls EXCEPT ![c] = q], bars' = bars, now' = now
      PROVE  BarsPast' /\ now <= now' /\ bars' = bars
  BY <1>1, <1>4 DEF BarsPast, OhlcInv, OhlcTables
<1>5. ASSUME NEW c \in Calls, ReadPrevious(c) PROVE BarsPast' /\ now <= now' /\ bars' = bars
  <2> DEFINE bar == bars[calls[c].prev]
             q == IF bar = NoBar THEN ReadyToFold(calls[c]) ELSE [calls[c] EXCEPT !.pc = "persist", !.bar = bar]
  <2>1. calls[c].pc = "read" /\ calls' = [calls EXCEPT ![c] = q] /\ bars' = bars /\ now' = now
    BY <1>5 DEF ReadPrevious
  <2>2. bar \in Bar
    BY <2>1 DEF OhlcInv, OhlcTables, CallOK
  <2>3. q \in OhlcCall /\ q.bucket = calls[c].bucket
    <3>1. CASE bar = NoBar
      BY <1>1, <3>1, ReadyCall
    <3>2. CASE bar # NoBar
      BY <1>1, <2>2, <3>2 DEF OhlcCall
    <3> QED
      BY <3>1, <3>2
  <2> HIDE DEF q
  <2> QED
    BY <1>4, <2>1, <2>3
<1>6. ASSUME NEW c \in Calls, PersistPrevious(c) PROVE BarsPast' /\ now <= now' /\ bars' = bars
  <2>1. calls[c].pc = "persist" /\ calls' = [calls EXCEPT ![c] = ReadyToFold(calls[c])] /\ bars' = bars /\ now' = now
    BY <1>6 DEF PersistPrevious
  <2> QED
    BY <1>1, <1>4, <2>1, ReadyCall
<1>7. ASSUME NEW c \in Calls, Fold(c)
      PROVE  BarsPast' /\ now <= now' /\ \A b \in Buckets : bars[b] # NoBar => bars'[b] # NoBar
  <2>1. /\ calls[c].pc = "eval" /\ now' = now /\ calls' = [calls EXCEPT ![c] = NoCall]
    BY <1>7 DEF Fold
  <2>2. calls[c].bucket \in Buckets
    BY <2>1 DEF OhlcInv, CallOK
  <2>3. PICK new \in Bar : /\ bars' = [bars EXCEPT ![calls[c].bucket] = new]
                           /\ new # NoBar /\ new.volume > 0
    BY <1>7, FoldIs
  <2>4. calls'[c].pc = "idle" /\ \A d \in Calls : d # c => calls'[d] = calls[d]
    BY <2>1, NoCallIsCall DEF OhlcInv, OhlcTables
  <2>5. bars'[calls[c].bucket] = new /\ \A b \in Buckets : b # calls[c].bucket => bars'[b] = bars[b]
    BY <2>2, <2>3 DEF OhlcInv, OhlcTables
  <2> QED
    BY <1>1, <2>1, <2>2, <2>3, <2>4, <2>5 DEF BarsPast
<1>8. CASE NextBucket
  BY <1>1, <1>8, CallFields, OhlcAssumption DEF NextBucket, BarsPast, Buckets
<1>9. CASE FlushStale
  BY <1>1, <1>9 DEF FlushStale, BarsPast
<1> QED
  BY <1>2, <1>3, <1>5, <1>6, <1>7, <1>8, <1>9 DEF OhlcStep

(* A persisted candle never changes, and the one persisted opens as its    *)
(* bucket does and is neither higher nor of more volume, for any trades,   *)
(* calls and buckets.                                                      *)
THEOREM RowsAreAlwaysFinalPrefixes == OhlcSpec => RowsAreFinalPrefixes
<1> DEFINE Final == \A b \in Buckets :
                      /\ rows[b] # NoBar => rows'[b] = rows[b]
                      /\ rows'[b] # NoBar => /\ rows'[b].open = bars'[b].open
                                             /\ rows'[b].high <= bars'[b].high
                                             /\ rows'[b].volume <= bars'[b].volume
<1>1. OhlcInv /\ [OhlcStep]_ohlcVars => [Final]_ohlcVars
  <2> SUFFICES ASSUME OhlcInv, OhlcStep PROVE Final
    OBVIOUS
  <2>1. OhlcInv' /\ \A d \in Buckets : rows[d] # NoBar => rows'[d] = rows[d]
    BY OhlcInvStep
  <2> QED
    BY <2>1 DEF OhlcInv, RowsOK, PrefixOf
<1> QED
  BY <1>1, OhlcInvAlways, PTL DEF OhlcSpec, RowsAreFinalPrefixes

(* A candle that holds a trade.                                            *)
Shape(bar) == bar.low <= bar.close /\ bar.close <= bar.high /\ bar.open <= bar.high /\ bar.volume > 0

CandlesOK ==
  /\ \A b \in Buckets : (bars[b] # NoBar => Shape(bars[b])) /\ (rows[b] # NoBar => Shape(rows[b]))
  /\ \A c \in Calls : calls[c].pc = "persist" => Shape(calls[c].bar)

(* A trade is in a bar or still with the call that brought it.             *)
Volume == [b \in Buckets |-> bars[b].volume]
Underway == {c \in Calls : calls[c].pc # "idle"}
NoMoreThanPrices == Arrived <= Len(Prices)

LEMMA ArrivedIs ==
  ASSUME OhlcTables
  PROVE  /\ IsFiniteSet(Buckets) /\ IsFiniteSet(Underway)
         /\ \A b \in Buckets : Volume[b] \in Nat
         /\ TotalOf(Volume, Buckets) \in Nat /\ Cardinality(Underway) \in Nat
         /\ Arrived = TotalOf(Volume, Buckets) + Cardinality(Underway)
<1>1. IsFiniteSet(Buckets)
  BY OhlcAssumption, FS_Interval DEF Buckets
<1>2. IsFiniteSet(Underway)
  BY OhlcAssumption, FS_Subset DEF Underway
<1>3. \A b \in Buckets : Volume[b] \in Nat
  BY BarFields DEF Volume, OhlcTables
<1>4. TotalOf(Volume, Buckets) \in Nat
  BY <1>1, <1>3, TotalNat
<1>5. Cardinality(Underway) \in Nat
  BY <1>2, FS_CardinalityType
<1>6. Arrived = TotalOf(Volume, Buckets) + Cardinality(Underway)
  BY DEF Arrived, Volume, Underway, SumFunction, TotalOf
<1> QED BY <1>1, <1>2, <1>3, <1>4, <1>5, <1>6

LEMMA FoldedShape ==
  ASSUME NEW old \in Bar, NEW p \in Int, NEW high \in Int, NEW low \in Int, old.low <= old.high, old.open <= high, p <= high, low <= p
  PROVE  Shape([old EXCEPT !.close = p, !.high = high, !.low = low, !.volume = old.volume + 1])
<1>1. PICK n \in Nat : n = old.volume + 1 /\ n > 0
  BY BarFields
<1>2. PICK q \in Bar : q = [old EXCEPT !.close = p, !.high = high, !.low = low, !.volume = n]
  BY <1>1 DEF Bar
<1>3. q.close = p /\ q.high = high /\ q.low = low /\ q.open = old.open /\ q.volume = n
  BY <1>2 DEF Bar
<1> QED BY <1>1, <1>2, <1>3 DEF Shape

(* The fold of a trade makes one more of its bucket.                       *)
LEMMA FoldCounts ==
  ASSUME OhlcInv, CandlesOK, NEW c \in Calls, Fold(c)
  PROVE  /\ calls[c].pc = "eval" /\ calls[c].bucket \in Buckets
         /\ calls' = [calls EXCEPT ![c] = NoCall]
         /\ \E new \in Bar :
              /\ bars' = [bars EXCEPT ![calls[c].bucket] = new]
              /\ Shape(new) /\ new.volume = bars[calls[c].bucket].volume + 1
<1> DEFINE call == calls[c]
           p == call.price
           b == call.bucket
           old == IF bars[b] = NoBar THEN Opened(p) ELSE bars[b]
           low == IF old.low = 0 THEN p ELSE Lower(old.low, p)
           new == [old EXCEPT !.close = p, !.high = Higher(old.high, p), !.low = low, !.volume = old.volume + 1]
<1>1. call.pc = "eval" /\ bars' = [bars EXCEPT ![b] = new] /\ calls' = [calls EXCEPT ![c] = NoCall]
  BY DEF Fold
<1>2. call \in OhlcCall /\ p \in Int /\ b \in Buckets
  BY <1>1, CallFields DEF OhlcInv, OhlcTables, CallOK
<1>3. old \in Bar /\ old.high \in Int /\ old.low \in Int /\ old.volume \in Nat /\ old.open \in Int
  BY <1>2, OpenedIsBar, BarFields DEF OhlcInv, OhlcTables
<1>4. old.open <= old.high /\ old.low <= old.high /\ old.volume = bars[b].volume
  <2>1. CASE bars[b] = NoBar
    <3> DEFINE open == IF close = None THEN p ELSE close
    <3>1. open \in Int
      BY <1>2 DEF OhlcInv, OhlcTables
    <3>2. old = [open |-> open, high |-> Higher(open, p), low |-> Lower(open, p), close |-> p, volume |-> 0]
      BY <2>1 DEF Opened
    <3>3. old.open = open /\ old.high = Higher(open, p) /\ old.low = Lower(open, p) /\ old.volume = 0
      BY <3>2
    <3>4. open <= Higher(open, p) /\ Lower(open, p) <= Higher(open, p)
      BY <1>2, <3>1 DEF Higher, Lower
    <3> QED BY <2>1, <3>3, <3>4, NoBarIsBar
  <2>2. CASE bars[b] # NoBar
    <3>1. Shape(bars[b]) /\ bars[b] \in Bar /\ old = bars[b]
      BY <1>2, <2>2 DEF CandlesOK, OhlcInv, OhlcTables
    <3>2. \A x, y, z \in Int : x <= y /\ y <= z => x <= z
      OBVIOUS
    <3> QED BY <3>1, <3>2, BarFields DEF Shape
  <2> QED BY <2>1, <2>2
<1> DEFINE high == Higher(old.high, p)
<1>5. /\ high \in Int /\ old.high <= high /\ p <= high
      /\ low \in Int /\ low <= p
  BY <1>2, <1>3 DEF Higher, Lower
<1>6. old.open <= high
  BY <1>3, <1>4, <1>5
<1> HIDE DEF old, low, high, p
<1>7. Shape([old EXCEPT !.close = p, !.high = high, !.low = low, !.volume = old.volume + 1])
  BY <1>2, <1>3, <1>4, <1>5, <1>6, FoldedShape
<1>8. /\ [old EXCEPT !.close = p, !.high = high, !.low = low, !.volume = old.volume + 1] \in Bar
      /\ [old EXCEPT !.close = p, !.high = high, !.low = low, !.volume = old.volume + 1].volume = old.volume + 1
  <2>1. PICK n \in Nat : n = old.volume + 1
    BY <1>3
  <2>2. /\ [old EXCEPT !.close = p, !.high = high, !.low = low, !.volume = n] \in Bar
        /\ [old EXCEPT !.close = p, !.high = high, !.low = low, !.volume = n].volume = n
    BY <1>2, <1>3, <1>5 DEF Bar
  <2> QED BY <2>1, <2>2
<1>9. new = [old EXCEPT !.close = p, !.high = high, !.low = low, !.volume = old.volume + 1]
  BY DEF high
<1> HIDE DEF new
<1> QED BY <1>1, <1>2, <1>4, <1>7, <1>8, <1>9

(* A trade waits for the candle before it or for its own.                  *)
LEMMA TradesCall ==
  ASSUME NEW c \in Calls, Trade(c)
  PROVE  \E q : calls' = [calls EXCEPT ![c] = q] /\ q.pc \in {"read", "eval"}
<1> DEFINE stale == seen # None /\ seen # now
           pc == IF stale THEN "read" ELSE "eval"
           prev == IF stale THEN seen ELSE None
           q == [pc |-> pc, bucket |-> now, prev |-> prev, price |-> Prices[Arrived + 1], bar |-> NoBar]
<1>1. calls' = [calls EXCEPT ![c] = q]
  BY DEF Trade
<1>2. pc \in {"read", "eval"} /\ q.pc = pc
  OBVIOUS
<1> HIDE DEF q
<1> QED BY <1>1, <1>2

LEMMA CandlesStep == OhlcInv /\ CandlesOK /\ [OhlcStep]_ohlcVars => CandlesOK'
<1> SUFFICES ASSUME OhlcInv, CandlesOK, [OhlcStep]_ohlcVars PROVE CandlesOK'
  OBVIOUS
<1>1. ASSUME NEW c \in Calls, NEW q, calls' = [calls EXCEPT ![c] = q], UNCHANGED <<bars, rows>>,
             q.pc = "persist" => Shape(q.bar)
      PROVE  CandlesOK'
  <2>1. calls'[c] = q /\ \A d \in Calls : d # c => calls'[d] = calls[d]
    BY <1>1 DEF OhlcInv, OhlcTables
  <2> QED BY <1>1, <2>1 DEF CandlesOK
<1>2. ASSUME NEW c \in Calls, Trade(c) PROVE CandlesOK'
  <2>1. PICK q : calls' = [calls EXCEPT ![c] = q] /\ q.pc \in {"read", "eval"}
    BY <1>2, TradesCall
  <2> QED BY <1>1, <1>2, <2>1 DEF Trade
<1>3. ASSUME NEW c \in Calls, ReadPrevious(c) PROVE CandlesOK'
  <2>1. calls[c] \in OhlcCall /\ calls[c].prev \in Buckets
    BY <1>3 DEF ReadPrevious, OhlcInv, OhlcTables, CallOK
  <2>2. CASE bars[calls[c].prev] = NoBar
    <3>1. calls' = [calls EXCEPT ![c] = ReadyToFold(calls[c])]
      BY <1>3, <2>2 DEF ReadPrevious
    <3> QED BY <1>1, <1>3, <2>1, <3>1, ReadyCall DEF ReadPrevious
  <2>3. CASE bars[calls[c].prev] # NoBar
    <3> DEFINE q == [calls[c] EXCEPT !.pc = "persist", !.bar = bars[calls[c].prev]]
    <3>1. calls' = [calls EXCEPT ![c] = q]
      BY <1>3, <2>3 DEF ReadPrevious
    <3>2. q.bar = bars[calls[c].prev] /\ Shape(bars[calls[c].prev])
      BY <2>1, <2>3 DEF OhlcCall, CandlesOK
    <3> HIDE DEF q
    <3> QED BY <1>1, <1>3, <3>1, <3>2 DEF ReadPrevious
  <2> QED BY <2>2, <2>3
<1>4. ASSUME NEW b \in Buckets, NEW bar \in Bar, Shape(bar), rows' \in {rows, Persisted(b, bar)}
      PROVE  \A d \in Buckets : rows'[d] # NoBar => Shape(rows'[d])
  BY <1>4 DEF Persisted, CandlesOK, OhlcInv, OhlcTables
<1>5. ASSUME NEW c \in Calls, PersistPrevious(c) PROVE CandlesOK'
  <2>1. calls[c] \in OhlcCall /\ calls[c].prev \in Buckets /\ calls[c].bar \in Bar /\ Shape(calls[c].bar)
    BY <1>5, CallFields DEF PersistPrevious, OhlcInv, OhlcTables, CallOK, CandlesOK
  <2>2. /\ rows' \in {rows, Persisted(calls[c].prev, calls[c].bar)} /\ bars' = bars
        /\ calls' = [calls EXCEPT ![c] = ReadyToFold(calls[c])]
    BY <1>5 DEF PersistPrevious
  <2>3. \A d \in Buckets : rows'[d] # NoBar => Shape(rows'[d])
    BY <1>4, <2>1, <2>2
  <2>4. calls'[c].pc = "eval" /\ \A d \in Calls : d # c => calls'[d] = calls[d]
    BY <2>1, <2>2, ReadyCall DEF OhlcInv, OhlcTables
  <2> QED BY <2>2, <2>3, <2>4 DEF CandlesOK
<1>6. ASSUME NEW c \in Calls, Fold(c) PROVE CandlesOK'
  <2>1. PICK b \in Buckets, new \in Bar : bars' = [bars EXCEPT ![b] = new] /\ Shape(new)
    BY <1>6, FoldCounts
  <2>2. calls' = [calls EXCEPT ![c] = NoCall] /\ rows' = rows
    BY <1>6 DEF Fold
  <2>3. \A d \in Buckets : bars'[d] # NoBar => Shape(bars'[d])
    BY <2>1 DEF CandlesOK, OhlcInv, OhlcTables
  <2>4. calls'[c].pc = "idle" /\ \A d \in Calls : d # c => calls'[d] = calls[d]
    BY <2>2, NoCallIsCall DEF OhlcInv, OhlcTables
  <2> QED BY <2>2, <2>3, <2>4 DEF CandlesOK
<1>7. CASE NextBucket
  BY <1>7 DEF NextBucket, CandlesOK
<1>8. CASE FlushStale
  <2>1. PICK b \in Stale : rows' = Persisted(b, bars[b])
    BY <1>8 DEF FlushStale
  <2>2. b \in Buckets /\ bars[b] \in Bar /\ Shape(bars[b])
    BY <2>1 DEF Stale, CandlesOK, OhlcInv, OhlcTables
  <2>3. \A d \in Buckets : rows'[d] # NoBar => Shape(rows'[d])
    BY <1>4, <2>1, <2>2
  <2> QED BY <1>8, <2>3 DEF FlushStale, CandlesOK
<1>9. CASE UNCHANGED ohlcVars
  BY <1>9 DEF ohlcVars, CandlesOK
<1> QED BY <1>2, <1>3, <1>5, <1>6, <1>7, <1>8, <1>9 DEF OhlcStep

LEMMA ArrivedStays ==
  ASSUME OhlcInv, UNCHANGED bars, Underway' = Underway PROVE Arrived' = Arrived
BY DEF Arrived, Underway

(* Only a trade that arrives counts.                                       *)
LEMMA ArrivedStep ==
  OhlcInv /\ CandlesOK /\ NoMoreThanPrices /\ [OhlcStep]_ohlcVars => NoMoreThanPrices'
<1> SUFFICES ASSUME OhlcInv, CandlesOK, NoMoreThanPrices, [OhlcStep]_ohlcVars PROVE NoMoreThanPrices'
  OBVIOUS
<1>0. OhlcInv' /\ OhlcTables /\ OhlcTables'
  BY OhlcInvStep DEF OhlcInv
<1>1. /\ Arrived = TotalOf(Volume, Buckets) + Cardinality(Underway)
      /\ TotalOf(Volume, Buckets) \in Nat /\ Cardinality(Underway) \in Nat
      /\ \A b \in Buckets : Volume[b] \in Nat
      /\ IsFiniteSet(Buckets) /\ IsFiniteSet(Underway)
  BY <1>0, ArrivedIs
<1>2. /\ Arrived' = TotalOf(Volume', Buckets) + Cardinality(Underway')
      /\ \A b \in Buckets : Volume'[b] \in Nat
  <2>1. (OhlcTables => /\ Arrived = TotalOf(Volume, Buckets) + Cardinality(Underway)
                       /\ \A b \in Buckets : Volume[b] \in Nat)'
    BY ArrivedIs, PTL
  <2> QED BY <1>0, <2>1 DEF Buckets
<1>3. ASSUME UNCHANGED bars, Underway' = Underway PROVE NoMoreThanPrices'
  BY <1>3, ArrivedStays DEF NoMoreThanPrices
<1>4. ASSUME NEW c \in Calls, NEW q, calls[c].pc # "idle", q.pc # "idle", calls' = [calls EXCEPT ![c] = q]
      PROVE  Underway' = Underway
  BY <1>0, <1>4 DEF Underway, OhlcTables
<1>5. ASSUME NEW c \in Calls, Trade(c) PROVE NoMoreThanPrices'
  <2>1. PICK q : calls' = [calls EXCEPT ![c] = q] /\ q.pc \in {"read", "eval"}
    BY <1>5, TradesCall
  <2>2. Underway' = Underway \cup {c} /\ c \notin Underway
    BY <1>0, <1>5, <2>1 DEF Trade, Underway, OhlcTables
  <2>3. Cardinality(Underway') = Cardinality(Underway) + 1
    BY <1>1, <2>2, FS_AddElement
  <2>4. Volume' = Volume
    BY <1>5 DEF Trade, Volume
  <2>5. Arrived' = Arrived + 1 /\ Arrived \in Nat
    BY <1>1, <1>2, <2>3, <2>4
  <2>6. Arrived + 1 \in DOMAIN Prices
    BY <1>5 DEF Trade
  <2> QED BY <2>5, <2>6, OhlcAssumption DEF NoMoreThanPrices
<1>6. ASSUME NEW c \in Calls, ReadPrevious(c) PROVE NoMoreThanPrices'
  <2>1. calls[c] \in OhlcCall /\ calls[c].pc = "read"
    BY <1>0, <1>6 DEF ReadPrevious, OhlcTables
  <2>2. PICK q : calls' = [calls EXCEPT ![c] = q] /\ q.pc # "idle"
    <3>1. CASE bars[calls[c].prev] = NoBar
      BY <1>6, <2>1, <3>1, ReadyCall DEF ReadPrevious
    <3>2. CASE bars[calls[c].prev] # NoBar
      <4>1. [calls[c] EXCEPT !.pc = "persist", !.bar = bars[calls[c].prev]].pc = "persist"
        BY <2>1 DEF OhlcCall
      <4> QED BY <1>6, <3>2, <4>1 DEF ReadPrevious
    <3> QED BY <3>1, <3>2
  <2> QED BY <1>3, <1>4, <1>6, <2>1, <2>2 DEF ReadPrevious
<1>7. ASSUME NEW c \in Calls, PersistPrevious(c) PROVE NoMoreThanPrices'
  <2>1. calls[c] \in OhlcCall /\ calls[c].pc = "persist"
    BY <1>0, <1>7 DEF PersistPrevious, OhlcTables
  <2> QED BY <1>3, <1>4, <1>7, <2>1, ReadyCall DEF PersistPrevious
<1>8. ASSUME NEW c \in Calls, Fold(c) PROVE NoMoreThanPrices'
  <2>1. PICK b \in Buckets, new \in Bar :
          bars' = [bars EXCEPT ![b] = new] /\ new.volume = bars[b].volume + 1
    BY <1>8, FoldCounts
  <2>2. calls[c].pc = "eval" /\ calls' = [calls EXCEPT ![c] = NoCall]
    BY <1>8, FoldCounts
  <2>3. c \in Underway /\ Underway' = Underway \ {c}
    BY <1>0, <2>2, NoCallIsCall DEF Underway, OhlcTables
  <2>4. Cardinality(Underway') = Cardinality(Underway) - 1
    BY <1>1, <2>3, FS_RemoveElement
  <2> DEFINE R == Buckets \ {b}
  <2>5. IsFiniteSet(R) /\ b \notin R /\ R \cup {b} = Buckets
    BY <1>1, FS_Subset
  <2>6. Volume'[b] = Volume[b] + 1 /\ \A d \in R : Volume'[d] = Volume[d]
    BY <1>0, <2>1 DEF Volume, OhlcTables, Buckets
  <2>7. \A d \in R \cup {b} : Volume[d] \in Int /\ Volume'[d] \in Int
    BY <1>1, <1>2, <2>5
  <2> HIDE DEF R
  <2>8. TotalOf(Volume, R \cup {b}) = Volume[b] + TotalOf(Volume, R) /\ TotalOf(Volume, R) \in Int
    BY <2>5, <2>7, TotalMore
  <2>9. TotalOf(Volume', R \cup {b}) = Volume'[b] + TotalOf(Volume', R)
    <3> DEFINE w == Volume'
    <3>1. \A d \in R \cup {b} : w[d] \in Int
      BY <2>7
    <3> HIDE DEF w
    <3>2. TotalOf(w, R \cup {b}) = w[b] + TotalOf(w, R)
      BY <2>5, <3>1, TotalMore
    <3> QED BY <3>2 DEF w
  <2>10. TotalOf(Volume', R) = TotalOf(Volume, R)
    <3> DEFINE w == Volume'
               v == Volume
    <3>1. \A d \in R : w[d] = v[d]
      BY <2>6
    <3> HIDE DEF w, v
    <3>2. TotalOf(w, R) = TotalOf(v, R)
      BY <2>5, <3>1, TotalSame
    <3> QED BY <3>2 DEF w, v
  <2>11. TotalOf(Volume', Buckets) = TotalOf(Volume, Buckets) + 1
    <3>1. PICK x \in Int, y \in Int : x = TotalOf(Volume, R) /\ y = Volume[b]
      BY <2>7, <2>8
    <3>2. TotalOf(Volume, Buckets) = y + x
      BY <2>5, <2>8, <3>1
    <3>3. TotalOf(Volume', Buckets) = (y + 1) + x
      BY <2>5, <2>6, <2>9, <2>10, <3>1
    <3> QED BY <3>2, <3>3
  <2>12. Arrived' = Arrived
    <3>1. PICK v \in Nat, u \in Nat : v = TotalOf(Volume, Buckets) /\ u = Cardinality(Underway)
      BY <1>1
    <3>2. Arrived = v + u /\ Arrived' = (v + 1) + (u - 1)
      BY <1>1, <1>2, <2>4, <2>11, <3>1
    <3> QED BY <3>2
  <2> QED BY <2>12 DEF NoMoreThanPrices
<1>9. CASE NextBucket \/ FlushStale \/ UNCHANGED ohlcVars
  BY <1>3, <1>9 DEF NextBucket, FlushStale, ohlcVars, Underway
<1> QED BY <1>5, <1>6, <1>7, <1>8, <1>9 DEF OhlcStep

(* The bars, the rows and the calls have their types: a candle holds its   *)
(* open and its close, and no more trades than arrived, for any prices,    *)
(* calls and buckets.                                                      *)
THEOREM OhlcTypes == OhlcSpec => []OhlcTypeOK
<1>1. OhlcInit => BarsPast /\ CandlesOK /\ NoMoreThanPrices
  <2> SUFFICES ASSUME OhlcInit PROVE BarsPast /\ CandlesOK /\ NoMoreThanPrices
    OBVIOUS
  <2>1. BarsPast /\ CandlesOK
    BY DEF OhlcInit, BarsPast, CandlesOK, NoCall
  <2>2. OhlcTables
    BY OhlcInvInit DEF OhlcInv
  <2>3. Underway = {} /\ \A b \in Buckets : Volume[b] = 0
    BY DEF OhlcInit, Underway, NoCall, Volume, NoBar
  <2>4. TotalOf(Volume, Buckets) = 0
    <3>1. \A b \in Buckets : Volume[b] \in Int
      BY <2>3
    <3>2. {} \in SUBSET Buckets /\ \A b \in Buckets \ {} : Volume[b] = 0
      BY <2>3
    <3>3. IsFiniteSet(Buckets)
      BY <2>2, ArrivedIs
    <3>4. TotalOf(Volume, Buckets) = TotalOf(Volume, {})
      BY <3>1, <3>2, <3>3, TotalZeros
    <3> QED BY <3>4, TotalNone
  <2>5. Arrived = 0
    BY <2>2, <2>3, <2>4, ArrivedIs, FS_EmptySet
  <2>6. NoMoreThanPrices
    BY <2>5, OhlcAssumption DEF NoMoreThanPrices
  <2> QED BY <2>1, <2>6
<1>2. OhlcSpec => [](OhlcInv /\ BarsPast /\ CandlesOK /\ NoMoreThanPrices)
  BY <1>1, OhlcInvInit, OhlcInvStep, BarsPastStep, CandlesStep, ArrivedStep, PTL DEF OhlcSpec
<1>3. OhlcInv /\ BarsPast /\ CandlesOK /\ NoMoreThanPrices => OhlcTypeOK
  <2> SUFFICES ASSUME OhlcInv, BarsPast, CandlesOK, NoMoreThanPrices PROVE OhlcTypeOK
    OBVIOUS
  <2>1. Len(Prices) \in Nat /\ OhlcTables
    BY OhlcAssumption DEF OhlcInv
  <2>2. ASSUME NEW b \in Buckets PROVE bars[b].volume \in Nat /\ bars[b].volume <= Len(Prices)
    <3>1. Volume[b] \in Nat /\ Volume[b] = bars[b].volume
      BY <2>1, ArrivedIs DEF Volume
    <3>2. Volume[b] <= TotalOf(Volume, Buckets)
      <4>1. IsFiniteSet(Buckets) /\ \A m \in Buckets : Volume[m] \in Nat
        BY <2>1, ArrivedIs
      <4> DEFINE f == [x \in {b} |-> x]
      <4>2. /\ IsFiniteSet({b})
            /\ \A x \in {b} : f[x] \in Buckets /\ Volume[x] = Volume[f[x]]
            /\ \A x, y \in {b} : f[x] = f[y] => x = y
        BY FS_Singleton
      <4> HIDE DEF f
      <4>3. TotalOf(Volume, {b}) <= TotalOf(Volume, Buckets)
        BY <4>1, <4>2, TotalInjection
      <4>4. TotalOf(Volume, {} \cup {b}) = Volume[b] + TotalOf(Volume, {})
        BY <3>1, FS_EmptySet, TotalMore
      <4>5. {} \cup {b} = {b}
        OBVIOUS
      <4> QED BY <3>1, <4>3, <4>4, <4>5, TotalNone
    <3>3. TotalOf(Volume, Buckets) <= Len(Prices)
      BY <2>1, ArrivedIs DEF NoMoreThanPrices
    <3>4. TotalOf(Volume, Buckets) \in Nat
      BY <2>1, ArrivedIs
    <3> QED BY <2>1, <3>1, <3>2, <3>3, <3>4
  <2>3. ASSUME NEW b \in Buckets, NEW bar \in {bars[b], rows[b]}, bar # NoBar
        PROVE  /\ bar.low <= bar.close /\ bar.close <= bar.high /\ bar.open <= bar.high
               /\ bar.volume \in 1..Len(Prices)
    <3>1. bar \in Bar /\ bar.volume \in Nat /\ Shape(bar)
      BY <2>1, <2>3, BarFields DEF OhlcTables, CandlesOK
    <3>2. bar.volume <= bars[b].volume
      BY <2>2, <2>3 DEF OhlcInv, RowsOK, PrefixOf
    <3> QED BY <2>1, <2>2, <3>1, <3>2 DEF Shape
  <2>4. \A c \in Calls : calls[c].pc \in {"idle", "read", "persist", "eval"}
    BY <2>1, CallFields DEF OhlcTables
  <2> QED BY <2>1, <2>3, <2>4 DEF BarsPast, OhlcTables, OhlcTypeOK
<1> QED BY <1>2, <1>3, PTL

(***************************************************************************)
(* TokenCharts.  A chart has every bucket it owes and its bars join, for   *)
(* any windows, limits, answers of CoinGecko and writers.                  *)
(***************************************************************************)
ChartSpec ==
  /\ ChartInit /\ OhlcInit
  /\ [][(ChartStep /\ UNCHANGED ohlcVars) \/ (OhlcStep /\ UNCHANGED chartVars)]_<<ohlcVars, chartVars>>

LEMMA BucketIs ==
  ASSUME NEW t \in Nat
  PROVE  BucketOf(t) \in Nat /\ 2 * BucketOf(t) <= t /\ t <= 2 * BucketOf(t) + 1
  BY DEF BucketOf

LEMMA BucketOfStart == ASSUME NEW b \in Nat PROVE 2 * b \in Nat /\ BucketOf(2 * b) = b
  BY DEF BucketOf

LEMMA LeastCandle ==
  ASSUME NEW S \in SUBSET Nat, S # {}
  PROVE  Min(S) \in S /\ \A t \in S : Min(S) <= t
  BY LeastOf, Zenon DEF Min

(* The latest candle no later than a bucket.                               *)
LEMMA LatestCandle ==
  ASSUME NEW D \in SUBSET Nat, NEW b \in Nat, NEW u \in D, BucketOf(u) <= b
  PROVE  LET S == {t \in D : BucketOf(t) <= b}
         IN  Max(S) \in S /\ \A t \in S : t <= Max(S)
<1> DEFINE S == {t \in D : BucketOf(t) <= b}
           n == 2 * b + 1
           T == {n - t : t \in S}
<1>1. S \in SUBSET Nat /\ u \in S /\ n \in Nat
  <2>1. u \in S
    OBVIOUS
  <2>2. S \subseteq D
    OBVIOUS
  <2>3. n \in Nat
    OBVIOUS
  <2> QED
    BY <2>1, <2>2, <2>3
<1>2. \A t \in S : t <= n
  BY BucketIs
<1> HIDE DEF n, S
<1>3. T \in SUBSET Nat /\ T # {}
  BY <1>1, <1>2
<1>4. PICK v \in T : \A w \in T : v <= w
  BY <1>3, LeastOf, Zenon
<1>5. PICK x \in S : v = n - x
  OBVIOUS
<1>6. \A t \in S : n - x <= n - t
  BY <1>4, <1>5
<1>7. \E z \in S : \A t \in S : z >= t
  BY <1>1, <1>6
<1>8. Max(S) \in S /\ \A t \in S : Max(S) >= t
  BY <1>7, Zenon DEF Max
<1>9. S \subseteq Nat
  BY <1>1
<1> QED
  BY <1>8, <1>9 DEF S

Flat(p) == [NoBar EXCEPT !.open = p, !.high = p, !.low = p, !.close = p]

LEMMA FlatIs == ASSUME NEW p \in Int PROVE Flat(p) \in Bar /\ Flat(p).open = p /\ Flat(p).close = p
  BY NoBarIsBar DEF Flat, Bar

LEMMA OpenedAt == ASSUME NEW bar \in Bar, NEW p
                  PROVE  LET q == [bar EXCEPT !.open = p]
                         IN  q.open = p /\ q.close = bar.close /\ q.volume = bar.volume
  BY DEF Bar

(* A chart has one bar for every bucket up to its end, its bars join, and  *)
(* a bucket with a candle shows its latest.                                *)
LEMMA FilledIs ==
  ASSUME NEW candles, NEW limit \in Nat \ {0}, NEW end \in Nat,
         IsCandles(candles), DOMAIN candles # {}, \A t \in DOMAIN candles : BucketOf(t) <= end
  PROVE  LET shown == Filled(candles, limit, end)
             start == Higher(BucketOf(Min(DOMAIN candles)), end - (limit - 1))
         IN  /\ start \in Nat /\ start <= end /\ end - limit < start
             /\ DOMAIN shown = start..end
             /\ \A b \in start..end : b # start => shown[b].open = shown[b - 1].close
             /\ \A b \in start..end : \A u \in DOMAIN candles :
                  BucketOf(u) = b /\ (\A t \in DOMAIN candles : BucketOf(t) = b => t <= u)
                    => shown[b].volume = candles[u].volume
<1> DEFINE D == DOMAIN candles
           first == BucketOf(Min(D))
           start == Higher(first, end - (limit - 1))
           shows(b) == {t \in D : BucketOf(t) = b}
           latest(b) == candles[Max({t \in D : BucketOf(t) <= b})]
           bar(b) == IF shows(b) = {} THEN Flat(latest(b).close) ELSE latest(b)
           shown == [b \in start..end |-> IF b = start THEN bar(b) ELSE [bar(b) EXCEPT !.open = bar(b - 1).close]]
<1>1. Filled(candles, limit, end) = shown
  BY DEF Filled, Flat
<1>2. D \in SUBSET Nat /\ D # {} /\ \A t \in D : candles[t] \in Bar
  BY DEF IsCandles
<1>3. Min(D) \in D
  BY <1>2, LeastCandle
<1>4. first \in Nat /\ first <= end
  BY <1>2, <1>3, BucketIs
<1>5. start \in Nat /\ start <= end /\ first <= start /\ end - limit < start
  BY <1>4 DEF Higher
<1> HIDE DEF first, start
<1>6. ASSUME NEW b \in start..end
      PROVE  LET S == {t \in D : BucketOf(t) <= b}
             IN  Max(S) \in S /\ \A t \in S : t <= Max(S)
  <2>1. b \in Nat /\ BucketOf(Min(D)) <= b
    BY <1>4, <1>5 DEF first
  <2> QED
    BY <1>2, <1>3, <2>1, LatestCandle
<1>7. ASSUME NEW b \in start..end PROVE bar(b) \in Bar
  <2>1. latest(b) \in Bar
    BY <1>2, <1>6
  <2> HIDE DEF latest
  <2>2. Flat(latest(b).close) \in Bar
    BY <2>1, BarFields, FlatIs
  <2> QED
    BY <2>1, <2>2
<1>8. ASSUME NEW b \in start..end, NEW u \in D, BucketOf(u) = b, \A t \in D : BucketOf(t) = b => t <= u
      PROVE  bar(b) = candles[u]
  <2> DEFINE m == Max({t \in D : BucketOf(t) <= b})
  <2>1. m \in D /\ BucketOf(m) <= b /\ u <= m
    BY <1>6, <1>8
  <2> HIDE DEF m
  <2>2. u \in Nat /\ m \in Nat
    BY <1>2, <2>1
  <2>3. BucketOf(m) = b
    <3>1. BucketOf(u) \in Nat /\ 2 * BucketOf(u) <= u
      BY <2>2, BucketIs
    <3>2. BucketOf(m) \in Nat /\ m <= 2 * BucketOf(m) + 1
      BY <2>2, BucketIs
    <3>3. BucketOf(u) <= BucketOf(m) /\ BucketOf(m) <= BucketOf(u)
      BY <1>8, <2>1, <2>2, <3>1, <3>2
    <3> QED
      BY <1>8, <3>1, <3>2, <3>3
  <2>4. m <= u
    BY <1>8, <2>1, <2>3, Zenon
  <2>5. m = u
    BY <2>1, <2>2, <2>4
  <2>6. shows(b) # {}
    BY <1>8
  <2> QED
    BY <2>5, <2>6, Zenon DEF m
<1> HIDE DEF bar
<1>9. \A b \in start..end : /\ shown[b].close = bar(b).close /\ shown[b].volume = bar(b).volume
                            /\ b # start => shown[b].open = bar(b - 1).close
  BY <1>7, OpenedAt
<1>10. \A b \in start..end : b # start => b - 1 \in start..end
  BY <1>5
<1>11. DOMAIN shown = start..end
  BY Zenon
<1> HIDE DEF shown
<1>12. \A b \in start..end : b # start => shown[b].open = shown[b - 1].close
  BY <1>9, <1>10
<1>13. \A b \in start..end : \A u \in D :
         BucketOf(u) = b /\ (\A t \in D : BucketOf(t) = b => t <= u) => shown[b].volume = candles[u].volume
  BY <1>8, <1>9
<1> QED
  BY <1>1, <1>5, <1>11, <1>12, <1>13 DEF start, first

LEMMA NoCandlesIs == IsCandles(NoCandles) /\ DOMAIN NoCandles = {}
  BY DEF IsCandles, NoCandles

LEMMA EmptyIsNoCandles == ASSUME NEW f, IsCandles(f), DOMAIN f = {} PROVE f = NoCandles
  BY DEF IsCandles, NoCandles

LEMMA MergeIs ==
  ASSUME NEW f, NEW g, IsCandles(f), IsCandles(g)
  PROVE  /\ IsCandles(Merged(f, g)) /\ DOMAIN Merged(f, g) = DOMAIN f \cup DOMAIN g
         /\ \A t \in DOMAIN f : Merged(f, g)[t] = f[t]
  BY DEF IsCandles, Merged

LEMMA WithinIs ==
  ASSUME NEW f, IsCandles(f), NEW from, NEW to
  PROVE  /\ IsCandles(Within(f, from, to)) /\ DOMAIN Within(f, from, to) \subseteq DOMAIN f
         /\ \A t \in DOMAIN Within(f, from, to) : t <= to
  BY DEF IsCandles, Within

ChartFields == {"stage", "from", "to", "limit", "end", "redis", "rows", "shown", "seed", "then", "gone"}
ChartStages == {"idle", "redis", "rows", "marker", "ask", "insert", "reread", "done"}

Past(candles, n) == \A t \in DOMAIN candles : BucketOf(t) <= n

(* What a request still owes: the buckets of its window traded when it was *)
(* asked for and found unexpired.                                          *)
Owed(q) == {b \in q.then \ q.gone : /\ BucketOf(q.from) <= b /\ b <= BucketOf(q.to)
                                    /\ BucketOf(q.to) - q.limit < b}

(* What Redis answered starts a bucket each and has all that is owed.      *)
RedisRight(q) ==
  /\ \A t \in DOMAIN q.redis : t = 2 * BucketOf(t) /\ t <= q.to /\ q.redis[t].volume > 0
  /\ \A b \in Owed(q) : 2 * b \in DOMAIN q.redis

(* What a request holds at bucket n of time.                               *)
RequestTypes(q, n) ==
  /\ DOMAIN q = ChartFields /\ q.stage \in ChartStages
  /\ q.from \in Nat /\ q.to \in Nat /\ q.from <= q.to /\ q.limit \in Nat \ {0}
  /\ IsCandles(q.redis) /\ Past(q.redis, n)
  /\ IsCandles(q.rows) /\ Past(q.rows, n) /\ \A t \in DOMAIN q.rows : t <= q.to
  /\ q.then \subseteq Buckets /\ q.seed \in BOOLEAN

(* Nothing is shown before the answer or where a flat chart is to come; a  *)
(* request of a short interval has what Redis had once it is past it.      *)
RequestRight(q, kind) ==
  /\ q.stage # "done" => q.seed = FALSE /\ DOMAIN q.shown = {}
  /\ q.seed = TRUE => DOMAIN q.shown = {}
  /\ kind = "realtime" =>
       /\ q.stage \in {"idle", "redis", "rows", "done"}
       /\ q.stage \in {"rows", "done"} => RedisRight(q)
       /\ q.seed = TRUE => DOMAIN q.redis = {}

(* ChartIsWhole, of any request.                                           *)
Whole(q, kind) ==
  q.stage = "done" /\ DOMAIN q.shown # {} =>
    LET shown == q.shown
        S == DOMAIN shown
        traded == {b \in q.then \ q.gone :
                     BucketOf(q.from) <= b /\ BucketOf(q.to) - q.limit < b /\ b <= q.end}
    IN  /\ Cardinality(S) <= q.limit /\ q.end \in S /\ Max(S) = q.end
        /\ \A b \in S \ {Min(S)} : b - 1 \in S /\ shown[b].open = shown[b - 1].close
        /\ kind = "realtime" =>
             /\ traded \subseteq S
             /\ \A b \in S : 2 * b \in DOMAIN q.redis => shown[b].volume = q.redis[2 * b].volume
             /\ \A b \in traded : shown[b].volume > 0

ChartInv ==
  /\ OhlcInv /\ BarsPast
  /\ interval \in {"realtime", "long"} /\ backfilled \in BOOLEAN
  /\ IsCandles(longRows) /\ Past(longRows, now)
  /\ RequestTypes(chart, now) /\ RequestRight(chart, interval) /\ Whole(chart, interval)
  /\ chart.stage = "redis" => \A b \in chart.then : bars[b] # NoBar

(* A range of buckets is no longer than its limit.                         *)
LEMMA RangeIs ==
  ASSUME NEW start \in Nat, NEW end \in Nat, start <= end, NEW limit \in Nat, end - limit < start
  PROVE  /\ Cardinality(start..end) <= limit
         /\ Max(start..end) = end /\ Min(start..end) = start
<1>1. Cardinality(start..end) = end - start + 1
  BY FS_Interval
<1>2. end \in start..end /\ \A y \in start..end : end >= y
  OBVIOUS
<1>3. start \in start..end /\ \A y \in start..end : start <= y
  OBVIOUS
<1>4. Max(start..end) \in start..end /\ \A y \in start..end : Max(start..end) >= y
  BY <1>2, Zenon DEF Max
<1>5. Min(start..end) \in start..end /\ \A y \in start..end : Min(start..end) <= y
  BY <1>3, Zenon DEF Min
<1>6. Max(start..end) >= end /\ Min(start..end) <= start
  BY <1>2, <1>3, <1>4, <1>5
<1> QED
  BY <1>1, <1>4, <1>5, <1>6

LEMMA StoredIs ==
  ASSUME OhlcInv, BarsPast
  PROVE  IsCandles(StoredRows) /\ \A t \in DOMAIN StoredRows : t = 2 * BucketOf(t) /\ BucketOf(t) <= now
<1>1. Buckets \subseteq Nat /\ rows \in [Buckets -> Bar]
  BY OhlcAssumption DEF Buckets, OhlcInv, OhlcTables
<1>2. \A b \in Buckets : rows[b] # NoBar => b <= now
  BY DEF OhlcInv, RowsOK, PrefixOf, BarsPast
<1>3. DOMAIN StoredRows = {2 * b : b \in {c \in Buckets : rows[c] # NoBar}}
  BY DEF StoredRows
<1>4. ASSUME NEW t \in DOMAIN StoredRows
      PROVE  t \in Nat /\ t = 2 * BucketOf(t) /\ BucketOf(t) <= now /\ StoredRows[t] \in Bar
  <2>1. PICK b \in Buckets : rows[b] # NoBar /\ t = 2 * b
    BY <1>3
  <2>2. b \in Nat /\ BucketOf(t) = b /\ t \in Nat
    BY <1>1, <2>1, BucketOfStart
  <2>3. StoredRows[t] = rows[BucketOf(t)]
    BY <1>3 DEF StoredRows
  <2> QED
    BY <1>1, <1>2, <2>1, <2>2, <2>3
<1>5. StoredRows = [t \in DOMAIN StoredRows |-> StoredRows[t]]
  BY DEF StoredRows
<1> QED
  BY <1>4, <1>5 DEF IsCandles

(* A chart of a range of buckets that join and show what Redis had.        *)
LEMMA WholeOfRange ==
  ASSUME NEW r, NEW kind, NEW n \in Nat, RequestTypes(r, n), NEW start \in Nat, r.end \in Nat, start <= r.end,
         r.end <= BucketOf(r.to), r.end - r.limit < start, DOMAIN r.shown = start..r.end,
         \A b \in start..r.end : b # start => r.shown[b].open = r.shown[b - 1].close,
         kind = "realtime" =>
           /\ RedisRight(r)
           /\ \A b \in start..r.end : 2 * b \in DOMAIN r.redis => r.shown[b].volume = r.redis[2 * b].volume
           /\ \A b \in Owed(r) : start <= b
  PROVE  Whole(r, kind)
<1> DEFINE S == start..r.end
           traded == {b \in r.then \ r.gone :
                        BucketOf(r.from) <= b /\ BucketOf(r.to) - r.limit < b /\ b <= r.end}
<1>1. r.limit \in Nat /\ BucketOf(r.to) \in Nat /\ r.then \subseteq Nat
  <2>1. r.limit \in Nat /\ r.to \in Nat /\ r.then \subseteq Buckets
    BY DEF RequestTypes
  <2>2. BucketOf(r.to) \in Nat
    BY <2>1, BucketIs
  <2> QED
    BY <2>1, <2>2, OhlcAssumption DEF Buckets
<1>2. Cardinality(S) <= r.limit /\ r.end \in S /\ Max(S) = r.end /\ Min(S) = start
  BY <1>1, RangeIs
<1>3. \A b \in S \ {start} : b - 1 \in S
  OBVIOUS
<1>4. ASSUME kind = "realtime", NEW b \in traded PROVE b \in S /\ 2 * b \in DOMAIN r.redis /\ r.shown[b].volume > 0
  <2>1. b \in Nat /\ b <= r.end /\ b \in Owed(r)
    BY <1>1 DEF Owed
  <2>2. start <= b /\ 2 * b \in DOMAIN r.redis
    BY <1>4, <2>1 DEF RedisRight
  <2>3. b \in S
    BY <2>1, <2>2
  <2>4. r.shown[b].volume = r.redis[2 * b].volume
    BY <1>4, <2>2, <2>3
  <2>5. r.redis[2 * b].volume > 0
    BY <1>4, <2>2 DEF RedisRight
  <2> QED
    BY <2>2, <2>3, <2>4, <2>5
<1> HIDE DEF traded
<1>5. kind = "realtime" => /\ traded \subseteq S
                           /\ \A b \in S : 2 * b \in DOMAIN r.redis => r.shown[b].volume = r.redis[2 * b].volume
                           /\ \A b \in traded : r.shown[b].volume > 0
  BY <1>4
<1>6. \A b \in S \ {Min(S)} : b - 1 \in S /\ r.shown[b].open = r.shown[b - 1].close
  BY <1>2, <1>3
<1> HIDE DEF S
<1>7. DOMAIN r.shown = S
  BY DEF S
<1> QED
  BY <1>2, <1>5, <1>6, <1>7, Zenon DEF Whole, traded

(* What buildChartPoints may be given: candles up to now and the end of    *)
(* the window, with all that Redis answered.                               *)
Showable(q, kind, candles, n) ==
  /\ IsCandles(candles) /\ Past(candles, n) /\ \A t \in DOMAIN candles : t <= q.to
  /\ kind = "realtime" =>
       /\ RedisRight(q) /\ \A t \in DOMAIN candles : t = 2 * BucketOf(t)
       /\ \A t \in DOMAIN q.redis : t \in DOMAIN candles /\ candles[t] = q.redis[t]

LEMMA BuiltFields ==
  ASSUME NEW q, NEW candles, DOMAIN q = ChartFields
  PROVE  LET r == Built(q, candles)
             end == Lower(BucketOf(q.to), now)
         IN  /\ DOMAIN r = ChartFields /\ r.stage = "done" /\ r.end = end
             /\ r.from = q.from /\ r.to = q.to /\ r.limit = q.limit /\ r.redis = q.redis
             /\ r.rows = q.rows /\ r.then = q.then /\ r.gone = q.gone
             /\ candles = NoCandles => r.seed = TRUE /\ r.shown = q.shown
             /\ candles # NoCandles => r.seed = q.seed /\ r.shown = Filled(candles, q.limit, end)
<1> DEFINE end == Lower(BucketOf(q.to), now)
           filled == Filled(candles, q.limit, end)
<1> HIDE DEF end, filled
<1>1. CASE candles = NoCandles
  <2>1. Built(q, candles) = [q EXCEPT !.stage = "done", !.seed = TRUE, !.end = end]
    BY <1>1 DEF Built, end
  <2> QED
    BY <1>1, <2>1 DEF ChartFields, end
<1>2. CASE candles # NoCandles
  <2>1. Built(q, candles) = [q EXCEPT !.stage = "done", !.end = end, !.shown = filled]
    BY <1>2 DEF Built, end, filled
  <2> QED
    BY <1>2, <2>1 DEF ChartFields, end, filled
<1> QED
  BY <1>1, <1>2

LEMMA BuiltIs ==
  ASSUME NEW q, NEW kind, NEW candles, now \in Nat,
         RequestTypes(q, now), RequestRight(q, kind), q.stage # "done",
         Showable(q, kind, candles, now)
  PROVE  LET r == Built(q, candles)
         IN  RequestTypes(r, now) /\ RequestRight(r, kind) /\ Whole(r, kind) /\ r.stage = "done"
<1> DEFINE r == Built(q, candles)
           end == Lower(BucketOf(q.to), now)
<1>1. /\ DOMAIN r = ChartFields /\ r.stage = "done" /\ r.end = end
      /\ r.from = q.from /\ r.to = q.to /\ r.limit = q.limit /\ r.redis = q.redis
      /\ r.rows = q.rows /\ r.then = q.then /\ r.gone = q.gone
      /\ candles = NoCandles => r.seed = TRUE /\ r.shown = q.shown
      /\ candles # NoCandles => r.seed = q.seed /\ r.shown = Filled(candles, q.limit, end)
  BY BuiltFields DEF RequestTypes
<1> HIDE DEF r
<1>2. RequestTypes(r, now)
  <2>1. q.seed \in BOOLEAN
    BY DEF RequestTypes
  <2>2. r.seed \in BOOLEAN
    BY <1>1, <2>1
  <2> QED
    BY <1>1, <2>2 DEF RequestTypes, ChartStages
<1>3. kind = "realtime" => RedisRight(r)
  BY <1>1 DEF Showable, RedisRight, Owed
<1>4. CASE candles = NoCandles
  <2>1. DOMAIN r.shown = {} /\ (kind = "realtime" => DOMAIN r.redis = {})
    BY <1>1, <1>4, NoCandlesIs DEF Showable, RequestRight
  <2> QED
    BY <1>1, <1>2, <1>3, <2>1 DEF RequestRight, Whole, r
<1>5. CASE candles # NoCandles
  <2> DEFINE D == DOMAIN candles
             start == Higher(BucketOf(Min(D)), end - (r.limit - 1))
  <2>1. r.limit \in Nat \ {0} /\ BucketOf(r.to) \in Nat /\ end \in Nat /\ end <= BucketOf(r.to) /\ end <= now
    <3>1. r.limit \in Nat \ {0} /\ r.to \in Nat /\ q.to = r.to
      BY <1>1, <1>2 DEF RequestTypes
    <3>2. BucketOf(r.to) \in Nat
      BY <3>1, BucketIs
    <3> QED
      BY <3>1, <3>2 DEF Lower
  <2>2. D # {} /\ D \in SUBSET Nat
    BY <1>5, EmptyIsNoCandles DEF Showable, IsCandles
  <2>3. \A t \in D : BucketOf(t) <= end
    <3>1. \A t \in D : BucketOf(t) <= now /\ t <= r.to
      BY <1>1 DEF Showable, Past
    <3>2. r.to \in Nat
      BY <1>2 DEF RequestTypes
    <3>3. \A t \in D : BucketOf(t) <= BucketOf(r.to)
      BY <2>2, <3>1, <3>2 DEF BucketOf
    <3> QED
      BY <1>1, <3>1, <3>3 DEF Lower
  <2>4. /\ start \in Nat /\ start <= end /\ end - r.limit < start
        /\ DOMAIN r.shown = start..end
        /\ \A b \in start..end : b # start => r.shown[b].open = r.shown[b - 1].close
        /\ \A b \in start..end : \A u \in D :
             BucketOf(u) = b /\ (\A t \in D : BucketOf(t) = b => t <= u) => r.shown[b].volume = candles[u].volume
    <3>1. IsCandles(candles)
      BY DEF Showable
    <3>2. r.shown = Filled(candles, r.limit, end)
      BY <1>1, <1>5
    <3> HIDE DEF end
    <3>3. r.limit \in Nat \ {0} /\ end \in Nat /\ D # {} /\ \A t \in D : BucketOf(t) <= end
      BY <2>1, <2>2, <2>3
    <3>4. LET shown == Filled(candles, r.limit, end)
          IN  /\ start \in Nat /\ start <= end /\ end - r.limit < start
              /\ DOMAIN shown = start..end
              /\ \A b \in start..end : b # start => shown[b].open = shown[b - 1].close
              /\ \A b \in start..end : \A u \in D :
                   BucketOf(u) = b /\ (\A t \in D : BucketOf(t) = b => t <= u) => shown[b].volume = candles[u].volume
      BY <3>1, <3>3, FilledIs, Zenon
    <3> QED
      BY <3>2, <3>4
  <2>5. ASSUME kind = "realtime", NEW b \in start..end, 2 * b \in DOMAIN r.redis
        PROVE  r.shown[b].volume = r.redis[2 * b].volume
    <3>1. 2 * b \in D /\ candles[2 * b] = r.redis[2 * b] /\ \A t \in D : t = 2 * BucketOf(t)
      BY <1>1, <2>5 DEF Showable
    <3>2. b \in Nat /\ BucketOf(2 * b) = b
      BY <2>4, BucketOfStart
    <3>3. \A t \in D : BucketOf(t) = b => t <= 2 * b
      BY <2>2, <3>1, <3>2
    <3> QED
      BY <2>4, <3>1, <3>2, <3>3
  <2>6. ASSUME kind = "realtime", NEW b \in Owed(r) PROVE start <= b
    <3>1. b \in Nat /\ BucketOf(r.to) - r.limit < b
      BY <1>2, OhlcAssumption DEF Owed, RequestTypes, Buckets
    <3>2. 2 * b \in D
      BY <1>1, <1>3, <2>6 DEF RedisRight, Showable
    <3>3. BucketOf(2 * b) = b /\ Min(D) \in D /\ Min(D) <= 2 * b
      BY <2>2, <3>1, <3>2, BucketOfStart, LeastCandle
    <3>4. BucketOf(Min(D)) \in Nat /\ 2 * BucketOf(Min(D)) <= Min(D) /\ Min(D) \in Nat
      BY <2>2, <3>3, BucketIs
    <3>5. BucketOf(Min(D)) <= b
      BY <3>1, <3>3, <3>4
    <3> QED
      BY <2>1, <3>1, <3>4, <3>5 DEF Higher
  <2> HIDE DEF start, end, D
  <2>7. Whole(r, kind)
    <3>1. kind = "realtime" =>
            /\ RedisRight(r)
            /\ \A b \in start..r.end : 2 * b \in DOMAIN r.redis => r.shown[b].volume = r.redis[2 * b].volume
            /\ \A b \in Owed(r) : start <= b
      BY <1>1, <1>3, <2>5, <2>6
    <3>2. /\ r.end \in Nat /\ start \in Nat /\ start <= r.end /\ r.end <= BucketOf(r.to) /\ r.end - r.limit < start
          /\ DOMAIN r.shown = start..r.end
          /\ \A b \in start..r.end : b # start => r.shown[b].open = r.shown[b - 1].close
      BY <1>1, <2>1, <2>4
    <3> QED
      BY <1>1, <1>2, <3>1, <3>2, WholeOfRange
  <2> QED
    BY <1>1, <1>2, <1>3, <1>5, <2>7 DEF RequestRight, r
<1> QED
  BY <1>4, <1>5

LEMMA NoChartIs ==
  /\ DOMAIN NoChart = ChartFields /\ NoChart.stage = "idle" /\ NoChart.from = 0 /\ NoChart.to = 0 /\ NoChart.limit = 1
  /\ NoChart.end = 0 /\ NoChart.redis = NoCandles /\ NoChart.rows = NoCandles /\ NoChart.shown = NoCandles
  /\ NoChart.seed = FALSE /\ NoChart.then = {} /\ NoChart.gone = {}
  BY DEF NoChart, ChartFields

(* A request that has no answer yet shows nothing.                         *)
LEMMA Unanswered ==
  ASSUME NEW q, NEW kind, q.stage # "done", q.seed = FALSE, DOMAIN q.shown = {},
         kind = "realtime" => q.stage \in {"idle", "redis"} \/ (q.stage = "rows" /\ RedisRight(q))
  PROVE  RequestRight(q, kind) /\ Whole(q, kind)
<1>1. ~(q.stage = "done" /\ DOMAIN q.shown # {})
  OBVIOUS
<1>2. Whole(q, kind)
  BY <1>1, Zenon DEF Whole
<1>3. q.seed # TRUE
  BY Zenon
<1>4. RequestRight(q, kind)
  BY <1>3 DEF RequestRight
<1> QED
  BY <1>2, <1>4

LEMMA NoChartRight == ASSUME NEW kind, NEW n PROVE RequestTypes(NoChart, n) /\ RequestRight(NoChart, kind) /\ Whole(NoChart, kind)
<1>1. RequestTypes(NoChart, n)
  <2>1. NoChart.seed \in BOOLEAN
    BY NoChartIs, Zenon
  <2> QED
    BY <2>1, NoChartIs, NoCandlesIs DEF RequestTypes, ChartStages, Past
<1>2. NoChart.stage = "idle" /\ NoChart.seed = FALSE /\ DOMAIN NoChart.shown = {}
  BY NoChartIs, NoCandlesIs
<1>3. RequestRight(NoChart, kind) /\ Whole(NoChart, kind)
  BY <1>2, Unanswered
<1> QED
  BY <1>1, <1>3

LEMMA ChartInvInit == ASSUME ChartInit, OhlcInit PROVE ChartInv
<1>1. OhlcInv
  BY OhlcInvInit
<1>2. BarsPast
  BY NoCallIsCall DEF OhlcInit, BarsPast
<1>3. IsCandles(longRows) /\ Past(longRows, now)
  BY NoCandlesIs DEF ChartInit, Past
<1>4. chart = NoChart /\ interval \in {"realtime", "long"} /\ backfilled \in BOOLEAN
  BY DEF ChartInit
<1> QED
  BY <1>1, <1>2, <1>3, <1>4, NoChartRight, NoChartIs DEF ChartInv

LEMMA NowIs == ASSUME ChartInv PROVE now \in Nat /\ Buckets \subseteq Nat
  BY OhlcAssumption DEF ChartInv, OhlcInv, OhlcTables, Buckets

LEMMA RowsStay == ASSUME ChartInv, longRows' = longRows PROVE IsCandles(longRows') /\ Past(longRows', now)
  BY DEF ChartInv

(* The request moves; the trades stay.                                     *)
LEMMA RequestMoves ==
  ASSUME ChartInv, UNCHANGED ohlcVars, interval' = interval, backfilled' \in BOOLEAN,
         IsCandles(longRows'), Past(longRows', now),
         RequestTypes(chart', now), RequestRight(chart', interval), Whole(chart', interval),
         chart'.stage = "redis" => \A b \in chart'.then : bars[b] # NoBar
  PROVE  ChartInv'
<1>1. OhlcInv' /\ BarsPast'
  <2>1. OhlcInv /\ BarsPast /\ [OhlcStep]_ohlcVars
    BY DEF ChartInv
  <2> QED
    BY <2>1, OhlcInvStep, BarsPastStep
<1>2. now' = now /\ bars' = bars
  BY DEF ohlcVars
<1>3. RequestTypes(chart', now') /\ RequestRight(chart', interval') /\ Whole(chart', interval')
  BY <1>2
<1>4. IsCandles(longRows') /\ Past(longRows', now')
  BY <1>2 DEF ChartInv
<1>5. chart'.stage = "redis" => \A b \in chart'.then : bars'[b] # NoBar
  BY <1>2
<1> QED
  BY <1>1, <1>3, <1>4, <1>5 DEF ChartInv

LEMMA AnswerMoves ==
  ASSUME ChartInv, UNCHANGED ohlcVars, interval' = interval, longRows' = longRows, backfilled' \in BOOLEAN,
         NEW candles, chart' = Built(chart, candles), chart.stage # "done", Showable(chart, interval, candles, now)
  PROVE  ChartInv'
<1>1. RequestTypes(chart', now) /\ RequestRight(chart', interval) /\ Whole(chart', interval) /\ chart'.stage = "done"
  BY NowIs, BuiltIs DEF ChartInv
<1> QED
  BY <1>1, RowsStay, RequestMoves

LEMMA AskChartKeeps == ASSUME ChartInv, UNCHANGED ohlcVars, AskChart PROVE ChartInv'
<1>1. PICK w \in ChartWindows :
        LET a == Higher(0, 2 * now - w.back)
            b == Higher(0, 2 * now + w.ahead)
        IN  chart' = [NoChart EXCEPT !.stage = IF interval = "realtime" THEN "redis" ELSE "rows",
                                     !.from = Lower(a, b), !.to = Higher(a, b), !.limit = w.limit,
                                     !.then = {t \in Buckets : bars[t] # NoBar}]
  BY DEF AskChart
<1> DEFINE a == Higher(0, 2 * now - w.back)
           b == Higher(0, 2 * now + w.ahead)
<1>2. a \in Nat /\ b \in Nat
  BY NowIs, ChartAssumption DEF Higher
<1> HIDE DEF a, b
<1>3. Lower(a, b) \in Nat /\ Higher(a, b) \in Nat /\ Lower(a, b) <= Higher(a, b)
  BY <1>2 DEF Lower, Higher
<1>4. /\ DOMAIN chart' = ChartFields /\ chart'.from = Lower(a, b) /\ chart'.to = Higher(a, b) /\ chart'.limit = w.limit
      /\ chart'.stage = IF interval = "realtime" THEN "redis" ELSE "rows"
      /\ chart'.redis = NoCandles /\ chart'.rows = NoCandles /\ chart'.shown = NoCandles /\ chart'.seed = FALSE
      /\ chart'.then = {t \in Buckets : bars[t] # NoBar}
  BY <1>1, NoChartIs DEF a, b, ChartFields
<1>5. w.limit \in Nat \ {0}
  BY ChartAssumption
<1>6. RequestTypes(chart', now)
  BY <1>3, <1>4, <1>5, NoCandlesIs DEF RequestTypes, ChartStages, Past
<1>7. RequestRight(chart', interval) /\ Whole(chart', interval)
  <2>1. chart'.stage # "done" /\ (interval = "realtime" => chart'.stage = "redis")
    BY <1>4
  <2>2. chart'.seed = FALSE
    BY <1>4
  <2>3. DOMAIN chart'.shown = {}
    BY <1>4, NoCandlesIs
  <2> QED
    BY <2>1, <2>2, <2>3, Unanswered
<1>8. interval' = interval /\ longRows' = longRows /\ backfilled' \in BOOLEAN
  BY DEF AskChart, ChartInv
<1>9. \A t \in chart'.then : bars[t] # NoBar
  BY <1>4
<1> QED
  BY <1>6, <1>7, <1>8, <1>9, RowsStay, RequestMoves

LEMMA ReadBarsKeeps == ASSUME ChartInv, UNCHANGED ohlcVars, ReadBars PROVE ChartInv'
<1> DEFINE first == Higher(BucketOf(chart.from), BucketOf(chart.to) - chart.limit + 1)
           there == {b \in Buckets : first <= b /\ b <= BucketOf(chart.to) /\ bars[b] # NoBar}
<1>1. PICK gone \in {{}, {b \in there : b < now - 2}, Buckets} :
        chart' = [chart EXCEPT !.stage = "rows", !.gone = gone,
                               !.redis = [t \in {2 * b : b \in there \ gone} |-> bars[BucketOf(t)]]]
  BY DEF ReadBars
<1> DEFINE answer == [t \in {2 * b : b \in there \ gone} |-> bars[BucketOf(t)]]
<1>2. /\ RequestTypes(chart, now) /\ RequestRight(chart, interval) /\ chart.stage = "redis"
      /\ \A b \in chart.then : bars[b] # NoBar
  BY DEF ReadBars, ChartInv
<1> HIDE DEF answer
<1>3. /\ DOMAIN chart' = ChartFields /\ chart'.stage = "rows" /\ chart'.gone = gone /\ chart'.redis = answer
      /\ chart'.from = chart.from /\ chart'.to = chart.to /\ chart'.limit = chart.limit /\ chart'.rows = chart.rows
      /\ chart'.shown = chart.shown /\ chart'.seed = chart.seed /\ chart'.then = chart.then
  BY <1>1, <1>2 DEF RequestTypes, ChartFields, answer
<1>4. /\ chart.from \in Nat /\ chart.to \in Nat /\ chart.limit \in Nat \ {0} /\ chart.then \subseteq Buckets
  BY <1>2 DEF RequestTypes
<1>5. BucketOf(chart.from) \in Nat /\ BucketOf(chart.to) \in Nat /\ 2 * BucketOf(chart.to) <= chart.to
  BY <1>4, BucketIs
<1>6. ASSUME NEW b \in there
      PROVE  /\ b \in Nat /\ 2 * b \in Nat /\ BucketOf(2 * b) = b /\ b <= now /\ 2 * b <= chart.to
             /\ bars[b] \in Bar /\ bars[b].volume > 0
  <2>1. b \in Buckets /\ b \in Nat /\ b <= BucketOf(chart.to) /\ bars[b] # NoBar
    BY NowIs
  <2>2. bars[b] \in Bar /\ b <= now /\ bars[b].volume > 0
    BY <2>1 DEF ChartInv, OhlcInv, OhlcTables, BarsPast
  <2>3. 2 * b \in Nat /\ BucketOf(2 * b) = b
    BY <2>1, BucketOfStart
  <2> QED
    BY <1>4, <1>5, <2>1, <2>2, <2>3
<1> HIDE DEF there
<1>7. DOMAIN answer = {2 * b : b \in there \ gone}
  BY DEF answer
<1>8. ASSUME NEW t \in DOMAIN answer
      PROVE  /\ t \in Nat /\ t = 2 * BucketOf(t) /\ t <= chart.to /\ BucketOf(t) <= now
             /\ answer[t] \in Bar /\ answer[t].volume > 0
  <2>1. PICK b \in there : t = 2 * b
    BY <1>7
  <2>2. answer[t] = bars[BucketOf(t)]
    BY <1>7 DEF answer
  <2> QED
    BY <1>6, <2>1, <2>2
<1>9. IsCandles(answer) /\ Past(answer, now)
  <2>1. answer = [t \in DOMAIN answer |-> answer[t]]
    BY DEF answer
  <2> QED
    BY <1>8, <2>1 DEF IsCandles, Past
<1>10. ASSUME NEW b \in Owed(chart') PROVE 2 * b \in DOMAIN answer
  <2>1. b \in chart.then /\ b \notin gone /\ BucketOf(chart.from) <= b /\ b <= BucketOf(chart.to)
        /\ BucketOf(chart.to) - chart.limit < b
    BY <1>3 DEF Owed
  <2>2. b \in Buckets /\ b \in Nat /\ bars[b] # NoBar
    BY <1>2, <1>4, <2>1, NowIs
  <2>3. first <= b
    BY <1>4, <1>5, <2>1, <2>2 DEF Higher
  <2>4. b \in there
    BY <2>1, <2>2, <2>3 DEF there
  <2> QED
    BY <1>7, <2>1, <2>4
<1>11. RedisRight(chart')
  BY <1>3, <1>8, <1>10 DEF RedisRight
<1>12. RequestTypes(chart', now)
  BY <1>2, <1>3, <1>9 DEF RequestTypes, ChartStages
<1>13. RequestRight(chart', interval) /\ Whole(chart', interval)
  <2>1. chart'.seed = FALSE /\ DOMAIN chart'.shown = {}
    BY <1>2, <1>3 DEF RequestRight
  <2> QED
    BY <1>3, <1>11, <1>12, <2>1, Unanswered
<1>14. interval' = interval /\ longRows' = longRows /\ backfilled' \in BOOLEAN
  BY DEF ReadBars, ChartInv
<1> QED
  BY <1>3, <1>12, <1>13, <1>14, RowsStay, RequestMoves

(* A read of a long interval that goes on with what it found.              *)
LEMMA GoesOn ==
  ASSUME ChartInv, UNCHANGED ohlcVars, interval = "long", interval' = interval, IsCandles(longRows'), Past(longRows', now),
         backfilled' \in BOOLEAN, NEW stage \in ChartStages \ {"redis", "done"}, chart.stage # "done",
         NEW found, IsCandles(found), Past(found, now), \A t \in DOMAIN found : t <= chart.to,
         NEW answer, IsCandles(answer), Past(answer, now),
         chart' = [chart EXCEPT !.stage = stage, !.rows = found, !.redis = answer]
  PROVE  ChartInv'
<1>1. RequestTypes(chart, now) /\ RequestRight(chart, interval)
  BY DEF ChartInv
<1>2. /\ DOMAIN chart' = ChartFields /\ chart'.stage = stage /\ chart'.redis = answer /\ chart'.rows = found
      /\ chart'.from = chart.from /\ chart'.to = chart.to /\ chart'.limit = chart.limit
      /\ chart'.shown = chart.shown /\ chart'.seed = chart.seed /\ chart'.then = chart.then
  BY <1>1 DEF RequestTypes, ChartFields
<1>3. RequestTypes(chart', now)
  BY <1>1, <1>2 DEF RequestTypes
<1>4. chart'.seed = FALSE /\ DOMAIN chart'.shown = {}
  BY <1>1, <1>2 DEF RequestRight
<1>5. RequestRight(chart', interval) /\ Whole(chart', interval)
  <2>1. chart'.stage # "done" /\ interval # "realtime"
    BY <1>2
  <2> QED
    BY <1>4, <2>1, Unanswered
<1> QED
  BY <1>2, <1>3, <1>5, RequestMoves

LEMMA ReadRowsKeeps == ASSUME ChartInv, UNCHANGED ohlcVars, ReadRows PROVE ChartInv'
<1>1. /\ chart.stage = "rows" /\ interval' = interval /\ longRows' = longRows /\ backfilled' \in BOOLEAN
      /\ RequestTypes(chart, now) /\ RequestRight(chart, interval) /\ interval \in {"realtime", "long"}
  BY DEF ReadRows, ChartInv
<1>2. CASE interval = "realtime"
  <2> DEFINE read == Within(StoredRows, chart.from, chart.to)
             merged == Merged(chart.redis, read)
  <2>1. chart' = Built(chart, merged)
    BY <1>2 DEF ReadRows
  <2>2. /\ IsCandles(read) /\ \A t \in DOMAIN read : t = 2 * BucketOf(t) /\ BucketOf(t) <= now /\ t <= chart.to
    BY StoredIs, WithinIs DEF ChartInv
  <2>3. IsCandles(chart.redis) /\ Past(chart.redis, now) /\ RedisRight(chart)
    BY <1>1, <1>2 DEF RequestTypes, RequestRight
  <2> HIDE DEF read
  <2>4. /\ IsCandles(merged) /\ DOMAIN merged = DOMAIN chart.redis \cup DOMAIN read
        /\ \A t \in DOMAIN chart.redis : merged[t] = chart.redis[t]
    BY <2>2, <2>3, MergeIs
  <2> HIDE DEF merged
  <2>5. Showable(chart, interval, merged, now)
    BY <2>2, <2>3, <2>4 DEF Showable, Past, RedisRight
  <2> QED
    BY <1>1, <2>1, <2>5, AnswerMoves
<1>3. CASE interval = "long"
  <2> DEFINE read == Within(longRows, chart.from, chart.to)
  <2>1. chart' = Built(chart, read) \/ chart' = [chart EXCEPT !.stage = "marker", !.rows = read]
    BY <1>3 DEF ReadRows
  <2>2. IsCandles(read) /\ Past(read, now) /\ \A t \in DOMAIN read : t <= chart.to
    BY WithinIs DEF ChartInv, Past
  <2> HIDE DEF read
  <2>3. CASE chart' = Built(chart, read)
    <3>1. Showable(chart, interval, read, now)
      BY <1>3, <2>2 DEF Showable
    <3> QED
      BY <1>1, <2>3, <3>1, AnswerMoves
  <2>4. CASE chart' = [chart EXCEPT !.stage = "marker", !.rows = read]
    <3>1. chart' = [chart EXCEPT !.stage = "marker", !.rows = read, !.redis = chart.redis]
      BY <1>1, <2>4 DEF RequestTypes, ChartFields
    <3>2. IsCandles(chart.redis) /\ Past(chart.redis, now)
      BY <1>1 DEF RequestTypes
    <3> QED
      BY <1>1, <1>3, <2>2, <3>1, <3>2, RowsStay, GoesOn DEF ChartStages
  <2> QED
    BY <2>1, <2>3, <2>4
<1> QED
  BY <1>1, <1>2, <1>3

(* No request, or the next one.                                            *)
LEMMA NoRequestKeeps ==
  ASSUME ChartInv, UNCHANGED ohlcVars, interval' = interval, longRows' = longRows, backfilled' \in BOOLEAN,
         chart' = NoChart
  PROVE  ChartInv'
<1>1. RequestTypes(chart', now) /\ RequestRight(chart', interval) /\ Whole(chart', interval) /\ chart'.stage = "idle"
  BY NoChartRight, NoChartIs
<1> QED
  BY <1>1, RowsStay, RequestMoves

(* What a request of a long interval found may be shown.                   *)
LEMMA FoundIs ==
  ASSUME ChartInv, chart.stage \in {"marker", "ask", "insert", "reread"}
  PROVE  /\ interval = "long" /\ chart.stage # "done" /\ Showable(chart, interval, chart.rows, now)
         /\ IsCandles(chart.rows) /\ Past(chart.rows, now) /\ \A t \in DOMAIN chart.rows : t <= chart.to
         /\ IsCandles(chart.redis) /\ Past(chart.redis, now)
<1>1. RequestTypes(chart, now) /\ RequestRight(chart, interval) /\ interval \in {"realtime", "long"}
  BY DEF ChartInv
<1>2. interval = "long"
  BY <1>1 DEF RequestRight
<1> QED
  BY <1>1, <1>2 DEF RequestTypes, Showable

LEMMA FoundShown ==
  ASSUME ChartInv, UNCHANGED ohlcVars, interval' = interval, longRows' = longRows, backfilled' \in BOOLEAN,
         chart.stage \in {"marker", "ask", "insert", "reread"}, chart' = Built(chart, chart.rows)
  PROVE  ChartInv'
  BY FoundIs, AnswerMoves

(* A request of a long interval that goes on, with new candles or as it is.*)
LEMMA FoundGoesOn ==
  ASSUME ChartInv, UNCHANGED ohlcVars, interval' = interval, backfilled' \in BOOLEAN,
         IsCandles(longRows'), Past(longRows', now),
         chart.stage \in {"marker", "ask", "insert", "reread"}, NEW stage \in {"ask", "insert", "reread"},
         NEW answer, IsCandles(answer), Past(answer, now),
         chart' = [chart EXCEPT !.stage = stage, !.redis = answer] \/
         (chart' = [chart EXCEPT !.stage = stage] /\ answer = chart.redis)
  PROVE  ChartInv'
<1>1. DOMAIN chart = ChartFields
  BY DEF ChartInv, RequestTypes
<1>2. chart' = [chart EXCEPT !.stage = stage, !.rows = chart.rows, !.redis = answer]
  BY <1>1 DEF ChartFields
<1>3. stage \in ChartStages \ {"redis", "done"}
  BY DEF ChartStages
<1> QED
  BY <1>2, <1>3, FoundIs, GoesOn

LEMMA ReadMarkerKeeps == ASSUME ChartInv, UNCHANGED ohlcVars, ReadMarker PROVE ChartInv'
<1>1. /\ chart.stage = "marker" /\ interval' = interval /\ longRows' = longRows /\ backfilled' \in BOOLEAN
      /\ chart' = Built(chart, chart.rows) \/ chart' = [chart EXCEPT !.stage = "ask"]
  BY DEF ReadMarker, ChartInv
<1>2. CASE chart' = Built(chart, chart.rows)
  BY <1>1, <1>2, FoundShown
<1>3. CASE chart' = [chart EXCEPT !.stage = "ask"]
  BY <1>1, <1>3, FoundIs, RowsStay, FoundGoesOn
<1> QED
  BY <1>1, <1>2, <1>3

LEMMA AskCoinGeckoKeeps == ASSUME ChartInv, UNCHANGED ohlcVars, AskCoinGecko PROVE ChartInv'
<1>1. /\ chart.stage = "ask" /\ interval' = interval /\ longRows' = longRows
  BY DEF AskCoinGecko
<1>2. PICK answer \in OhlcAnswers :
        /\ \A t \in DOMAIN answer : BucketOf(t) <= now
        /\ \/ chart' = Built(chart, chart.rows) /\ UNCHANGED backfilled
           \/ backfilled' = TRUE /\ chart' = [chart EXCEPT !.stage = "insert", !.redis = answer]
  BY DEF AskCoinGecko
<1>3. CASE chart' = Built(chart, chart.rows) /\ UNCHANGED backfilled
  BY <1>1, <1>3, FoundShown DEF ChartInv
<1>4. CASE backfilled' = TRUE /\ chart' = [chart EXCEPT !.stage = "insert", !.redis = answer]
  <2>1. IsCandles(answer) /\ Past(answer, now)
    BY <1>2, ChartAssumption DEF Past
  <2>2. backfilled' \in BOOLEAN
    BY <1>4
  <2> QED
    BY <1>1, <1>4, <2>1, <2>2, RowsStay, FoundGoesOn
<1> QED
  BY <1>2, <1>3, <1>4

LEMMA InsertCandlesKeeps == ASSUME ChartInv, UNCHANGED ohlcVars, InsertCandles PROVE ChartInv'
<1>1. chart.stage = "insert" /\ interval' = interval /\ backfilled' \in BOOLEAN
  BY DEF InsertCandles, ChartInv
<1>2. CASE longRows' = Merged(longRows, chart.redis) /\ chart' = [chart EXCEPT !.stage = "reread"]
  <2>1. IsCandles(chart.redis) /\ Past(chart.redis, now) /\ IsCandles(longRows) /\ Past(longRows, now)
    BY <1>1, FoundIs DEF ChartInv
  <2>2. IsCandles(longRows') /\ DOMAIN longRows' = DOMAIN longRows \cup DOMAIN chart.redis
    BY <1>2, <2>1, MergeIs
  <2>3. Past(longRows', now)
    BY <2>1, <2>2 DEF Past
  <2> QED
    BY <1>1, <1>2, <2>1, <2>2, <2>3, FoundGoesOn
<1>3. CASE chart' = Built(chart, chart.rows) /\ UNCHANGED longRows
  BY <1>1, <1>3, FoundShown
<1> QED
  BY <1>2, <1>3 DEF InsertCandles

LEMMA RereadRowsKeeps == ASSUME ChartInv, UNCHANGED ohlcVars, RereadRows PROVE ChartInv'
<1>1. chart.stage = "reread" /\ interval' = interval /\ longRows' = longRows /\ backfilled' \in BOOLEAN
  BY DEF RereadRows, ChartInv
<1>2. PICK read \in {Within(longRows, chart.from, chart.to), chart.rows} : chart' = Built(chart, read)
  BY DEF RereadRows
<1>3. interval = "long" /\ Showable(chart, interval, chart.rows, now)
  BY <1>1, FoundIs
<1>4. Showable(chart, interval, Within(longRows, chart.from, chart.to), now)
  BY <1>3, WithinIs DEF ChartInv, Showable, Past
<1>5. Showable(chart, interval, read, now)
  BY <1>3, <1>4
<1> QED
  BY <1>1, <1>2, <1>5, AnswerMoves

(* Redis had nothing, so nothing was owed.                                 *)
LEMMA SeedFlatKeeps == ASSUME ChartInv, UNCHANGED ohlcVars, SeedFlat PROVE ChartInv'
<1> DEFINE end == Lower(BucketOf(chart.to), now)
           start == Higher(BucketOf(chart.from), end - (chart.limit - 1))
           flat(p) == [NoBar EXCEPT !.open = p, !.high = p, !.low = p, !.close = p]
           shown(p) == IF p = 0 THEN NoCandles ELSE [b \in start..end |-> flat(p)]
<1>1. PICK p \in SeedPrices : chart' = [chart EXCEPT !.seed = FALSE, !.end = end, !.shown = shown(p)]
  BY DEF SeedFlat
<1>2. /\ chart.stage = "done" /\ interval' = interval /\ longRows' = longRows /\ backfilled' \in BOOLEAN
      /\ RequestTypes(chart, now) /\ RequestRight(chart, interval)
  BY DEF SeedFlat, ChartInv
<1>3. chart.seed = TRUE
  <2>1. chart.seed \in BOOLEAN
    BY <1>2 DEF RequestTypes
  <2>2. chart.seed
    BY DEF SeedFlat
  <2> QED
    BY <2>1, <2>2, Zenon
<1> HIDE DEF end, start, shown
<1>4. /\ DOMAIN chart' = ChartFields /\ chart'.stage = "done" /\ chart'.end = end /\ chart'.shown = shown(p)
      /\ chart'.from = chart.from /\ chart'.to = chart.to /\ chart'.limit = chart.limit /\ chart'.rows = chart.rows
      /\ chart'.redis = chart.redis /\ chart'.seed = FALSE /\ chart'.then = chart.then /\ chart'.gone = chart.gone
  BY <1>1, <1>2 DEF RequestTypes, ChartFields
<1>5. RequestTypes(chart', now)
  <2>1. chart'.seed \in BOOLEAN
    BY <1>4, Zenon
  <2> QED
    BY <1>2, <1>4, <2>1 DEF RequestTypes
<1>6. interval = "realtime" => RedisRight(chart') /\ DOMAIN chart'.redis = {}
  BY <1>2, <1>3, <1>4 DEF RequestRight, RedisRight, Owed
<1>7. RequestRight(chart', interval)
  <2>1. chart'.seed # TRUE
    BY <1>4, Zenon
  <2> QED
    BY <1>2, <1>4, <1>6, <2>1 DEF RequestRight
<1>8. Whole(chart', interval)
  <2>1. chart.from \in Nat /\ chart.to \in Nat /\ chart.limit \in Nat \ {0} /\ now \in Nat
    BY <1>2, NowIs DEF RequestTypes
  <2>2. BucketOf(chart.from) \in Nat /\ BucketOf(chart.to) \in Nat
    BY <2>1, BucketIs
  <2>3. end \in Nat /\ end <= BucketOf(chart'.to) /\ start \in Nat /\ end - chart'.limit < start
    BY <1>4, <2>1, <2>2 DEF end, start, Lower, Higher
  <2>4. CASE p = 0 \/ ~(start <= end)
    <3>1. DOMAIN chart'.shown = {}
      BY <1>4, <2>3, <2>4, NoCandlesIs DEF shown
    <3> QED
      BY <3>1, Zenon DEF Whole
  <2>5. CASE p # 0 /\ start <= end
    <3>1. chart'.shown = [b \in start..end |-> flat(p)]
      BY <1>4, <2>5 DEF shown
    <3>2. flat(p).open = flat(p).close
      BY NoBarIsBar DEF Bar
    <3> HIDE DEF flat
    <3>3. \A b \in start..chart'.end : b # start => chart'.shown[b].open = chart'.shown[b - 1].close
      BY <1>4, <2>3, <3>1, <3>2
    <3>4. DOMAIN chart'.shown = start..chart'.end
      BY <1>4, <3>1
    <3>5. interval = "realtime" =>
            /\ RedisRight(chart')
            /\ \A b \in start..chart'.end : 2 * b \in DOMAIN chart'.redis => chart'.shown[b].volume = chart'.redis[2 * b].volume
            /\ \A b \in Owed(chart') : start <= b
      BY <1>6 DEF RedisRight
    <3>6. chart'.end \in Nat /\ start <= chart'.end /\ chart'.end <= BucketOf(chart'.to) /\ chart'.end - chart'.limit < start
      BY <1>4, <2>3, <2>5
    <3> QED
      BY <1>5, <2>1, <2>3, <3>3, <3>4, <3>5, <3>6, WholeOfRange
  <2> QED
    BY <2>4, <2>5
<1>9. chart'.stage # "redis"
  BY <1>4
<1> QED
  BY <1>2, <1>5, <1>7, <1>8, <1>9, RowsStay, RequestMoves

LEMMA ChartStepKeeps == ASSUME ChartInv, UNCHANGED ohlcVars, ChartStep PROVE ChartInv'
<1>1. CASE ReadFails \/ NextChart
  BY <1>1, NoRequestKeeps DEF ReadFails, NextChart, ChartInv
<1>2. CASE MarkerExpires
  <2>1. UNCHANGED <<interval, chart, longRows>> /\ backfilled' \in BOOLEAN
    BY <1>2 DEF MarkerExpires
  <2> QED
    BY <2>1, RowsStay, RequestMoves DEF ChartInv
<1> QED
  BY <1>1, <1>2, AskChartKeeps, ReadBarsKeeps, ReadRowsKeeps, ReadMarkerKeeps, AskCoinGeckoKeeps,
     InsertCandlesKeeps, RereadRowsKeeps, SeedFlatKeeps DEF ChartStep

(* Trades only add to what a request found.                                *)
LEMMA TradesKeep == ASSUME ChartInv, [OhlcStep]_ohlcVars, UNCHANGED chartVars PROVE ChartInv'
<1>1. OhlcInv' /\ BarsPast' /\ now <= now' /\ \A b \in Buckets : bars[b] # NoBar => bars'[b] # NoBar
  BY OhlcInvStep, BarsPastStep DEF ChartInv
<1>2. now \in Nat /\ now' \in Nat
  BY <1>1, OhlcAssumption DEF ChartInv, OhlcInv, OhlcTables, Buckets
<1>3. UNCHANGED <<interval, chart, longRows, backfilled>>
  BY DEF chartVars
<1>4. ASSUME NEW f, IsCandles(f), Past(f, now) PROVE Past(f, now')
  <2>1. \A t \in DOMAIN f : BucketOf(t) \in Nat
    BY <1>4, BucketIs DEF IsCandles
  <2> QED
    BY <1>1, <1>2, <1>4, <2>1 DEF Past
<1>5. RequestTypes(chart, now) /\ RequestTypes(chart, now')
  BY <1>4 DEF ChartInv, RequestTypes
<1>6. Past(longRows, now')
  BY <1>4 DEF ChartInv
<1>7. chart.stage = "redis" => \A b \in chart.then : bars'[b] # NoBar
  BY <1>1, <1>5 DEF ChartInv, RequestTypes
<1>8. RequestTypes(chart', now') /\ Past(longRows', now') /\ RequestRight(chart', interval') /\ Whole(chart', interval')
      /\ (chart'.stage = "redis" => \A b \in chart'.then : bars'[b] # NoBar)
  BY <1>3, <1>5, <1>6, <1>7 DEF ChartInv
<1> QED
  BY <1>1, <1>3, <1>8 DEF ChartInv

LEMMA ChartInvAlways == ChartSpec => []ChartInv
<1> DEFINE N == (ChartStep /\ UNCHANGED ohlcVars) \/ (OhlcStep /\ UNCHANGED chartVars)
<1>1. ChartInit /\ OhlcInit => ChartInv
  BY ChartInvInit
<1>2. ChartInv /\ [N]_<<ohlcVars, chartVars>> => ChartInv'
  BY ChartStepKeeps, TradesKeep
<1> QED
  BY <1>1, <1>2, PTL DEF ChartSpec

(* A chart ends at its window or now, has a bar for each bucket and at     *)
(* most limit of them, each opening where the last one closed; one of a    *)
(* short interval has every bucket traded when it was asked for and not    *)
(* expired, with what Redis had of it, whatever trades, inserts and        *)
(* failures overlap the request, for any windows, limits and answers of    *)
(* CoinGecko.                                                              *)
THEOREM ChartIsAlwaysWhole == ChartSpec => []ChartIsWhole
<1>1. ChartInv => ChartIsWhole
  <2>1. Whole(chart, interval) => ChartIsWhole
    BY Zenon DEF Whole, ChartIsWhole
  <2> QED
    BY <2>1 DEF ChartInv
<1> QED
  BY <1>1, ChartInvAlways, PTL

(* The request for a chart, the candles of the long interval and the       *)
(* marker of CoinGecko have their types.                                   *)
THEOREM ChartTypes == ChartSpec => []ChartTypeOK
<1>1. ChartInv => ChartTypeOK
  <2> SUFFICES ASSUME ChartInv PROVE ChartTypeOK
    OBVIOUS
  <2>1. DOMAIN longRows \subseteq 0..(2 * LastBucket + 1)
    <3>1. now \in Nat /\ now <= LastBucket /\ LastBucket \in Nat /\ DOMAIN longRows \subseteq Nat
      BY OhlcAssumption DEF ChartInv, OhlcInv, OhlcTables, Buckets, IsCandles
    <3>2. \A t \in DOMAIN longRows : BucketOf(t) <= now
      BY DEF ChartInv, Past
    <3> QED
      BY <3>1, <3>2, BucketIs
  <2> QED
    BY <2>1 DEF ChartInv, ChartTypeOK, RequestTypes, ChartStages
<1> QED
  BY <1>1, ChartInvAlways, PTL

(***************************************************************************)
(* DiscoveryWindows.  A sync leaves no stale key of the categories, and a  *)
(* page is the slice that was asked for, for any tables, window size and   *)
(* overlap of requests and syncs.                                          *)
(***************************************************************************)
DiscoverySpec == DiscoveryInit /\ [][DiscoveryStep]_discoveryVars

PageFields == {"kind", "stage", "offset", "limit", "window", "got", "copy", "raced", "next"}
SyncFields == {"stage", "found", "todo", "keys", "clean"}

(* A request only stores trending tokens in their own windows, and keeps   *)
(* the detail of a category.                                               *)
PageShaped(p) ==
  /\ DOMAIN p = PageFields /\ p.raced \in BOOLEAN
  /\ p.stage \in {"read", "store"} => p.kind = "trending"
  /\ p.stage \in {"detail", "row", "keep"} => p.copy \in Categories

SyncShaped(s) ==
  /\ DOMAIN s = SyncFields /\ s.clean \in BOOLEAN
  /\ s.stage = "upsert" => s.found \in [Categories -> Nat] /\ s.todo \subseteq Categories

(* What a request that is not raced has read is what the table says.       *)
Fresh(p, table) ==
  ~p.raced =>
    /\ p.stage \in {"total", "fill"} => p.copy = RankedCategories(table)
    /\ p.stage = "keep" => p.got = <<table[p.copy]>>

(* What SyncedKeysAgree says of one key.                                   *)
AgreesWith(table, k, items) ==
  CASE k[1] = "window" -> items = Direct(RankedCategories(table), k[2] * WindowSize, WindowSize)
    [] k[1] = "total" -> items = Len(RankedCategories(table))
    [] k[1] = "detail" -> items = table[k[2]]
    [] OTHER -> TRUE

(* A run of the sync that has yet to remove the key, or did not.           *)
WillRemove(s, k) == s.stage # "del" \/ ~s.clean \/ k \in s.keys

StaleIsDirty ==
  \A k \in DOMAIN redis :
    \/ redis[k].raced \/ AgreesWith(caps, k, redis[k].items)
    \/ \E y \in dirty : WillRemove(sync[y], k)

DiscoveryShaped ==
  /\ caps \in [Categories -> Nat] /\ dirty \subseteq Syncs
  /\ DOMAIN browse = Browsers /\ DOMAIN sync = Syncs
  /\ \A b \in Browsers : PageShaped(browse[b])
  /\ \A y \in Syncs : SyncShaped(sync[y])

CopiesFresh == \A b \in Browsers : Fresh(browse[b], caps)

DiscoveryInv == DiscoveryShaped /\ CopiesFresh /\ StaleIsDirty

(* What a request stores in a key of the categories agrees with the table. *)
GoodEntry(table, k, entry) == entry.raced \/ AgreesWith(table, k, entry.items)

(* A key is set, or the write is dropped.                                  *)
LEMMA SetKeepsStale ==
  ASSUME StaleIsDirty, NEW k, NEW entry, SetEx(k, entry), GoodEntry(caps, k, entry),
         UNCHANGED <<caps, dirty, sync>>
  PROVE  StaleIsDirty'
<1>1. CASE redis' = redis
  BY <1>1 DEF StaleIsDirty
<1>2. CASE redis' = [x \in DOMAIN redis \cup {k} |-> IF x = k THEN entry ELSE redis[x]]
  <2>1. \A x \in DOMAIN redis' : (redis'[x] = entry /\ x = k) \/ (x \in DOMAIN redis /\ redis'[x] = redis[x])
    BY <1>2
  <2> QED BY <2>1 DEF StaleIsDirty, GoodEntry
<1> QED BY <1>1, <1>2 DEF SetEx

(* A request moves on.                                                     *)
LEMMA PageMoves ==
  ASSUME DiscoveryInv, NEW b \in Browsers, NEW new, browse' = [browse EXCEPT ![b] = new],
         PageShaped(new), Fresh(new, caps), UNCHANGED <<caps, sync, dirty>>,
         StaleIsDirty'
  PROVE  DiscoveryInv'
<1>1. /\ DOMAIN browse' = Browsers
      /\ \A x \in Browsers : browse'[x] = new \/ browse'[x] = browse[x]
  BY DEF DiscoveryInv, DiscoveryShaped
<1>2. DiscoveryShaped'
  BY <1>1 DEF DiscoveryInv, DiscoveryShaped
<1>3. CopiesFresh'
  BY <1>1 DEF DiscoveryInv, CopiesFresh
<1> QED BY <1>2, <1>3 DEF DiscoveryInv

LEMMA StaleStays ==
  ASSUME DiscoveryInv, UNCHANGED <<caps, sync, dirty, redis>>
  PROVE  StaleIsDirty'
BY DEF DiscoveryInv, StaleIsDirty

LEMMA PageFacts ==
  ASSUME DiscoveryInv, NEW b \in Browsers
  PROVE  PageShaped(browse[b]) /\ Fresh(browse[b], caps)
BY DEF DiscoveryInv, DiscoveryShaped, CopiesFresh

LEMMA SetExKeepsInv ==
  ASSUME DiscoveryInv, NEW b \in Browsers, NEW new, browse' = [browse EXCEPT ![b] = new],
         PageShaped(new), Fresh(new, caps), UNCHANGED <<caps, sync, dirty>>,
         NEW k, NEW entry, SetEx(k, entry), GoodEntry(caps, k, entry)
  PROVE  DiscoveryInv'
<1>1. StaleIsDirty'
  BY SetKeepsStale DEF DiscoveryInv
<1> QED BY <1>1, PageMoves

LEMMA MoveKeepsInv ==
  ASSUME DiscoveryInv, NEW b \in Browsers, NEW new, browse' = [browse EXCEPT ![b] = new],
         PageShaped(new), Fresh(new, caps), UNCHANGED <<caps, sync, dirty, redis>>
  PROVE  DiscoveryInv'
BY StaleStays, PageMoves

(* A page that is idle, or at a stage that stores nothing.                 *)
LEMMA QuietPage ==
  ASSUME NEW p, DOMAIN p = PageFields, p.raced \in BOOLEAN,
         p.stage \in {"idle", "window", "again", "done", "populate"}
  PROVE  PageShaped(p) /\ Fresh(p, caps)
BY DEF PageShaped, Fresh

LEMMA NoPageIsQuiet ==
  DOMAIN NoPage = PageFields /\ NoPage.raced \in BOOLEAN /\ NoPage.stage = "idle"
BY DEF NoPage, PageFields

LEMMA BrowseKeeps == ASSUME DiscoveryInv, NEW b \in Browsers, Browse(b) PROVE DiscoveryInv'
<1>1. ASSUME NEW offset \in 0..MaxOffset,
             browse' = [browse EXCEPT ![b] =
               [NoPage EXCEPT !.kind = paged, !.stage = "window", !.offset = offset, !.limit = Limit,
                              !.window = offset \div WindowSize]]
      PROVE  DiscoveryInv'
  <2> DEFINE new == [NoPage EXCEPT !.kind = paged, !.stage = "window", !.offset = offset, !.limit = Limit,
                                   !.window = offset \div WindowSize]
  <2>1. DOMAIN new = PageFields /\ new.raced \in BOOLEAN /\ new.stage = "window"
    BY DEF NoPage, PageFields
  <2> HIDE DEF new
  <2>2. PageShaped(new) /\ Fresh(new, caps)
    BY <2>1, QuietPage
  <2>3. browse' = [browse EXCEPT ![b] = new]
    BY <1>1 DEF new
  <2>4. UNCHANGED <<caps, sync, dirty, redis>>
    BY DEF Browse
  <2> QED BY <2>2, <2>3, <2>4, MoveKeepsInv
<1>2. ASSUME NEW c \in Detailed,
             browse' = [browse EXCEPT ![b] = [NoPage EXCEPT !.kind = "detail", !.stage = "detail", !.copy = c]]
      PROVE  DiscoveryInv'
  <2> DEFINE new == [NoPage EXCEPT !.kind = "detail", !.stage = "detail", !.copy = c]
  <2>1. DOMAIN new = PageFields /\ new.raced \in BOOLEAN /\ new.stage = "detail" /\ new.copy \in Categories
    BY DiscoveryAssumption DEF NoPage, PageFields
  <2> HIDE DEF new
  <2>2. PageShaped(new) /\ Fresh(new, caps)
    BY <2>1 DEF PageShaped, Fresh
  <2>3. browse' = [browse EXCEPT ![b] = new]
    BY <1>2 DEF new
  <2>4. UNCHANGED <<caps, sync, dirty, redis>>
    BY DEF Browse
  <2> QED BY <2>2, <2>3, <2>4, MoveKeepsInv
<1> QED BY <1>1, <1>2 DEF Browse

LEMMA GotIsQuiet ==
  ASSUME NEW p, PageShaped(p), NEW entry
  PROVE  PageShaped(Got(p, entry)) /\ Fresh(Got(p, entry), caps)
<1> DEFINE new == Got(p, entry)
<1>1. DOMAIN new = PageFields /\ new.raced = p.raced /\ new.stage = "window"
  BY DEF Got, PageShaped, PageFields
<1>2. new.raced \in BOOLEAN
  BY <1>1 DEF PageShaped
<1> HIDE DEF new
<1>3. PageShaped(new) /\ Fresh(new, caps)
  BY <1>1, <1>2, QuietPage
<1> QED BY <1>3 DEF new

(* A request goes on to another stage with what it has.                    *)
LEMMA StageMoves ==
  ASSUME DiscoveryInv, NEW b \in Browsers, NEW stage,
         browse' = [browse EXCEPT ![b].stage = stage],
         UNCHANGED <<caps, sync, dirty, redis>>,
         \/ stage \in {"idle", "window", "again", "done", "populate"}
         \/ stage = "read" /\ browse[b].kind = "trending"
         \/ stage = "row" /\ browse[b].stage = "detail"
  PROVE  DiscoveryInv'
<1> DEFINE new == [browse[b] EXCEPT !.stage = stage]
<1>1. PageShaped(browse[b])
  BY PageFacts
<1>2. /\ DOMAIN new = PageFields /\ new.raced = browse[b].raced /\ new.stage = stage
      /\ new.kind = browse[b].kind /\ new.copy = browse[b].copy
  BY <1>1 DEF PageShaped, PageFields
<1>3. browse' = [browse EXCEPT ![b] = new]
  OBVIOUS
<1> HIDE DEF new
<1>4. PageShaped(new) /\ Fresh(new, caps)
  BY <1>1, <1>2 DEF PageShaped, Fresh
<1> QED BY <1>3, <1>4, MoveKeepsInv

LEMMA GetWindowKeeps == ASSUME DiscoveryInv, NEW b \in Browsers, GetWindow(b) PROVE DiscoveryInv'
<1>1. UNCHANGED <<caps, sync, dirty, redis>>
  BY DEF GetWindow
<1>2. CASE browse' = [browse EXCEPT ![b] = Got(browse[b], redis[Key(browse[b])])]
  BY <1>1, <1>2, PageFacts, GotIsQuiet, MoveKeepsInv
<1>3. CASE browse' = [browse EXCEPT ![b].stage = "done"]
  BY <1>1, <1>3, StageMoves
<1>4. CASE browse' = [browse EXCEPT ![b].stage = IF browse[b].kind = "trending" THEN "read" ELSE "populate"]
  BY <1>1, <1>4, StageMoves
<1> QED BY <1>2, <1>3, <1>4, Zenon DEF GetWindow

LEMMA ReadTrendingKeeps == ASSUME DiscoveryInv, NEW b \in Browsers, ReadTrending(b) PROVE DiscoveryInv'
<1> DEFINE new == [browse[b] EXCEPT !.copy = ranking, !.stage = "store"]
<1>1. PageShaped(browse[b])
  BY PageFacts
<1>2. DOMAIN new = PageFields /\ new.raced = browse[b].raced /\ new.stage = "store" /\ new.kind = browse[b].kind
  BY <1>1 DEF PageShaped, PageFields
<1>3. /\ browse' = [browse EXCEPT ![b] = new] /\ UNCHANGED <<caps, sync, dirty, redis>>
      /\ browse[b].stage = "read"
  BY DEF ReadTrending
<1> HIDE DEF new
<1>4. PageShaped(new) /\ Fresh(new, caps)
  BY <1>1, <1>2, <1>3 DEF PageShaped, Fresh
<1> QED BY <1>3, <1>4, MoveKeepsInv

LEMMA StoreTrendingKeeps == ASSUME DiscoveryInv, NEW b \in Browsers, StoreTrending(b) PROVE DiscoveryInv'
<1> DEFINE p == browse[b]
           entry == Entry(p.copy, p.window, p.copy, FALSE)
<1>1. PageShaped(p)
  BY PageFacts
<1>2. /\ p.stage = "store" /\ SetEx(Key(p), entry) /\ browse' = [browse EXCEPT ![b] = Got(p, entry)]
      /\ UNCHANGED <<caps, sync, dirty>>
  BY DEF StoreTrending
<1>3. Key(p)[1] = "trending"
  BY <1>1, <1>2 DEF Key, PageShaped
<1> HIDE DEF p, entry
<1>4. GoodEntry(caps, Key(p), entry)
  BY <1>3 DEF GoodEntry, AgreesWith
<1> QED BY <1>1, <1>2, <1>4, GotIsQuiet, SetExKeepsInv

LEMMA ReadCategoriesKeeps == ASSUME DiscoveryInv, NEW b \in Browsers, ReadCategories(b) PROVE DiscoveryInv'
<1> DEFINE new == [browse[b] EXCEPT !.copy = RankedCategories(caps), !.raced = FALSE, !.next = 0, !.stage = "total"]
<1>1. PageShaped(browse[b])
  BY PageFacts
<1>2. DOMAIN new = PageFields /\ new.raced = FALSE /\ new.stage = "total" /\ new.copy = RankedCategories(caps)
  BY <1>1 DEF PageShaped, PageFields
<1>3. browse' = [browse EXCEPT ![b] = new] /\ UNCHANGED <<caps, sync, dirty, redis>>
  BY DEF ReadCategories, ValidCategories
<1> HIDE DEF new
<1>4. PageShaped(new) /\ Fresh(new, caps)
  BY <1>2 DEF PageShaped, Fresh
<1> QED BY <1>3, <1>4, MoveKeepsInv

LEMMA SetTotalKeeps == ASSUME DiscoveryInv, NEW b \in Browsers, SetTotal(b) PROVE DiscoveryInv'
<1> DEFINE p == browse[b]
           k == <<"total">>
           entry == [items |-> Len(p.copy), of |-> <<>>, raced |-> p.raced]
           new == [browse[b] EXCEPT !.stage = "fill"]
<1>1. PageShaped(p) /\ Fresh(p, caps)
  BY PageFacts
<1>2. /\ p.stage = "total" /\ SetEx(k, entry) /\ browse' = [browse EXCEPT ![b] = new]
      /\ UNCHANGED <<caps, sync, dirty>>
  BY DEF SetTotal
<1>3. DOMAIN new = PageFields /\ new.raced = p.raced /\ new.stage = "fill" /\ new.copy = p.copy
  BY <1>1 DEF PageShaped, PageFields
<1>4. k[1] = "total" /\ entry.raced = p.raced /\ entry.items = Len(p.copy)
  OBVIOUS
<1> HIDE DEF p, new, entry, k
<1>5. PageShaped(new) /\ Fresh(new, caps)
  BY <1>1, <1>2, <1>3 DEF PageShaped, Fresh
<1>6. GoodEntry(caps, k, entry)
  BY <1>1, <1>2, <1>4 DEF GoodEntry, AgreesWith, Fresh
<1> QED BY <1>2, <1>5, <1>6, SetExKeepsInv

LEMMA FillWindowKeeps == ASSUME DiscoveryInv, NEW b \in Browsers, FillWindow(b) PROVE DiscoveryInv'
<1> DEFINE p == browse[b]
           k == <<"window", p.next>>
           entry == Entry(p.copy, p.next, <<>>, p.raced)
           new == [browse[b] EXCEPT !.next = @ + 1]
<1>1. PageShaped(p) /\ Fresh(p, caps)
  BY PageFacts
<1>2. p.stage = "fill" /\ UNCHANGED <<caps, sync, dirty>>
  BY DEF FillWindow
<1>3. CASE /\ SetEx(k, entry)
           /\ browse' = [browse EXCEPT ![b] = new]
  <2>1. /\ DOMAIN new = PageFields /\ new.raced = p.raced /\ new.stage = "fill"
        /\ new.copy = p.copy /\ new.got = p.got
    BY <1>1, <1>2 DEF PageShaped, PageFields
  <2>2. /\ k[1] = "window" /\ k[2] = p.next /\ entry.raced = p.raced
        /\ entry.items = Direct(p.copy, p.next * WindowSize, WindowSize)
    BY DEF Entry
  <2> HIDE DEF p, new, entry, k
  <2>3. PageShaped(new) /\ Fresh(new, caps)
    BY <1>1, <1>2, <2>1 DEF PageShaped, Fresh
  <2>4. GoodEntry(caps, k, entry)
    BY <1>1, <1>2, <2>2 DEF GoodEntry, AgreesWith, Fresh
  <2> QED BY <1>2, <1>3, <2>3, <2>4, SetExKeepsInv
<1>4. CASE browse' = [browse EXCEPT ![b].stage = "again"] /\ UNCHANGED redis
  BY <1>2, <1>4, StageMoves
<1> QED BY <1>3, <1>4 DEF FillWindow

LEMMA DetailKeeps ==
  ASSUME DiscoveryInv, NEW b \in Browsers, GetAgain(b) \/ GetDetail(b) \/ Answer(b)
  PROVE  DiscoveryInv'
<1>1. UNCHANGED <<caps, sync, dirty, redis>>
  BY DEF GetAgain, GetDetail, Answer
<1>2. CASE GetAgain(b)
  BY <1>1, <1>2, PageFacts, GotIsQuiet, MoveKeepsInv DEF GetAgain
<1>3. CASE GetDetail(b)
  BY <1>1, <1>3, StageMoves DEF GetDetail
<1>4. CASE Answer(b)
  BY <1>1, <1>4, NoPageIsQuiet, QuietPage, MoveKeepsInv DEF Answer
<1> QED BY <1>2, <1>3, <1>4

LEMMA ReadCategoryKeeps == ASSUME DiscoveryInv, NEW b \in Browsers, ReadCategory(b) PROVE DiscoveryInv'
<1> DEFINE p == browse[b]
           new == [browse[b] EXCEPT !.raced = FALSE, !.got = <<caps[p.copy]>>, !.stage = "keep"]
<1>1. PageShaped(p) /\ p.stage = "row" /\ UNCHANGED <<caps, sync, dirty, redis>>
  BY PageFacts DEF ReadCategory
<1>2. CASE browse' = [browse EXCEPT ![b] = NoPage]
  BY <1>1, <1>2, NoPageIsQuiet, QuietPage, MoveKeepsInv
<1>3. CASE browse' = [browse EXCEPT ![b] = new]
  <2>1. /\ DOMAIN new = PageFields /\ new.raced = FALSE /\ new.stage = "keep"
        /\ new.copy = p.copy /\ new.got = <<caps[p.copy]>>
    BY <1>1 DEF PageShaped, PageFields
  <2> HIDE DEF p, new
  <2>2. PageShaped(new) /\ Fresh(new, caps)
    BY <1>1, <2>1 DEF PageShaped, Fresh
  <2> QED BY <1>1, <1>3, <2>2, MoveKeepsInv
<1> QED BY <1>2, <1>3 DEF ReadCategory

LEMMA KeepDetailKeeps == ASSUME DiscoveryInv, NEW b \in Browsers, KeepDetail(b) PROVE DiscoveryInv'
<1> DEFINE p == browse[b]
           k == <<"detail", p.copy>>
           entry == [items |-> p.got[1], of |-> <<>>, raced |-> p.raced]
           new == [browse[b] EXCEPT !.stage = "done"]
<1>1. PageShaped(p) /\ Fresh(p, caps)
  BY PageFacts
<1>2. /\ p.stage = "keep" /\ SetEx(k, entry) /\ browse' = [browse EXCEPT ![b] = new]
      /\ UNCHANGED <<caps, sync, dirty>>
  BY DEF KeepDetail
<1>3. DOMAIN new = PageFields /\ new.raced = p.raced /\ new.stage = "done"
  BY <1>1 DEF PageShaped, PageFields
<1>4. k[1] = "detail" /\ k[2] = p.copy /\ entry.raced = p.raced /\ entry.items = p.got[1]
  OBVIOUS
<1> HIDE DEF p, new, entry, k
<1>5. PageShaped(new) /\ Fresh(new, caps)
  BY <1>1, <1>3, QuietPage DEF PageShaped
<1>6. ~p.raced => p.got[1] = caps[p.copy]
  BY <1>1, <1>2 DEF Fresh
<1>7. GoodEntry(caps, k, entry)
  BY <1>4, <1>6 DEF GoodEntry, AgreesWith
<1> QED BY <1>2, <1>5, <1>7, SetExKeepsInv

(* A run of the sync moves on: the keys that are stale have to be its own, *)
(* or of a run that stays.                                                 *)
LEMMA SyncMoves ==
  ASSUME DiscoveryInv, NEW y \in Syncs, NEW new, sync' = [sync EXCEPT ![y] = new], SyncShaped(new),
         UNCHANGED <<caps, browse>>, dirty' \subseteq Syncs,
         \A x \in dirty : x # y => x \in dirty',
         DOMAIN redis' \subseteq DOMAIN redis, \A k \in DOMAIN redis' : redis'[k] = redis[k],
         y \in dirty =>
           \A k \in DOMAIN redis' : \/ redis[k].raced \/ AgreesWith(caps, k, redis[k].items)
                                    \/ ~WillRemove(sync[y], k)
                                    \/ y \in dirty' /\ WillRemove(new, k)
  PROVE  DiscoveryInv'
<1>1. /\ DOMAIN sync' = Syncs /\ sync'[y] = new /\ \A x \in Syncs : x # y => sync'[x] = sync[x]
  BY DEF DiscoveryInv, DiscoveryShaped
<1>2. DiscoveryShaped'
  <2>1. \A x \in Syncs : SyncShaped(sync'[x])
    BY <1>1 DEF DiscoveryInv, DiscoveryShaped
  <2> QED BY <1>1, <2>1 DEF DiscoveryInv, DiscoveryShaped
<1>3. CopiesFresh'
  BY DEF DiscoveryInv, CopiesFresh
<1>4. ASSUME NEW k \in DOMAIN redis', ~redis'[k].raced, ~AgreesWith(caps, k, redis'[k].items)
      PROVE  \E x \in dirty' : WillRemove(sync'[x], k)
  <2>1. PICK x \in dirty : WillRemove(sync[x], k)
    BY <1>4 DEF DiscoveryInv, StaleIsDirty
  <2>2. CASE x = y
    BY <1>1, <1>4, <2>1, <2>2
  <2>3. CASE x # y
    BY <1>1, <2>1, <2>3 DEF DiscoveryInv, DiscoveryShaped
  <2> QED BY <2>2, <2>3
<1>5. StaleIsDirty'
  BY <1>4 DEF StaleIsDirty
<1> QED BY <1>2, <1>3, <1>5 DEF DiscoveryInv

LEMMA NoSyncShape == SyncShaped(NoSync) /\ \A k : WillRemove(NoSync, k)
BY DEF NoSync, SyncShaped, SyncFields, WillRemove

LEMMA SyncFacts ==
  ASSUME DiscoveryInv, NEW y \in Syncs
  PROVE  SyncShaped(sync[y]) /\ dirty \subseteq Syncs
BY DEF DiscoveryInv, DiscoveryShaped

LEMMA StartSyncKeeps == ASSUME DiscoveryInv, NEW y \in Syncs, StartSync(y) PROVE DiscoveryInv'
<1>1. PICK found \in MarketCaps :
        sync' = [sync EXCEPT ![y] = [NoSync EXCEPT !.stage = "upsert", !.found = found,
                                                   !.todo = {c \in DOMAIN found : found[c] > 0}]]
  BY Zenon DEF StartSync
<1> DEFINE new == [NoSync EXCEPT !.stage = "upsert", !.found = found,
                                 !.todo = {c \in DOMAIN found : found[c] > 0}]
<1>2. DOMAIN new = SyncFields /\ new.clean = TRUE /\ new.stage = "upsert" /\ new.found = found
  BY DEF NoSync, SyncFields
<1>3. new.todo \subseteq DOMAIN found
  BY DEF NoSync
<1>4. sync' = [sync EXCEPT ![y] = new] /\ UNCHANGED <<caps, browse, redis, dirty>>
  BY <1>1 DEF StartSync
<1> HIDE DEF new
<1>5. SyncShaped(new)
  BY <1>2, <1>3, DiscoveryAssumption DEF SyncShaped
<1>6. \A k : WillRemove(new, k)
  BY <1>2 DEF WillRemove
<1> QED BY <1>4, <1>5, <1>6, SyncFacts, SyncMoves

LEMMA ListKeysKeeps == ASSUME DiscoveryInv, NEW y \in Syncs, ListKeys(y) PROVE DiscoveryInv'
<1> DEFINE new == [sync[y] EXCEPT !.keys = Keys, !.stage = "del"]
<1>1. UNCHANGED <<caps, browse, redis, dirty>>
  BY DEF ListKeys
<1>2. CASE sync' = [sync EXCEPT ![y] = NoSync]
  BY <1>1, <1>2, NoSyncShape, SyncFacts, SyncMoves
<1>3. CASE sync' = [sync EXCEPT ![y].keys = Keys, ![y].stage = "del"]
  <2>1. sync' = [sync EXCEPT ![y] = new]
    BY <1>3 DEF DiscoveryInv, DiscoveryShaped
  <2>2. DOMAIN new = SyncFields /\ new.clean = sync[y].clean /\ new.stage = "del" /\ new.keys = Keys
    BY SyncFacts DEF SyncShaped, SyncFields
  <2>3. \A k \in DOMAIN redis : k \notin Keys => AgreesWith(caps, k, redis[k].items)
    BY DEF Keys, AgreesWith
  <2> HIDE DEF new
  <2>4. SyncShaped(new)
    BY <2>2, SyncFacts DEF SyncShaped
  <2>5. \A k \in Keys : WillRemove(new, k)
    BY <2>2 DEF WillRemove
  <2> QED BY <1>1, <2>1, <2>3, <2>4, <2>5, SyncFacts, SyncMoves
<1> QED BY <1>2, <1>3 DEF ListKeys

LEMMA DeleteKeyKeeps == ASSUME DiscoveryInv, NEW y \in Syncs, DeleteKey(y) PROVE DiscoveryInv'
<1> DEFINE gone == CHOOSE k \in sync[y].keys : TRUE
           rest == sync[y].keys \ {gone}
<1>1. UNCHANGED <<caps, browse, dirty>> /\ sync[y].stage = "del" /\ SyncShaped(sync[y])
  BY SyncFacts DEF DeleteKey
<1>2. CASE redis' = Without({gone}) /\ sync' = [sync EXCEPT ![y].keys = @ \ {gone}]
  <2> DEFINE new == [sync[y] EXCEPT !.keys = rest]
  <2>1. sync' = [sync EXCEPT ![y] = new]
    BY <1>2
  <2>2. DOMAIN new = SyncFields /\ new.clean = sync[y].clean /\ new.stage = "del" /\ new.keys = rest
    BY <1>1 DEF SyncShaped, SyncFields
  <2> HIDE DEF new, gone
  <2>3. DOMAIN redis' = DOMAIN redis \ {gone} /\ \A k \in DOMAIN redis' : redis'[k] = redis[k]
    BY <1>2 DEF Without
  <2>4. SyncShaped(new)
    BY <1>1, <2>2 DEF SyncShaped
  <2>5. \A k : k # gone /\ WillRemove(sync[y], k) => WillRemove(new, k)
    BY <1>1, <2>2 DEF WillRemove
  <2> QED BY <1>1, <2>1, <2>3, <2>4, <2>5, SyncFacts, SyncMoves
<1>3. CASE redis' = redis /\ sync' = [sync EXCEPT ![y].keys = @ \ {gone}, ![y].clean = FALSE]
  <2> DEFINE new == [sync[y] EXCEPT !.keys = rest, !.clean = FALSE]
  <2>1. sync' = [sync EXCEPT ![y] = new]
    BY <1>3 DEF DiscoveryInv, DiscoveryShaped
  <2>2. DOMAIN new = SyncFields /\ new.clean = FALSE /\ new.stage = "del"
    BY <1>1 DEF SyncShaped, SyncFields
  <2> HIDE DEF new, gone, rest
  <2>3. SyncShaped(new)
    BY <2>2 DEF SyncShaped
  <2>4. \A k : WillRemove(new, k)
    BY <2>2 DEF WillRemove
  <2> QED BY <1>1, <1>3, <2>1, <2>3, <2>4, SyncFacts, SyncMoves
<1> QED BY <1>2, <1>3 DEF DeleteKey

LEMMA EndKeeps == ASSUME DiscoveryInv, NEW y \in Syncs, EndSync(y) \/ SyncFails(y) PROVE DiscoveryInv'
<1>1. sync' = [sync EXCEPT ![y] = NoSync] /\ UNCHANGED <<caps, browse, redis>>
  BY DEF EndSync, SyncFails
<1>2. CASE dirty' = dirty
  BY <1>1, <1>2, NoSyncShape, SyncFacts, SyncMoves
<1>3. CASE dirty' = dirty \ {y} /\ sync[y].clean /\ sync[y].stage = "del" /\ sync[y].keys = {}
  <2>1. \A k : ~WillRemove(sync[y], k)
    BY <1>3 DEF WillRemove
  <2> QED BY <1>1, <1>3, <2>1, NoSyncShape, SyncFacts, SyncMoves
<1> QED BY <1>2, <1>3 DEF EndSync, SyncFails

(* A run that changes the table makes every copy raced and every key its   *)
(* own; one that finds the row as it is changes nothing.                   *)
LEMMA UpsertCategoryKeeps == ASSUME DiscoveryInv, NEW y \in Syncs, UpsertCategory(y) PROVE DiscoveryInv'
<1> DEFINE c == CHOOSE x \in sync[y].todo : TRUE
           changed == caps[c] # sync[y].found[c]
           new == [sync[y] EXCEPT !.todo = @ \ {c}]
<1>1. /\ sync[y].stage = "upsert" /\ sync[y].todo # {} /\ SyncShaped(sync[y])
      /\ caps' = [caps EXCEPT ![c] = sync[y].found[c]] /\ redis' = redis
      /\ browse' = [b \in Browsers |-> [browse[b] EXCEPT !.raced = changed \/ @]]
      /\ dirty' = IF changed THEN dirty \cup {y} ELSE dirty
      /\ sync' = [sync EXCEPT ![y] = new]
  BY SyncFacts DEF UpsertCategory
<1>2. c \in Categories /\ sync[y].found[c] \in Nat
  BY <1>1 DEF SyncShaped
<1>3. /\ DOMAIN new = SyncFields /\ new.clean = sync[y].clean /\ new.stage = "upsert"
      /\ new.found = sync[y].found /\ new.todo \subseteq sync[y].todo
  BY <1>1 DEF SyncShaped, SyncFields
<1>4. caps' \in [Categories -> Nat] /\ (~changed => caps' = caps)
  BY <1>1, <1>2 DEF DiscoveryInv, DiscoveryShaped
<1>5. \A b \in Browsers : browse'[b] = [browse[b] EXCEPT !.raced = changed \/ browse[b].raced]
  BY <1>1
<1>6. changed \in BOOLEAN
  OBVIOUS
<1>7. DOMAIN browse' = Browsers
  BY <1>1
<1> HIDE DEF c, changed, new
<1>8. ASSUME NEW b \in Browsers
      PROVE  /\ DOMAIN browse'[b] = PageFields /\ browse'[b].raced = (changed \/ browse[b].raced)
             /\ browse'[b].kind = browse[b].kind /\ browse'[b].stage = browse[b].stage
             /\ browse'[b].copy = browse[b].copy /\ browse'[b].got = browse[b].got
  BY <1>5, PageFacts DEF PageShaped, PageFields
<1>9. ASSUME NEW b \in Browsers PROVE browse'[b].raced \in BOOLEAN /\ (changed \/ browse[b].raced => browse'[b].raced)
  BY <1>8, Zenon
<1>10. ASSUME NEW b \in Browsers PROVE PageShaped(browse'[b])
  BY <1>8, <1>9, PageFacts DEF PageShaped
<1>11. SyncShaped(new)
  BY <1>1, <1>3 DEF SyncShaped
<1>12. /\ DOMAIN sync' = Syncs /\ sync'[y] = new /\ \A x \in Syncs : x # y => sync'[x] = sync[x]
  BY <1>1 DEF DiscoveryInv, DiscoveryShaped
<1>13. DiscoveryShaped'
  <2>1. \A x \in Syncs : SyncShaped(sync'[x])
    BY <1>11, <1>12 DEF DiscoveryInv, DiscoveryShaped
  <2>2. dirty' \subseteq Syncs
    BY <1>1, SyncFacts
  <2> QED BY <1>4, <1>7, <1>10, <1>12, <2>1, <2>2 DEF DiscoveryShaped
<1>14. CopiesFresh'
  <2>1. ASSUME NEW b \in Browsers PROVE Fresh(browse'[b], caps')
    <3>1. CASE changed
      BY <1>9, <3>1 DEF Fresh
    <3>2. CASE ~changed
      <4>1. ~browse'[b].raced => ~browse[b].raced
        BY <1>9
      <4> QED BY <1>4, <1>8, <3>2, <4>1, PageFacts DEF Fresh
    <3> QED BY <3>1, <3>2
  <2> QED BY <2>1 DEF CopiesFresh
<1>15. StaleIsDirty'
  <2>1. \A k : WillRemove(new, k)
    BY <1>3 DEF WillRemove
  <2>2. CASE changed
    BY <1>1, <1>12, <2>1, <2>2 DEF StaleIsDirty
  <2>3. CASE ~changed
    <3>1. caps' = caps /\ redis' = redis /\ dirty' = dirty
      BY <1>1, <1>4, <2>3
    <3>2. \A x \in dirty, k \in DOMAIN redis : WillRemove(sync[x], k) => WillRemove(sync'[x], k)
      BY <1>12, <2>1, SyncFacts
    <3> QED BY <3>1, <3>2 DEF DiscoveryInv, StaleIsDirty
  <2> QED BY <2>2, <2>3
<1> QED BY <1>13, <1>14, <1>15 DEF DiscoveryInv

LEMMA RedisKeeps ==
  ASSUME DiscoveryInv, UNCHANGED <<caps, browse, sync, dirty>>,
         DOMAIN redis' \subseteq DOMAIN redis, \A k \in DOMAIN redis' : redis'[k] = redis[k]
  PROVE  DiscoveryInv'
<1>1. DiscoveryShaped' /\ CopiesFresh'
  BY DEF DiscoveryInv, DiscoveryShaped, CopiesFresh
<1>2. StaleIsDirty'
  BY DEF DiscoveryInv, StaleIsDirty
<1> QED BY <1>1, <1>2 DEF DiscoveryInv

LEMMA DiscoveryInvInit == DiscoveryInit => DiscoveryInv
<1> SUFFICES ASSUME DiscoveryInit PROVE DiscoveryInv
  OBVIOUS
<1>1. /\ caps \in [Categories -> Nat] /\ redis = NoKeys /\ dirty = {}
      /\ browse = [b \in Browsers |-> NoPage] /\ sync = [y \in Syncs |-> NoSync]
  BY DiscoveryAssumption DEF DiscoveryInit
<1>2. PageShaped(NoPage) /\ Fresh(NoPage, caps)
  BY NoPageIsQuiet, QuietPage
<1>3. DOMAIN redis = {}
  BY <1>1 DEF NoKeys
<1> QED BY <1>1, <1>2, <1>3, NoSyncShape DEF DiscoveryInv, DiscoveryShaped, CopiesFresh, StaleIsDirty

LEMMA DiscoveryInvStep == DiscoveryInv /\ [DiscoveryStep]_discoveryVars => DiscoveryInv'
<1> SUFFICES ASSUME DiscoveryInv, [DiscoveryStep]_discoveryVars PROVE DiscoveryInv'
  OBVIOUS
<1>1. CASE Reranked \/ UNCHANGED discoveryVars
  BY <1>1, RedisKeeps DEF Reranked, discoveryVars
<1>2. CASE Expires
  BY <1>2, RedisKeeps DEF Expires, Without
<1> QED BY <1>1, <1>2, BrowseKeeps, GetWindowKeeps, ReadTrendingKeeps, StoreTrendingKeeps, ReadCategoriesKeeps,
           SetTotalKeeps, FillWindowKeeps, DetailKeeps, ReadCategoryKeeps, KeepDetailKeeps,
           StartSyncKeeps, UpsertCategoryKeeps, ListKeysKeeps, DeleteKeyKeeps, EndKeeps, Zenon DEF DiscoveryStep

LEMMA DiscoveryInvAlways == DiscoverySpec => []DiscoveryInv
BY DiscoveryInvInit, DiscoveryInvStep, PTL DEF DiscoverySpec

(* When every run of the sync that changed the table has removed its keys, *)
(* each key of the categories agrees with the table, but for what a        *)
(* request read before a change and stored after it, for any categories,   *)
(* window size, number of requests and of runs.                            *)
THEOREM SyncedKeysAlwaysAgree == DiscoverySpec => []SyncedKeysAgree
<1>1. ASSUME DiscoveryInv PROVE SyncedKeysAgree
  <2> SUFFICES ASSUME dirty = {}, NEW k \in DOMAIN redis, ~redis[k].raced
               PROVE  AgreesWith(caps, k, redis[k].items)
    BY DEF SyncedKeysAgree, AgreesWith, ValidCategories
  <2> QED BY <1>1 DEF DiscoveryInv, StaleIsDirty
<1> QED BY <1>1, DiscoveryInvAlways, PTL

(* The length of the m items behind the first a of n.                      *)
Cut(n, a, m) == IF a >= n THEN 0 ELSE IF a + m <= n THEN m ELSE n - a

LEMMA CutNat ==
  ASSUME NEW n \in Nat, NEW a \in Nat, NEW m \in Nat
  PROVE  Cut(n, a, m) \in Nat
BY DEF Cut

LEMMA CutIs ==
  ASSUME NEW n \in Nat, NEW a \in Nat, NEW m \in Nat
  PROVE  /\ a >= n => Cut(n, a, m) = 0
         /\ a < n /\ a + m <= n => Cut(n, a, m) = m
         /\ a < n /\ a + m > n => Cut(n, a, m) = n - a
BY DEF Cut

LEMMA CutsJoin ==
  ASSUME NEW n \in Nat, NEW a \in Nat, NEW m \in Nat, NEW w \in Nat
  PROVE  Cut(n, a, m) + Cut(n, a + m, w) = Cut(n, a, m + w)
<1>1. a + m \in Nat /\ m + w \in Nat /\ a + (m + w) = a + m + w
  OBVIOUS
<1>2. CASE a >= n
  BY <1>1, <1>2 DEF Cut
<1>3. CASE a < n /\ a + m > n
  BY <1>1, <1>3 DEF Cut
<1>4. CASE a < n /\ a + m = n
  BY <1>1, <1>4 DEF Cut
<1>5. CASE a < n /\ a + m < n
  BY <1>1, <1>5 DEF Cut
<1> QED BY <1>1, <1>2, <1>3, <1>4, <1>5

LEMMA MinOfTwo ==
  ASSUME NEW a \in Int, NEW b \in Int
  PROVE  Min({a, b}) = IF a <= b THEN a ELSE b
<1>1. \E x \in {a, b} : \A y \in {a, b} : x <= y
  OBVIOUS
<1>2. Min({a, b}) \in {a, b} /\ \A y \in {a, b} : Min({a, b}) <= y
  BY <1>1, Zenon DEF Min
<1> QED BY <1>2

(* A page is what the list has there.                                      *)
PageOK(x, E, s, a, c) == x \in Seq(E) /\ Len(x) = c /\ \A i \in 1..c : x[i] = s[a + i]

LEMMA DirectWith ==
  ASSUME NEW E, NEW s \in Seq(E), NEW a \in Nat, NEW m \in Nat,
         NEW n \in Nat, n = Len(s), NEW c \in Nat, c = Cut(n, a, m)
  PROVE  \E x \in Seq(E) : x = Direct(s, a, m) /\ Len(x) = c /\ \A i \in 1..c : x[i] = s[a + i]
<1>2. PICK e \in Nat : e = IF a + m <= n THEN a + m ELSE n
  <2>1. a + m \in Nat
    OBVIOUS
  <2> QED BY <2>1, Zenon
<1>4. Direct(s, a, m) = SubSeq(s, a + 1, e)
  <2>1. a + m \in Int /\ n \in Int
    OBVIOUS
  <2>2. Min({a + m, n}) = e
    BY <1>2, <2>1, MinOfTwo
  <2> QED BY <2>2 DEF Direct
<1>5. SubSeq(s, a + 1, e) = [i \in 1..c |-> s[a + i]]
  <2>1. SubSeq(s, a + 1, e) = [i \in 1..(1 + e - (a + 1)) |-> s[i + (a + 1) - 1]]
    BY <1>2
  <2>2. 1..(1 + e - (a + 1)) = 1..c
    BY <1>2 DEF Cut
  <2>3. \A i \in 1..c : s[i + (a + 1) - 1] = s[a + i]
    OBVIOUS
  <2> QED BY <2>1, <2>2, <2>3
<1>6. \A i \in 1..c : s[a + i] \in E
  <2>1. \A i \in 1..c : a + i \in 1..n
    BY DEF Cut
  <2> QED BY <2>1
<1> DEFINE x == [i \in 1..c |-> s[a + i]]
<1>7. x \in Seq(E) /\ Len(x) = c /\ \A i \in 1..c : x[i] = s[a + i]
  BY <1>6
<1>8. x = Direct(s, a, m)
  BY <1>4, <1>5
<1> HIDE DEF x
<1> QED BY <1>7, <1>8

LEMMA DirectIs ==
  ASSUME NEW E, NEW s \in Seq(E), NEW a \in Nat, NEW m \in Nat
  PROVE  PageOK(Direct(s, a, m), E, s, a, Cut(Len(s), a, m))
<1>1. PICK n \in Nat : n = Len(s)
  OBVIOUS
<1>2. PICK c \in Nat : c = Cut(n, a, m)
  BY <1>1, CutNat
<1>3. PICK x \in Seq(E) : x = Direct(s, a, m) /\ Len(x) = c /\ \A i \in 1..c : x[i] = s[a + i]
  BY <1>1, <1>2, DirectWith
<1> QED BY <1>1, <1>2, <1>3 DEF PageOK

LEMMA ConcatType ==
  ASSUME NEW E, NEW s \in Seq(E), NEW t \in Seq(E)
  PROVE  s \o t \in Seq(E) /\ Len(s \o t) = Len(s) + Len(t)
OBVIOUS

LEMMA ConcatIs ==
  ASSUME NEW E, NEW s \in Seq(E), NEW t \in Seq(E)
  PROVE  \A i \in 1..Len(s) + Len(t) : (s \o t)[i] = IF i <= Len(s) THEN s[i] ELSE t[i - Len(s)]
OBVIOUS

LEMMA SameSeq ==
  ASSUME NEW E, NEW s \in Seq(E), NEW t \in Seq(E), Len(s) = Len(t), \A i \in 1..Len(s) : s[i] = t[i]
  PROVE  s = t
OBVIOUS

(* Two pages that follow each other are one.                               *)
LEMMA PagesJoin ==
  ASSUME NEW E, NEW s \in Seq(E), NEW a \in Nat, NEW m \in Nat, NEW w \in Nat
  PROVE  Direct(s, a, m) \o Direct(s, a + m, w) = Direct(s, a, m + w)
<1>0. PICK n \in Nat : n = Len(s)
  OBVIOUS
<1>1. PICK c \in Nat : c = Cut(n, a, m)
  BY <1>0, CutNat
<1>2. PICK d \in Nat : d = Cut(n, a + m, w)
  <2>1. a + m \in Nat
    OBVIOUS
  <2> QED BY <1>0, <2>1, CutNat
<1>3. PICK x : x = Direct(s, a, m) /\ x \in Seq(E) /\ Len(x) = c /\ \A i \in 1..c : x[i] = s[a + i]
  <2>1. PageOK(Direct(s, a, m), E, s, a, Cut(Len(s), a, m))
    BY DirectIs, Zenon
  <2> QED BY <1>0, <1>1, <2>1 DEF PageOK
<1>4. PICK y : y = Direct(s, a + m, w) /\ y \in Seq(E) /\ Len(y) = d /\ \A i \in 1..d : y[i] = s[a + m + i]
  <2>1. a + m \in Nat
    OBVIOUS
  <2>2. PageOK(Direct(s, a + m, w), E, s, a + m, Cut(Len(s), a + m, w))
    BY <2>1, DirectIs, Zenon
  <2> QED BY <1>0, <1>2, <2>2 DEF PageOK
<1>5. PICK z : z = Direct(s, a, m + w) /\ z \in Seq(E) /\ Len(z) = c + d /\ \A i \in 1..c + d : z[i] = s[a + i]
  <2>1. m + w \in Nat /\ c + d \in Nat
    BY <1>1, <1>2
  <2>2. c + d = Cut(n, a, m + w)
    BY <1>0, <1>1, <1>2, CutsJoin
  <2>3. PageOK(Direct(s, a, m + w), E, s, a, Cut(Len(s), a, m + w))
    BY <2>1, DirectIs, Zenon
  <2> QED BY <1>0, <2>2, <2>3 DEF PageOK
<1>6. x \o y \in Seq(E) /\ Len(x \o y) = c + d
  <2>1. x \in Seq(E) /\ y \in Seq(E) /\ Len(x) = c /\ Len(y) = d
    BY <1>3, <1>4
  <2>2. x \o y \in Seq(E) /\ Len(x \o y) = Len(x) + Len(y)
    BY <2>1, ConcatType
  <2> QED BY <2>1, <2>2
<1>7. ASSUME NEW i \in 1..c + d PROVE (x \o y)[i] = z[i]
  <2>1. CASE i <= c
    <3>1. i \in 1..c
      BY <1>1, <1>2, <2>1
    <3>2. (x \o y)[i] = x[i]
      BY <1>1, <1>2, <1>3, <1>4, <3>1
    <3> QED BY <1>3, <1>5, <3>1, <3>2
  <2>2. CASE i > c
    <3>1. i - c \in 1..d
      BY <1>1, <1>2, <2>2
    <3>4. c = m
      <4>1. a + m \in Nat /\ d # 0
        BY <1>2, <3>1
      <4>2. a + m < n
        BY <1>0, <1>2, <4>1, CutIs
      <4> QED BY <1>0, <1>1, <4>2, CutIs
    <3>2. (x \o y)[i] = y[i - c]
      <4>1. i \in Nat /\ i > Len(x) /\ i <= Len(x) + Len(y) /\ Len(x) = c
        BY <1>1, <1>2, <1>3, <1>4, <2>2
      <4>2. (x \o y)[i] = y[i - Len(x)]
        <5>1. i \in 1..Len(x) + Len(y) /\ ~(i <= Len(x))
          BY <1>1, <1>2, <1>3, <1>4, <4>1
        <5>2. x \in Seq(E) /\ y \in Seq(E)
          BY <1>3, <1>4
        <5> QED BY <5>1, <5>2, ConcatIs
      <4> QED BY <4>1, <4>2
    <3>3. y[i - c] = s[a + m + (i - c)] /\ a + m + (i - c) = a + i
      BY <1>1, <1>4, <3>1, <3>4
    <3> QED BY <1>5, <3>2, <3>3
  <2>3. i <= c \/ i > c
    BY <1>1, <1>2
  <2> QED BY <2>1, <2>2, <2>3
<1>8. x \o y = z
  BY <1>5, <1>6, <1>7, SameSeq
<1> QED BY <1>3, <1>4, <1>5, <1>8

LEMMA CutInCut ==
  ASSUME NEW n \in Nat, NEW a \in Nat, NEW m \in Nat, NEW r \in Nat, NEW l \in Nat, r + l <= m
  PROVE  Cut(Cut(n, a, m), r, l) = Cut(n, a + r, l)
BY DEF Cut

LEMMA CutWithin ==
  ASSUME NEW n \in Nat, NEW r \in Nat, NEW l \in Nat, NEW i \in 1..Cut(n, r, l)
  PROVE  r + i \in 1..n
BY DEF Cut

LEMMA PagesJoinAll ==
  ASSUME NEW E, NEW s \in Seq(E), NEW w \in Nat
  PROVE  \A a, m \in Nat : Direct(s, a, m) \o Direct(s, a + m, w) = Direct(s, a, m + w)
BY PagesJoin

(* A page of a page that reaches as far.                                   *)
LEMMA PageOfPage ==
  ASSUME NEW E, NEW s \in Seq(E), NEW a \in Nat, NEW m \in Nat, NEW r \in Nat, NEW l \in Nat,
         Cut(Cut(Len(s), a, m), r, l) = Cut(Len(s), a + r, l)
  PROVE  Direct(Direct(s, a, m), r, l) = Direct(s, a + r, l)
<1>0. PICK n \in Nat : n = Len(s)
  OBVIOUS
<1>1. PICK c \in Nat : c = Cut(n, a, m)
  BY <1>0, CutNat
<1>2. PICK d \in Nat : d = Cut(n, a + r, l)
  <2>1. a + r \in Nat
    OBVIOUS
  <2> QED BY <1>0, <2>1, CutNat
<1>3. PICK x : x = Direct(s, a, m) /\ x \in Seq(E) /\ Len(x) = c /\ \A i \in 1..c : x[i] = s[a + i]
  <2>1. PageOK(Direct(s, a, m), E, s, a, Cut(Len(s), a, m))
    BY DirectIs, Zenon
  <2> QED BY <1>0, <1>1, <2>1 DEF PageOK
<1>4. d = Cut(c, r, l)
  BY <1>0, <1>1, <1>2
<1>5. PICK y : y = Direct(x, r, l) /\ y \in Seq(E) /\ Len(y) = d /\ \A i \in 1..d : y[i] = x[r + i]
  <2>1. x \in Seq(E) /\ c = Len(x)
    BY <1>3
  <2>2. PageOK(Direct(x, r, l), E, x, r, Cut(Len(x), r, l))
    BY <2>1, DirectIs, Zenon
  <2> QED BY <1>4, <2>1, <2>2 DEF PageOK
<1>6. PICK z : z = Direct(s, a + r, l) /\ z \in Seq(E) /\ Len(z) = d /\ \A i \in 1..d : z[i] = s[a + r + i]
  <2>1. a + r \in Nat
    OBVIOUS
  <2>2. PageOK(Direct(s, a + r, l), E, s, a + r, Cut(Len(s), a + r, l))
    BY <2>1, DirectIs, Zenon
  <2> QED BY <1>0, <1>2, <2>2 DEF PageOK
<1>7. ASSUME NEW i \in 1..d PROVE y[i] = z[i]
  <2>1. r + i \in 1..c
    BY <1>1, <1>4, CutWithin
  <2>2. x[r + i] = s[a + (r + i)] /\ a + (r + i) = a + r + i
    BY <1>1, <1>3, <2>1
  <2> QED BY <1>5, <1>6, <2>2
<1>8. y = z
  BY <1>5, <1>6, <1>7, SameSeq
<1> QED BY <1>3, <1>5, <1>6, <1>8

LEMMA PageInPage ==
  ASSUME NEW E, NEW s \in Seq(E), NEW a \in Nat, NEW m \in Nat, NEW r \in Nat, NEW l \in Nat, r + l <= m
  PROVE  Direct(Direct(s, a, m), r, l) = Direct(s, a + r, l)
<1>1. Len(s) \in Nat
  OBVIOUS
<1>2. Cut(Cut(Len(s), a, m), r, l) = Cut(Len(s), a + r, l)
  BY <1>1, CutInCut
<1> QED BY <1>2, PageOfPage

(* The definition of FlattenSeq has a solution.                            *)
LEMMA FlattenExists ==
  ASSUME NEW E, NEW ss \in Seq(Seq(E))
  PROVE  \E f : f = [i \in 1..Len(ss) |-> IF i = 1 THEN ss[i] ELSE f[i - 1] \o ss[i]]
<1> DEFINE n == Len(ss)
           Part(g, m) == \A i \in 1..n : i <= m => g[i] = IF i = 1 THEN ss[i] ELSE g[i - 1] \o ss[i]
           Bad == {m \in Nat : ~\E g : Part(g, m)}
<1>0. n \in Nat
  OBVIOUS
<1> HIDE DEF n
<1>1. Bad = {}
  <2> SUFFICES ASSUME Bad # {} PROVE FALSE
    OBVIOUS
  <2>1. PICK m \in Bad : \A j \in Bad : m <= j
    <3>1. Bad \in SUBSET Nat
      OBVIOUS
    <3> HIDE DEF Bad
    <3> QED BY <3>1, LeastOf
  <2>2. m \in Nat /\ ~\E g : Part(g, m)
    OBVIOUS
  <2>3. m # 0
    <3>1. Part(ss, 0)
      OBVIOUS
    <3> HIDE DEF Part
    <3> QED BY <2>2, <3>1
  <2>4. m - 1 \in Nat /\ m - 1 \notin Bad
    <3>1. m - 1 \in Nat /\ ~(m <= m - 1)
      BY <2>2, <2>3
    <3> HIDE DEF Bad
    <3> QED BY <2>1, <3>1
  <2>5. PICK g : Part(g, m - 1)
    BY <2>4
  <2> DEFINE h == [i \in 1..n |-> IF i = m THEN (IF m = 1 THEN ss[m] ELSE g[m - 1] \o ss[m]) ELSE g[i]]
  <2>6. ASSUME NEW i \in 1..n, i <= m
        PROVE  h[i] = IF i = 1 THEN ss[i] ELSE h[i - 1] \o ss[i]
    <3>1. CASE i = m
      <4>1. i # 1 => i - 1 \in 1..n /\ i - 1 # m
        BY <1>0, <3>1
      <4> QED BY <3>1, <4>1
    <3>2. CASE i # m
      <4>0. i \in Nat /\ m \in Nat /\ i <= m /\ i # m /\ n \in Nat /\ 1 <= i /\ i <= n
        BY <1>0, <2>2, <2>6, <3>2
      <4> HIDE DEF h
      <4>1. i <= m - 1 /\ (i # 1 => i - 1 \in 1..n /\ i - 1 # m)
        BY <4>0
      <4> USE DEF h
      <4>2. g[i] = IF i = 1 THEN ss[i] ELSE g[i - 1] \o ss[i]
        BY <2>5, <4>1
      <4> QED BY <3>2, <4>1, <4>2
    <3> QED BY <3>1, <3>2
  <2>7. Part(h, m)
    <3> HIDE DEF h
    <3> QED BY <2>6
  <2> HIDE DEF Part
  <2> QED BY <2>2, <2>7
<1>2. PICK g : Part(g, n)
  BY <1>0, <1>1
<1> DEFINE f == [i \in 1..n |-> g[i]]
<1>3. ASSUME NEW i \in 1..n PROVE f[i] = IF i = 1 THEN ss[i] ELSE f[i - 1] \o ss[i]
  <2>1. i <= n /\ (i # 1 => i - 1 \in 1..n)
    BY <1>0
  <2>2. g[i] = IF i = 1 THEN ss[i] ELSE g[i - 1] \o ss[i]
    BY <1>2, <2>1
  <2> QED BY <2>1, <2>2
<1>4. f = [i \in 1..n |-> f[i]]
  OBVIOUS
<1> HIDE DEF f
<1>5. f = [i \in 1..n |-> IF i = 1 THEN ss[i] ELSE f[i - 1] \o ss[i]]
  BY <1>3, <1>4
<1> QED BY <1>5 DEF n

(* Windows that follow each other, the first of them the q-th, make one    *)
(* page.                                                                   *)
Consecutive(ss, s, q, w) == \A i \in 1..Len(ss) : ss[i] = Direct(s, (q + i - 1) * w, w)

LEMMA WindowsJoin ==
  ASSUME NEW E, NEW s \in Seq(E), NEW w \in Nat \ {0}, NEW q \in Nat, NEW ss \in Seq(Seq(E)), Len(ss) # 0,
         Consecutive(ss, s, q, w)
  PROVE  FlattenSeq(ss) = Direct(s, q * w, Len(ss) * w)
<1> DEFINE n == Len(ss)
           IsFlat(f) == f = [i \in 1..n |-> IF i = 1 THEN ss[i] ELSE f[i - 1] \o ss[i]]
           flat == CHOOSE f : IsFlat(f)
<1>0. n \in Nat \ {0}
  OBVIOUS
<1>1. FlattenSeq(ss) = flat[n]
  BY DEF FlattenSeq
<1>2. IsFlat(flat)
  <2>1. \E f : IsFlat(f)
    BY FlattenExists
  <2> HIDE DEF IsFlat
  <2> QED BY <2>1
<1> HIDE DEF flat
<1>3. ASSUME NEW i \in 1..n PROVE flat[i] = IF i = 1 THEN ss[i] ELSE flat[i - 1] \o ss[i]
  BY <1>2
<1>4. \A i \in 1..n : ss[i] = Direct(s, (q + i - 1) * w, w)
  BY DEF Consecutive
<1> HIDE DEF IsFlat, n
<1> DEFINE Bad == {i \in 1..n : flat[i] # Direct(s, q * w, i * w)}
<1>5. Bad = {}
  <2> SUFFICES ASSUME Bad # {} PROVE FALSE
    OBVIOUS
  <2>1. PICK i \in Bad : \A j \in Bad : i <= j
    <3>1. Bad \in SUBSET Nat
      BY <1>0
    <3> HIDE DEF Bad
    <3> QED BY <3>1, LeastOf
  <2>2. i \in 1..n /\ i \in Nat /\ flat[i] # Direct(s, q * w, i * w)
    BY <1>0
  <2>3. PICK a \in Nat : a = q * w
    OBVIOUS
  <2>4. CASE i = 1
    <3>1. flat[i] = Direct(s, (q + i - 1) * w, w) /\ (q + i - 1) * w = q * w /\ i * w = w
      BY <1>3, <1>4, <2>2, <2>4
    <3> QED BY <2>2, <3>1
  <2>5. CASE i # 1
    <3>1. i - 1 \in 1..n /\ ~(i <= i - 1)
      BY <1>0, <2>2, <2>5
    <3>2. flat[i - 1] = Direct(s, q * w, (i - 1) * w)
      BY <2>1, <3>1
    <3>3. PICK m \in Nat : m = (i - 1) * w
      BY <2>2, <3>1
    <3>4. (q + i - 1) * w = a + m /\ i * w = m + w
      BY <2>2, <2>3, <3>3
    <3>5. flat[i] = Direct(s, a, m) \o Direct(s, a + m, w)
      BY <1>3, <1>4, <2>2, <2>3, <2>5, <3>2, <3>3, <3>4, Zenon
    <3>6. Direct(s, a, m) \o Direct(s, a + m, w) = Direct(s, a, m + w)
      <4>1. a \in Nat /\ m \in Nat /\ w \in Nat
        BY <2>3, <3>3
      <4>2. \A x, y \in Nat : Direct(s, x, y) \o Direct(s, x + y, w) = Direct(s, x, y + w)
        BY <4>1, PagesJoinAll, Zenon
      <4> QED BY <4>1, <4>2, Zenon
    <3> QED BY <2>2, <2>3, <3>4, <3>5, <3>6, Zenon
  <2> QED BY <2>4, <2>5
<1>6. n \in 1..n
  BY <1>0
<1>7. flat[n] = Direct(s, q * w, n * w)
  BY <1>5, <1>6
<1> QED BY <1>1, <1>7 DEF n

LEMMA DivMod ==
  ASSUME NEW o \in Nat, NEW w \in Nat \ {0}
  PROVE  \E q, r \in Nat : q = o \div w /\ r = o % w /\ o = q * w + r /\ r < w
<1>1. PICK q \in Nat : q = o \div w
  OBVIOUS
<1>2. PICK r \in 0..w - 1 : r = o % w
  OBVIOUS
<1>3. o = q * w + r /\ r \in Nat /\ r < w
  BY <1>1, <1>2
<1> QED BY <1>1, <1>2, <1>3, Zenon

LEMMA BeyondWindow ==
  ASSUME NEW g \in Nat, NEW w \in Nat \ {0}, NEW x \in Nat, x > g \div w
  PROVE  x * w > g
OBVIOUS

(* The windows reach the end of the page.                                  *)
LEMMA WindowsReach ==
  ASSUME NEW w \in Nat \ {0}, NEW o \in Nat, NEW l \in Nat \ {0}, NEW q \in Nat, NEW r \in Nat, NEW k \in Nat,
         o = q * w + r, q + k > (o + l - 1) \div w
  PROVE  r + l <= k * w
<1>1. PICK g \in Nat : g = o + l - 1
  OBVIOUS
<1>2. PICK x \in Nat : x = q + k
  OBVIOUS
<1>3. x * w > g
  BY <1>1, <1>2, BeyondWindow
<1>4. PICK a \in Nat, m \in Nat : a = q * w /\ m = k * w
  OBVIOUS
<1>5. x * w = a + m
  BY <1>2, <1>4
<1> QED BY <1>1, <1>3, <1>4, <1>5

LEMMA PageWithin ==
  ASSUME NEW E, NEW s \in Seq(E), NEW w \in Nat \ {0}, NEW q \in Nat, NEW r \in Nat, NEW l \in Nat,
         NEW ss \in Seq(Seq(E)), Len(ss) # 0, Consecutive(ss, s, q, w), r + l <= Len(ss) * w
  PROVE  Direct(FlattenSeq(ss), r, l) = Direct(s, q * w + r, l)
<1>1. FlattenSeq(ss) = Direct(s, q * w, Len(ss) * w)
  BY WindowsJoin
<1>2. q * w \in Nat /\ Len(ss) * w \in Nat
  OBVIOUS
<1>3. Direct(Direct(s, q * w, Len(ss) * w), r, l) = Direct(s, q * w + r, l)
  BY <1>2, PageInPage
<1> QED BY <1>1, <1>3

(* The page cut out of the windows that cover it.                          *)
Covers(o, l, q, k, w) == q = o \div w /\ q + k > (o + l - 1) \div w
IsSlice(ss, s, o, l, w) == Direct(FlattenSeq(ss), o % w, l) = Direct(s, o, l)

LEMMA PageIs ==
  ASSUME NEW E, NEW s \in Seq(E), NEW w \in Nat \ {0}, NEW o \in Nat, NEW l \in Nat \ {0}, NEW q \in Nat,
         NEW ss \in Seq(Seq(E)), Len(ss) # 0, Consecutive(ss, s, q, w), Covers(o, l, q, Len(ss), w)
  PROVE  IsSlice(ss, s, o, l, w)
<1>1. \E x, y \in Nat : x = o \div w /\ y = o % w /\ o = x * w + y /\ y < w
  BY DivMod
<1>2. PICK r \in Nat : q = o \div w /\ r = o % w /\ o = q * w + r
  BY <1>1 DEF Covers
<1>3. PICK k \in Nat : k = Len(ss)
  OBVIOUS
<1>4. q + k > (o + l - 1) \div w
  BY <1>3 DEF Covers
<1>5. r + l <= k * w
  BY <1>2, <1>3, <1>4, WindowsReach
<1>6. Direct(FlattenSeq(ss), r, l) = Direct(s, q * w + r, l)
  <2>1. l \in Nat /\ r \in Nat /\ r + l <= Len(ss) * w
    BY <1>2, <1>3, <1>5
  <2> QED BY <2>1, PageWithin, SMTT(30)
<1>7. o % w = r /\ o = q * w + r
  BY <1>2
<1>8. Direct(FlattenSeq(ss), o % w, l) = Direct(s, o, l)
  BY <1>6, <1>7, Zenon
<1> QED BY <1>8, Zenon DEF IsSlice

(* What is stored of the n-th window, and in a page.                       *)
IsWindow(entry, n) == \E list \in Rankings : entry = Entry(list, n, list, FALSE)

TrendingEntry == {Entry(x[1], x[2], x[1], FALSE) : x \in Rankings \X Nat}

WindowsRight == \A k \in DOMAIN redis : k[1] = "trending" => IsWindow(redis[k], k[2])

(* A page of trending tokens has the windows it covers, one by one.        *)
PageRight(p) ==
  p.kind = "trending" =>
    /\ p.stage \in {"window", "read", "store", "done"} /\ p.offset \in Nat /\ p.limit = Limit
    /\ p.got \in Seq(TrendingEntry) /\ p.window = p.offset \div WindowSize + Len(p.got)
    /\ \A i \in 1..Len(p.got) : IsWindow(p.got[i], p.offset \div WindowSize + i - 1)
    /\ p.stage = "store" => p.copy \in Rankings
    /\ p.stage = "done" => p.window > EndWindow(p)

PagesInv ==
  /\ DOMAIN browse = Browsers /\ \A b \in Browsers : DOMAIN browse[b] = PageFields /\ PageRight(browse[b])
  /\ ranking \in Rankings /\ WindowsRight

(* A page moves on.                                                        *)
LEMMA RightPageMoves ==
  ASSUME PagesInv, NEW b \in Browsers, NEW new, browse' = [browse EXCEPT ![b] = new],
         DOMAIN new = PageFields, PageRight(new), ranking' = ranking, WindowsRight'
  PROVE  PagesInv'
<1>1. DOMAIN browse' = Browsers /\ \A x \in Browsers : browse'[x] = new \/ browse'[x] = browse[x]
  BY DEF PagesInv
<1> QED BY <1>1 DEF PagesInv

LEMMA WindowsStay == ASSUME PagesInv, UNCHANGED redis PROVE WindowsRight'
BY DEF PagesInv, WindowsRight

LEMMA SetKeepsWindows ==
  ASSUME PagesInv, NEW k, NEW entry, SetEx(k, entry), k[1] = "trending" => IsWindow(entry, k[2])
  PROVE  WindowsRight'
<1>1. CASE redis' = redis
  BY <1>1, WindowsStay
<1>2. CASE redis' = [x \in DOMAIN redis \cup {k} |-> IF x = k THEN entry ELSE redis[x]]
  <2>1. \A x \in DOMAIN redis' : (redis'[x] = entry /\ x = k) \/ (x \in DOMAIN redis /\ redis'[x] = redis[x])
    BY <1>2
  <2> QED BY <2>1 DEF PagesInv, WindowsRight
<1> QED BY <1>1, <1>2 DEF SetEx

LEMMA RightPage == ASSUME PagesInv, NEW b \in Browsers PROVE DOMAIN browse[b] = PageFields /\ PageRight(browse[b])
BY DEF PagesInv

(* A page that is not of the trending tokens, before and after.            *)
LEMMA OtherPage ==
  ASSUME NEW p, DOMAIN p = PageFields, p.kind # "trending"
  PROVE  PageRight(p)
BY DEF PageRight

(* The same page at another stage.                                         *)
LEMMA OtherStage ==
  ASSUME PagesInv, NEW b \in Browsers, NEW stage, browse' = [browse EXCEPT ![b].stage = stage],
         ranking' = ranking, WindowsRight',
         browse[b].kind = "trending" =>
           stage \in {"window", "read"} \/ (stage = "done" /\ browse[b].window > EndWindow(browse[b]))
  PROVE  PagesInv'
<1> DEFINE new == [browse[b] EXCEPT !.stage = stage]
<1>1. DOMAIN browse[b] = PageFields /\ PageRight(browse[b])
  BY RightPage
<1>2. /\ DOMAIN new = PageFields /\ new.stage = stage /\ new.kind = browse[b].kind /\ new.copy = browse[b].copy
      /\ new.offset = browse[b].offset /\ new.limit = browse[b].limit /\ new.got = browse[b].got
      /\ new.window = browse[b].window
  BY <1>1 DEF PageFields
<1>3. browse' = [browse EXCEPT ![b] = new]
  OBVIOUS
<1> HIDE DEF new
<1>4. PageRight(new)
  BY <1>1, <1>2 DEF PageRight, EndWindow
<1> QED BY <1>2, <1>3, <1>4, RightPageMoves

(* The window found, or read from the table, is the next one.              *)
LEMMA GotRight ==
  ASSUME NEW p, DOMAIN p = PageFields, PageRight(p), p.stage \in {"window", "store"}, NEW entry,
         p.kind = "trending" => IsWindow(entry, p.window)
  PROVE  DOMAIN Got(p, entry) = PageFields /\ PageRight(Got(p, entry))
<1> DEFINE new == Got(p, entry)
<1>1. /\ DOMAIN new = PageFields /\ new.stage = "window" /\ new.kind = p.kind /\ new.offset = p.offset
      /\ new.limit = p.limit /\ new.window = p.window + 1
      /\ p.kind = "trending" => new.got = Append(p.got, entry)
  BY DEF Got, PageFields
<1> HIDE DEF new
<1>2. ASSUME p.kind = "trending" PROVE PageRight(new)
  <2>1. PICK q \in Nat : q = p.offset \div WindowSize
    <3>1. p.offset \in Nat /\ WindowSize \in Nat \ {0}
      BY <1>2, DiscoveryAssumption DEF PageRight
    <3> QED BY <3>1, DivMod
  <2>2. PICK got \in Seq(TrendingEntry) : got = p.got
    BY <1>2 DEF PageRight
  <2>3. p.window = q + Len(got) /\ \A i \in 1..Len(got) : IsWindow(got[i], q + i - 1)
    BY <1>2, <2>1, <2>2 DEF PageRight
  <2>4. IsWindow(entry, q + Len(got))
    BY <1>2, <2>3
  <2>5. entry \in TrendingEntry
    <3>1. PICK n \in Nat : n = q + Len(got)
      BY <2>1, <2>2
    <3>2. PICK list \in Rankings : entry = Entry(list, n, list, FALSE)
      BY <2>4, <3>1 DEF IsWindow
    <3>3. <<list, n>> \in Rankings \X Nat /\ entry = Entry(<<list, n>>[1], <<list, n>>[2], <<list, n>>[1], FALSE)
      BY <3>1, <3>2
    <3> QED BY <3>3, Zenon DEF TrendingEntry
  <2>6. Append(got, entry) \in Seq(TrendingEntry) /\ Len(Append(got, entry)) = Len(got) + 1
    BY <2>2, <2>5
  <2>7. ASSUME NEW i \in 1..Len(got) + 1
        PROVE  IsWindow(Append(got, entry)[i], q + i - 1)
    <3>1. CASE i = Len(got) + 1
      <4>1. Append(got, entry)[i] = entry /\ q + i - 1 = q + Len(got)
        BY <2>1, <2>2, <3>1
      <4> QED BY <2>4, <4>1
    <3>2. CASE i # Len(got) + 1
      <4>1. i \in 1..Len(got)
        BY <2>2, <3>2
      <4>2. Append(got, entry)[i] = got[i]
        BY <2>2, <4>1
      <4> QED BY <2>3, <4>1, <4>2
    <3> QED BY <3>1, <3>2
  <2>8. p.window + 1 = q + (Len(got) + 1)
    BY <2>1, <2>2, <2>3
  <2>9. new.got = Append(got, entry) /\ new.offset \in Nat /\ new.limit = Limit /\ q = new.offset \div WindowSize
    BY <1>1, <1>2, <2>1, <2>2 DEF PageRight
  <2> QED BY <1>1, <2>6, <2>7, <2>8, <2>9 DEF PageRight
<1>3. ASSUME p.kind # "trending" PROVE PageRight(new)
  BY <1>1, <1>3, OtherPage
<1> QED BY <1>1, <1>2, <1>3 DEF new

LEMMA BrowseRight == ASSUME PagesInv, NEW b \in Browsers, Browse(b) PROVE PagesInv'
<1>1. ASSUME NEW offset \in 0..MaxOffset,
             browse' = [browse EXCEPT ![b] =
               [NoPage EXCEPT !.kind = paged, !.stage = "window", !.offset = offset, !.limit = Limit,
                              !.window = offset \div WindowSize]]
      PROVE  PagesInv'
  <2> DEFINE new == [NoPage EXCEPT !.kind = paged, !.stage = "window", !.offset = offset, !.limit = Limit,
                                   !.window = offset \div WindowSize]
  <2>1. /\ DOMAIN new = PageFields /\ new.stage = "window" /\ new.offset = offset /\ new.limit = Limit
        /\ new.window = offset \div WindowSize /\ new.got = <<>>
    BY DEF NoPage, PageFields
  <2>2. browse' = [browse EXCEPT ![b] = new] /\ ranking' = ranking /\ WindowsRight'
    BY <1>1, WindowsStay DEF Browse
  <2> HIDE DEF new
  <2>3. offset \in Nat /\ offset \div WindowSize \in Nat
    <3>1. offset \in Nat /\ WindowSize \in Nat \ {0}
      BY DiscoveryAssumption
    <3> QED BY <3>1, DivMod
  <2>4. PageRight(new)
    <3>1. <<>> \in Seq(TrendingEntry) /\ Len(<<>>) = 0
      OBVIOUS
    <3>2. \A i \in 1..0 : FALSE
      OBVIOUS
    <3>3. offset \div WindowSize = offset \div WindowSize + 0
      BY <2>3
    <3> QED BY <2>1, <2>3, <3>1, <3>2, <3>3 DEF PageRight
  <2> QED BY <2>1, <2>2, <2>4, RightPageMoves
<1>2. ASSUME NEW c \in Detailed,
             browse' = [browse EXCEPT ![b] = [NoPage EXCEPT !.kind = "detail", !.stage = "detail", !.copy = c]]
      PROVE  PagesInv'
  <2> DEFINE new == [NoPage EXCEPT !.kind = "detail", !.stage = "detail", !.copy = c]
  <2>1. DOMAIN new = PageFields /\ new.kind = "detail"
    BY DEF NoPage, PageFields
  <2>2. browse' = [browse EXCEPT ![b] = new] /\ ranking' = ranking /\ WindowsRight'
    BY <1>2, WindowsStay DEF Browse
  <2> HIDE DEF new
  <2> QED BY <2>1, <2>2, OtherPage, RightPageMoves
<1> QED BY <1>1, <1>2 DEF Browse

LEMMA GetWindowRight == ASSUME PagesInv, NEW b \in Browsers, GetWindow(b) PROVE PagesInv'
<1>1. ranking' = ranking /\ WindowsRight' /\ browse[b].stage = "window"
  BY WindowsStay DEF GetWindow
<1>2. ASSUME Key(browse[b]) \in DOMAIN redis, browse' = [browse EXCEPT ![b] = Got(browse[b], redis[Key(browse[b])])]
      PROVE  PagesInv'
  <2> DEFINE entry == redis[Key(browse[b])]
  <2>1. browse[b].kind = "trending" => IsWindow(entry, browse[b].window)
    BY <1>2 DEF PagesInv, WindowsRight, Key
  <2>2. browse' = [browse EXCEPT ![b] = Got(browse[b], entry)]
    BY <1>2
  <2> HIDE DEF entry
  <2>3. DOMAIN Got(browse[b], entry) = PageFields /\ PageRight(Got(browse[b], entry))
    BY <1>1, <2>1, RightPage, GotRight
  <2> QED BY <1>1, <2>2, <2>3, RightPageMoves
<1>3. ASSUME browse[b].window > EndWindow(browse[b]), browse' = [browse EXCEPT ![b].stage = "done"]
      PROVE  PagesInv'
  BY <1>1, <1>3, OtherStage
<1>4. ASSUME browse' = [browse EXCEPT ![b].stage = IF browse[b].kind = "trending" THEN "read" ELSE "populate"]
      PROVE  PagesInv'
  <2> DEFINE stage == IF browse[b].kind = "trending" THEN "read" ELSE "populate"
  <2>1. browse' = [browse EXCEPT ![b].stage = stage] /\ (browse[b].kind = "trending" => stage = "read")
    BY <1>4
  <2> HIDE DEF stage
  <2> QED BY <1>1, <2>1, OtherStage
<1> QED BY <1>2, <1>3, <1>4, Zenon DEF GetWindow

LEMMA ReadTrendingRight == ASSUME PagesInv, NEW b \in Browsers, ReadTrending(b) PROVE PagesInv'
<1> DEFINE new == [browse[b] EXCEPT !.copy = ranking, !.stage = "store"]
<1>1. DOMAIN browse[b] = PageFields /\ PageRight(browse[b])
  BY RightPage
<1>2. /\ DOMAIN new = PageFields /\ new.stage = "store" /\ new.kind = browse[b].kind /\ new.copy = ranking
      /\ new.offset = browse[b].offset /\ new.limit = browse[b].limit /\ new.got = browse[b].got
      /\ new.window = browse[b].window
  BY <1>1 DEF PageFields
<1>3. browse' = [browse EXCEPT ![b] = new] /\ ranking' = ranking /\ WindowsRight'
  BY WindowsStay DEF ReadTrending
<1> HIDE DEF new
<1>4. PageRight(new)
  BY <1>1, <1>2 DEF PageRight, PagesInv
<1> QED BY <1>2, <1>3, <1>4, RightPageMoves

LEMMA StoreTrendingRight == ASSUME DiscoveryInv, PagesInv, NEW b \in Browsers, StoreTrending(b) PROVE PagesInv'
<1> DEFINE entry == Entry(browse[b].copy, browse[b].window, browse[b].copy, FALSE)
<1>1. browse[b].stage = "store" /\ ranking' = ranking /\ SetEx(Key(browse[b]), entry)
      /\ browse' = [browse EXCEPT ![b] = Got(browse[b], entry)]
  BY DEF StoreTrending
<1>2. browse[b].kind = "trending" /\ browse[b].copy \in Rankings
  BY <1>1, PageFacts, RightPage DEF PageShaped, PageRight
<1>3. IsWindow(entry, browse[b].window)
  BY <1>2 DEF IsWindow
<1> HIDE DEF entry
<1>4. Key(browse[b])[2] = browse[b].window
  BY DEF Key
<1>5. WindowsRight'
  BY <1>1, <1>3, <1>4, SetKeepsWindows
<1>6. DOMAIN Got(browse[b], entry) = PageFields /\ PageRight(Got(browse[b], entry))
  BY <1>1, <1>3, RightPage, GotRight
<1> QED BY <1>1, <1>5, <1>6, RightPageMoves

(* The requests for categories.                                            *)
LEMMA OtherMoves ==
  ASSUME PagesInv, NEW b \in Browsers, browse[b].stage \notin {"window", "read", "store", "done"},
         NEW new, browse' = [browse EXCEPT ![b] = new], DOMAIN new = PageFields, new.kind = browse[b].kind,
         ranking' = ranking, WindowsRight'
  PROVE  PagesInv'
<1>1. new.kind # "trending"
  BY RightPage DEF PageRight
<1> QED BY <1>1, OtherPage, RightPageMoves

LEMMA ReadCategoriesRight == ASSUME PagesInv, NEW b \in Browsers, ReadCategories(b) PROVE PagesInv'
<1> DEFINE new == [browse[b] EXCEPT !.copy = ValidCategories, !.raced = FALSE, !.next = 0, !.stage = "total"]
<1>1. DOMAIN new = PageFields /\ new.kind = browse[b].kind
  BY RightPage DEF PageFields
<1>2. browse[b].stage = "populate" /\ browse' = [browse EXCEPT ![b] = new] /\ ranking' = ranking /\ WindowsRight'
  BY WindowsStay DEF ReadCategories
<1> HIDE DEF new
<1> QED BY <1>1, <1>2, OtherMoves

LEMMA SetTotalRight == ASSUME PagesInv, NEW b \in Browsers, SetTotal(b) PROVE PagesInv'
<1>1. WindowsRight'
  <2> DEFINE k == <<"total">>
             entry == [items |-> Len(browse[b].copy), of |-> <<>>, raced |-> browse[b].raced]
  <2>1. SetEx(k, entry) /\ k[1] # "trending"
    BY DEF SetTotal
  <2> HIDE DEF k, entry
  <2> QED BY <2>1, SetKeepsWindows
<1>2. browse[b].stage = "total" /\ browse' = [browse EXCEPT ![b].stage = "fill"] /\ ranking' = ranking
  BY DEF SetTotal
<1>3. browse[b].kind # "trending"
  BY <1>2, RightPage DEF PageRight
<1> QED BY <1>1, <1>2, <1>3, OtherStage

LEMMA FillWindowRight == ASSUME PagesInv, NEW b \in Browsers, FillWindow(b) PROVE PagesInv'
<1>1. browse[b].stage = "fill" /\ ranking' = ranking
  BY DEF FillWindow
<1>2. browse[b].kind # "trending"
  BY <1>1, RightPage DEF PageRight
<1>3. ASSUME SetEx(<<"window", browse[b].next>>, Entry(browse[b].copy, browse[b].next, <<>>, browse[b].raced)),
             browse' = [browse EXCEPT ![b].next = @ + 1]
      PROVE  PagesInv'
  <2> DEFINE k == <<"window", browse[b].next>>
             entry == Entry(browse[b].copy, browse[b].next, <<>>, browse[b].raced)
             new == [browse[b] EXCEPT !.next = @ + 1]
  <2>1. DOMAIN new = PageFields /\ new.kind = browse[b].kind
    BY RightPage DEF PageFields
  <2>2. SetEx(k, entry) /\ k[1] # "trending" /\ browse' = [browse EXCEPT ![b] = new]
    BY <1>3
  <2> HIDE DEF k, entry, new
  <2>3. WindowsRight'
    BY <2>2, SetKeepsWindows
  <2> QED BY <1>1, <2>1, <2>2, <2>3, OtherMoves
<1>4. ASSUME UNCHANGED redis, browse' = [browse EXCEPT ![b].stage = "again"] PROVE PagesInv'
  BY <1>1, <1>2, <1>4, WindowsStay, OtherStage
<1> QED BY <1>3, <1>4, Zenon DEF FillWindow

LEMMA GetAgainRight == ASSUME PagesInv, NEW b \in Browsers, GetAgain(b) PROVE PagesInv'
<1> DEFINE new == Got(browse[b], NoKeys)
<1>1. DOMAIN new = PageFields /\ new.kind = browse[b].kind
  BY RightPage DEF PageFields, Got
<1>2. browse[b].stage = "again" /\ browse' = [browse EXCEPT ![b] = new] /\ ranking' = ranking /\ WindowsRight'
  BY WindowsStay DEF GetAgain
<1> HIDE DEF new
<1> QED BY <1>1, <1>2, OtherMoves

LEMMA GetDetailRight == ASSUME PagesInv, NEW b \in Browsers, GetDetail(b) PROVE PagesInv'
<1>1. browse[b].stage = "detail" /\ ranking' = ranking /\ WindowsRight'
  BY WindowsStay DEF GetDetail
<1>2. browse[b].kind # "trending"
  BY <1>1, RightPage DEF PageRight
<1>3. CASE browse' = [browse EXCEPT ![b].stage = "done"]
  BY <1>1, <1>2, <1>3, OtherStage
<1>4. CASE browse' = [browse EXCEPT ![b].stage = "row"]
  BY <1>1, <1>2, <1>4, OtherStage
<1> QED BY <1>3, <1>4 DEF GetDetail

LEMMA NoPageRight == DOMAIN NoPage = PageFields /\ PageRight(NoPage)
<1>1. DOMAIN NoPage = PageFields /\ NoPage.kind = "none"
  BY DEF NoPage, PageFields
<1> QED BY <1>1, OtherPage

LEMMA AnswerRight ==
  ASSUME PagesInv, NEW b \in Browsers, browse' = [browse EXCEPT ![b] = NoPage], UNCHANGED <<ranking, redis>>
  PROVE  PagesInv'
BY WindowsStay, NoPageRight, RightPageMoves

LEMMA ReadCategoryRight == ASSUME PagesInv, NEW b \in Browsers, ReadCategory(b) PROVE PagesInv'
<1>1. browse[b].stage = "row" /\ UNCHANGED <<ranking, redis>>
  BY DEF ReadCategory
<1>2. CASE browse' = [browse EXCEPT ![b] = NoPage]
  BY <1>1, <1>2, AnswerRight
<1>3. ASSUME NEW cap, browse' = [browse EXCEPT ![b].raced = FALSE, ![b].got = <<cap>>, ![b].stage = "keep"] PROVE PagesInv'
  <2> DEFINE new == [browse[b] EXCEPT !.raced = FALSE, !.got = <<cap>>, !.stage = "keep"]
  <2>1. DOMAIN new = PageFields /\ new.kind = browse[b].kind
    BY RightPage DEF PageFields
  <2>2. browse' = [browse EXCEPT ![b] = new]
    BY <1>3
  <2> HIDE DEF new
  <2> QED BY <1>1, <2>1, <2>2, WindowsStay, OtherMoves
<1> QED BY <1>2, <1>3 DEF ReadCategory

LEMMA KeepDetailRight == ASSUME PagesInv, NEW b \in Browsers, KeepDetail(b) PROVE PagesInv'
<1>1. WindowsRight'
  <2> DEFINE k == <<"detail", browse[b].copy>>
             entry == [items |-> browse[b].got[1], of |-> <<>>, raced |-> browse[b].raced]
  <2>1. SetEx(k, entry) /\ k[1] # "trending"
    BY DEF KeepDetail
  <2> HIDE DEF k, entry
  <2> QED BY <2>1, SetKeepsWindows
<1>2. browse[b].stage = "keep" /\ browse' = [browse EXCEPT ![b].stage = "done"] /\ ranking' = ranking
  BY DEF KeepDetail
<1>3. browse[b].kind # "trending"
  BY <1>2, RightPage DEF PageRight
<1> QED BY <1>1, <1>2, <1>3, OtherStage

LEMMA RedisShrinks ==
  ASSUME PagesInv, UNCHANGED browse, ranking' \in Rankings,
         DOMAIN redis' \subseteq DOMAIN redis, \A k \in DOMAIN redis' : redis'[k] = redis[k]
  PROVE  PagesInv'
BY DEF PagesInv, WindowsRight

LEMMA UpsertRight == ASSUME PagesInv, NEW y \in Syncs, UpsertCategory(y) PROVE PagesInv'
<1> DEFINE changed == caps[CHOOSE c \in sync[y].todo : TRUE] # sync[y].found[CHOOSE c \in sync[y].todo : TRUE]
<1>1. browse' = [b \in Browsers |-> [browse[b] EXCEPT !.raced = changed \/ @]] /\ UNCHANGED <<ranking, redis>>
  BY DEF UpsertCategory
<1> HIDE DEF changed
<1>2. ASSUME NEW b \in Browsers PROVE DOMAIN browse'[b] = PageFields /\ PageRight(browse'[b])
  <2> DEFINE new == [browse[b] EXCEPT !.raced = changed \/ @]
  <2>1. browse'[b] = new
    BY <1>1
  <2>2. /\ DOMAIN new = PageFields /\ new.stage = browse[b].stage /\ new.kind = browse[b].kind
        /\ new.copy = browse[b].copy /\ new.offset = browse[b].offset /\ new.limit = browse[b].limit
        /\ new.got = browse[b].got /\ new.window = browse[b].window
    BY RightPage DEF PageFields
  <2> HIDE DEF new
  <2>3. PageRight(new)
    BY <2>2, RightPage DEF PageRight, EndWindow
  <2> QED BY <2>1, <2>2, <2>3
<1>3. DOMAIN browse' = Browsers
  BY <1>1
<1>4. WindowsRight'
  BY <1>1, WindowsStay
<1> QED BY <1>1, <1>2, <1>3, <1>4 DEF PagesInv

LEMMA PagesInvInit == DiscoveryInit => PagesInv
<1> SUFFICES ASSUME DiscoveryInit PROVE PagesInv
  OBVIOUS
<1>1. /\ ranking \in Rankings /\ redis = NoKeys /\ browse = [b \in Browsers |-> NoPage]
  BY DEF DiscoveryInit
<1>2. DOMAIN redis = {}
  BY <1>1 DEF NoKeys
<1> QED BY <1>1, <1>2, NoPageRight DEF PagesInv, WindowsRight

LEMMA PagesInvStep == DiscoveryInv /\ PagesInv /\ [DiscoveryStep]_discoveryVars => PagesInv'
<1> SUFFICES ASSUME DiscoveryInv, PagesInv, [DiscoveryStep]_discoveryVars PROVE PagesInv'
  OBVIOUS
<1>0. ranking \in Rankings
  BY DEF PagesInv
<1>1. CASE Reranked \/ UNCHANGED discoveryVars
  BY <1>0, <1>1, RedisShrinks DEF Reranked, discoveryVars
<1>2. CASE Expires
  BY <1>0, <1>2, RedisShrinks DEF Expires, Without
<1>3. ASSUME NEW y \in Syncs, StartSync(y) \/ ListKeys(y) \/ EndSync(y) \/ SyncFails(y) PROVE PagesInv'
  BY <1>0, <1>3, RedisShrinks DEF StartSync, ListKeys, EndSync, SyncFails
<1>4. ASSUME NEW y \in Syncs, DeleteKey(y) PROVE PagesInv'
  <2>1. UNCHANGED <<browse, ranking>>
    BY <1>4 DEF DeleteKey
  <2>2. DOMAIN redis' \subseteq DOMAIN redis /\ \A k \in DOMAIN redis' : redis'[k] = redis[k]
    BY <1>4 DEF DeleteKey, Without
  <2> QED BY <1>0, <2>1, <2>2, RedisShrinks
<1>5. ASSUME NEW b \in Browsers, Answer(b) PROVE PagesInv'
  BY <1>5, AnswerRight DEF Answer
<1> QED BY <1>1, <1>2, <1>3, <1>4, <1>5, BrowseRight, GetWindowRight, ReadTrendingRight, StoreTrendingRight,
           ReadCategoriesRight, SetTotalRight, FillWindowRight, GetAgainRight, GetDetailRight, ReadCategoryRight,
           KeepDetailRight, UpsertRight, Zenon DEF DiscoveryStep

LEMMA PagesInvAlways == DiscoverySpec => []PagesInv
<1>1. DiscoverySpec => [][DiscoveryStep]_discoveryVars /\ []DiscoveryInv /\ DiscoveryInit
  BY DiscoveryInvAlways, PTL DEF DiscoverySpec
<1> QED BY <1>1, PagesInvInit, PagesInvStep, PTL

(* A page of trending tokens whose windows are all of one list.            *)
AllOf(got, list) == \A i \in 1..Len(got) : got[i].of = list

LEMMA SliceOf ==
  ASSUME NEW p, PageRight(p), p.kind = "trending", p.stage = "done", p.got # <<>>, NEW list \in Rankings,
         AllOf(p.got, list)
  PROVE  PageOf(p) = Direct(list, p.offset, p.limit)
<1>1. PICK o \in Nat, w \in Nat \ {0}, l \in Nat \ {0} : o = p.offset /\ w = WindowSize /\ l = Limit
  BY DiscoveryAssumption DEF PageRight
<1>2. PICK got \in Seq(TrendingEntry) : got = p.got
  BY DEF PageRight
<1>3. PICK k \in Nat \ {0} : k = Len(got)
  BY <1>2
<1>4. /\ \A i \in 1..k : IsWindow(got[i], o \div w + i - 1)
      /\ p.limit = l /\ o \div w + k > (o + l - 1) \div w
  BY <1>1, <1>2, <1>3 DEF PageRight, EndWindow
<1>5. PICK s \in Seq(Range(list)) : s = list
  BY DiscoveryAssumption
<1>6. PICK q \in Nat : q = o \div w
  BY <1>1, DivMod
<1>7. ASSUME NEW i \in 1..k PROVE got[i].items = Direct(s, (q + i - 1) * w, w)
  <2>1. PICK order \in Rankings : got[i] = Entry(order, q + i - 1, order, FALSE)
    BY <1>4, <1>6 DEF IsWindow
  <2>2. got[i].of = order /\ got[i].items = Direct(order, (q + i - 1) * WindowSize, WindowSize)
    BY <2>1 DEF Entry
  <2>3. order = s
    BY <1>2, <1>3, <1>5, <2>2 DEF AllOf
  <2> QED BY <1>1, <2>2, <2>3
<1>8. ASSUME NEW i \in 1..k PROVE got[i].items \in Seq(Range(list))
  <2>1. PICK j \in Nat : j = q + i - 1
    BY <1>3, <1>6
  <2>2. PICK a \in Nat : a = j * w
    BY <1>1, <2>1
  <2>3. w \in Nat
    BY <1>1
  <2>6. PageOK(Direct(s, a, w), Range(list), s, a, Cut(Len(s), a, w))
    BY <1>5, <2>2, <2>3, DirectIs, Zenon
  <2>7. Direct(s, a, w) \in Seq(Range(list))
    BY <2>6 DEF PageOK
  <2> QED BY <1>7, <2>1, <2>2, <2>7
<1> DEFINE ss == [i \in DOMAIN p.got |-> p.got[i].items]
<1>9. ss = [i \in 1..k |-> got[i].items]
  BY <1>2, <1>3
<1>10. PageOf(p) = Direct(FlattenSeq(ss), p.offset % WindowSize, p.limit)
  BY DEF PageOf
<1> HIDE DEF ss
<1>11. ss \in Seq(Seq(Range(list))) /\ Len(ss) = k /\ Consecutive(ss, s, q, w)
  <2>1. ss \in Seq(Seq(Range(list))) /\ Len(ss) = k
    BY <1>3, <1>8, <1>9
  <2>2. \A i \in 1..k : ss[i] = Direct(s, (q + i - 1) * w, w)
    BY <1>7, <1>9
  <2> QED BY <2>1, <2>2 DEF Consecutive
<1>12. IsSlice(ss, s, o, l, w)
  <2>1. Len(ss) # 0 /\ Covers(o, l, q, Len(ss), w)
    BY <1>3, <1>4, <1>6, <1>11 DEF Covers
  <2>2. s \in Seq(Range(list)) /\ w \in Nat \ {0} /\ o \in Nat /\ l \in Nat \ {0}
    BY <1>1, <1>5
  <2> QED BY <1>6, <1>11, <2>1, <2>2, PageIs, Zenon
<1> QED BY <1>1, <1>4, <1>5, <1>10, <1>12 DEF IsSlice

(* What discovery serves agrees with its tables: no key of the categories  *)
(* outlives a sync that ended well, and a page of trending tokens whose    *)
(* windows were cut from one list is what the query without windows would  *)
(* have answered, for any tables, lists, window size, offsets and lengths  *)
(* of a page, requests and runs.                                           *)
THEOREM DiscoveryAlwaysAgrees == DiscoverySpec => []DiscoveryAgrees
<1>1. ASSUME PagesInv PROVE PagesAreSlices
  <2> SUFFICES ASSUME NEW b \in Browsers, browse[b].stage = "done", browse[b].kind = "trending",
                      NEW list \in {browse[b].got[i].of : i \in DOMAIN browse[b].got},
                      \A i \in DOMAIN browse[b].got : browse[b].got[i].of = list
               PROVE  PageOf(browse[b]) = Direct(list, browse[b].offset, browse[b].limit)
    BY DEF PagesAreSlices
  <2>1. PICK p : p = browse[b]
    OBVIOUS
  <2>2. PageRight(p)
    BY <1>1, <2>1, RightPage
  <2>3. PICK got \in Seq(TrendingEntry) : got = p.got
    BY <2>1, <2>2 DEF PageRight
  <2>4. PICK i \in 1..Len(got) : list = got[i].of
    BY <2>1, <2>3
  <2>5. PICK x \in Rankings \X Nat : got[i] = Entry(x[1], x[2], x[1], FALSE)
    <3>1. got[i] \in TrendingEntry
      BY <2>3, <2>4
    <3> QED BY <3>1, Zenon DEF TrendingEntry
  <2>6. list \in Rankings
    BY <2>4, <2>5 DEF Entry
  <2>7. p.got # <<>> /\ AllOf(p.got, list)
    BY <2>1, <2>3, <2>4 DEF AllOf
  <2> QED BY <2>1, <2>2, <2>6, <2>7, SliceOf
<1>2. DiscoverySpec => []PagesAreSlices
  BY <1>1, PagesInvAlways, PTL
<1>3. PagesAreSlices /\ SyncedKeysAgree => DiscoveryAgrees
  BY DEF DiscoveryAgrees
<1> QED BY <1>2, <1>3, SyncedKeysAlwaysAgree, PTL

(***************************************************************************)
(* CoinGecko.  Only those that slept exceed the limit of a minute, for any *)
(* limit, length of the minute and number of calls.                        *)
(***************************************************************************)
CgSpec == CgInit /\ [][CgStep]_cgVars

(* Times that have come, in their order.                                   *)
InOrder(times, instant) ==
  /\ times \in Seq(Nat) /\ \A i \in DOMAIN times : times[i] <= instant
  /\ \A i, j \in DOMAIN times : i <= j => times[i] <= times[j]

Old(t, instant) == instant - t >= Minute

(* Counted from the end, the stamps are the times of the requests; what    *)
(* the longer one has more is older than a minute.                         *)
SameEnd(s, t, instant) ==
  /\ \A i \in DOMAIN s, j \in DOMAIN t : Len(s) - i = Len(t) - j => s[i] = t[j]
  /\ \A i \in DOMAIN s : Len(s) - i >= Len(t) => Old(s[i], instant)
  /\ \A j \in DOMAIN t : Len(t) - j >= Len(s) => Old(t[j], instant)

Unslept == {i \in DOMAIN sends : ~sends[i].slept}

CgInv ==
  /\ clock \in Nat /\ InOrder(stamps, clock)
  /\ sends \in Seq([at : Nat, slept : BOOLEAN]) /\ InOrder(SentAt, clock)
  /\ SameEnd(stamps, SentAt, clock)
  /\ Cardinality(Unslept) <= RateLimit
  /\ SleepersOnlyExceed

(* What the filter keeps: those from the first recent one on, and nothing  *)
(* before it is recent.                                                    *)
LEMMA SinceIs ==
  ASSUME NEW times, clock \in Nat, InOrder(times, clock)
  PROVE  /\ Since(times, Minute) \in 1..Len(times) + 1
         /\ \A i \in DOMAIN times : i >= Since(times, Minute) <=> ~Old(times[i], clock)
<1> DEFINE S == {i \in DOMAIN times : clock - times[i] < Minute} \cup {Len(times) + 1}
           f == Since(times, Minute)
<1>1. times \in Seq(Nat) /\ Len(times) \in Nat /\ DOMAIN times = 1..Len(times) /\ Minute \in Nat
  BY CoinGeckoAssumption DEF InOrder
<1>2. S \in SUBSET Nat /\ S # {}
  BY <1>1
<1>3. \E x \in S : \A y \in S : x <= y
  BY <1>2, LeastOf
<1>4. f \in S /\ \A y \in S : f <= y
  <2>1. f = CHOOSE x \in S : \A y \in S : x <= y
    BY DEF Since, Min
  <2> HIDE DEF S, f
  <2> QED BY <1>3, <2>1, Zenon
<1>5. PICK n \in Nat : n = Len(times)
  BY <1>1
<1>6. \A i \in 1..n : times[i] \in Nat /\ times[i] <= clock
  BY <1>1, <1>5 DEF InOrder
<1>7. f \in 1..n + 1
  BY <1>1, <1>4, <1>5
<1>8. ASSUME NEW i \in 1..n, f <= i PROVE clock - times[i] < Minute
  <2>1. f \in 1..n /\ clock - times[f] < Minute
    <3>1. f \in 1..n /\ f # n + 1
      BY <1>7, <1>8
    <3> HIDE DEF f
    <3>2. f \in S /\ f # Len(times) + 1
      BY <1>4, <1>5, <3>1
    <3> QED BY <3>1, <3>2
  <2>2. times[f] <= times[i]
    BY <1>1, <1>5, <1>8, <2>1 DEF InOrder
  <2>3. PICK a \in Nat, b \in Nat : a = times[f] /\ b = times[i]
    BY <1>6, <2>1
  <2>4. clock - a < Minute /\ a <= b
    BY <2>1, <2>2, <2>3
  <2>5. clock - b < Minute
    BY <1>1, <2>4
  <2> QED BY <2>3, <2>5
<1>9. ASSUME NEW i \in 1..n, clock - times[i] < Minute PROVE f <= i
  <2>1. i \in S
    BY <1>1, <1>5, <1>9
  <2> HIDE DEF S, f
  <2> QED BY <1>4, <2>1
<1> HIDE DEF f
<1>10. ASSUME NEW i \in 1..n PROVE i >= f <=> ~Old(times[i], clock)
  <2>1. clock - times[i] < Minute <=> ~Old(times[i], clock)
    BY <1>1, <1>6 DEF Old
  <2>2. f <= i <=> i >= f
    BY <1>7
  <2> QED BY <1>8, <1>9, <2>1, <2>2, Zenon
<1> QED BY <1>1, <1>5, <1>7, <1>10 DEF f

(* The end of a sequence.                                                  *)
LEMMA EndOf ==
  ASSUME NEW T, NEW s \in Seq(T), NEW f \in 1..Len(s) + 1
  PROVE  /\ SubSeq(s, f, Len(s)) \in Seq(T)
         /\ Len(SubSeq(s, f, Len(s))) = Len(s) - f + 1
         /\ \A i \in 1..Len(s) - f + 1 : SubSeq(s, f, Len(s))[i] = s[f + i - 1]
<1>1. PICK n \in Nat : n = Len(s)
  OBVIOUS
<1>2. f \in Nat \ {0} /\ n - f + 1 \in Nat /\ \A i \in f..n : i \in 1..n
  BY <1>1
<1>3. SubSeq(s, f, n) = [i \in 1..n - f + 1 |-> s[f + i - 1]]
  BY <1>1, <1>2
<1>4. \A i \in 1..n - f + 1 : s[f + i - 1] \in T
  BY <1>1, <1>2
<1> DEFINE e == SubSeq(s, f, n)
<1>5. PICK k \in Nat : k = n - f + 1
  BY <1>2
<1>6. DOMAIN e = 1..k /\ \A i \in 1..k : e[i] = s[f + i - 1]
  BY <1>3, <1>5
<1>7. e \in [1..k -> T]
  <2>1. e = [i \in 1..k |-> s[f + i - 1]] /\ \A i \in 1..k : s[f + i - 1] \in T
    BY <1>3, <1>4, <1>5
  <2> HIDE DEF e
  <2> QED BY <2>1
<1> HIDE DEF e
<1>8. e \in Seq(T) /\ Len(e) = k
  BY <1>5, <1>7
<1>9. e = SubSeq(s, f, Len(s)) /\ k = Len(s) - f + 1
  BY <1>1, <1>5 DEF e
<1> QED BY <1>6, <1>8, <1>9, Zenon

(* The end of times in order is in order, and so with the present time.     *)
LEMMA PushKeepsOrder ==
  ASSUME NEW instant \in Nat, NEW times, InOrder(times, instant), NEW f \in 1..Len(times) + 1
  PROVE  /\ InOrder(SubSeq(times, f, Len(times)), instant)
         /\ InOrder(Append(SubSeq(times, f, Len(times)), instant), instant)
<1> DEFINE e == SubSeq(times, f, Len(times))
<1>1. PICK n \in Nat : n = Len(times) /\ times \in Seq(Nat) /\ DOMAIN times = 1..n
  BY DEF InOrder
<1>2. PICK m \in Nat : m = n - f + 1
  BY <1>1
<1>3. e \in Seq(Nat) /\ Len(e) = m /\ \A i \in 1..m : e[i] = times[f + i - 1]
  BY <1>1, <1>2, EndOf
<1>4. f \in Nat /\ \A i \in 1..m : f + i - 1 \in 1..n
  BY <1>1, <1>2
<1> HIDE DEF e
<1>5. ASSUME NEW i \in 1..m PROVE e[i] <= instant
  BY <1>1, <1>3, <1>4 DEF InOrder
<1>6. ASSUME NEW i \in 1..m, NEW j \in 1..m, i <= j PROVE e[i] <= e[j]
  <2>1. f + i - 1 <= f + j - 1
    BY <1>4, <1>6
  <2> QED BY <1>1, <1>3, <1>4, <2>1 DEF InOrder
<1>7. InOrder(e, instant)
  BY <1>3, <1>5, <1>6 DEF InOrder
<1> DEFINE a == Append(e, instant)
<1>8. /\ a \in Seq(Nat) /\ DOMAIN a = 1..m + 1 /\ a[m + 1] = instant
      /\ \A i \in 1..m : a[i] = e[i]
  BY <1>3
<1> HIDE DEF a
<1>9. \A i \in 1..m : e[i] \in Nat
  BY <1>3
<1>10. ASSUME NEW i \in 1..m + 1, NEW j \in 1..m + 1, i <= j PROVE a[i] <= a[j] /\ a[i] <= instant
  <2>1. CASE j \in 1..m
    BY <1>5, <1>6, <1>8, <1>10, <2>1
  <2>2. CASE j = m + 1 /\ i \in 1..m
    BY <1>5, <1>8, <2>2
  <2>3. CASE i = m + 1 /\ j = m + 1
    BY <1>8, <2>3
  <2> QED BY <1>10, <2>1, <2>2, <2>3
<1>11. InOrder(a, instant)
  <2>1. \A i \in 1..m + 1 : a[i] <= instant
    BY <1>10
  <2> QED BY <1>8, <1>10, <2>1 DEF InOrder
<1> QED BY <1>7, <1>11 DEF a, e

LEMMA SameIsSymmetric ==
  ASSUME NEW s, NEW t, NEW instant, SameEnd(s, t, instant)
  PROVE  SameEnd(t, s, instant)
BY DEF SameEnd

(* What is dropped from one of them is older than a minute.                *)
LEMMA TrimKeepsSame ==
  ASSUME NEW s \in Seq(Nat), NEW t \in Seq(Nat), NEW instant \in Nat, SameEnd(s, t, instant),
         NEW f \in 1..Len(s) + 1, \A i \in DOMAIN s : i < f => Old(s[i], instant)
  PROVE  SameEnd(SubSeq(s, f, Len(s)), t, instant)
<1> DEFINE e == SubSeq(s, f, Len(s))
<1>1. PICK n \in Nat, k \in Nat :
        n = Len(s) /\ DOMAIN s = 1..n /\ k = Len(t) /\ DOMAIN t = 1..k
  OBVIOUS
<1>0. f \in Nat /\ 1 <= f /\ f <= n + 1
  BY <1>1
<1>2. PICK m \in Nat : m = n - f + 1
  BY <1>0
<1>3. Len(e) = m /\ DOMAIN e = 1..m /\ \A i \in 1..m : e[i] = s[f + i - 1]
  <2>1. /\ e \in Seq(Nat) /\ Len(e) = n - f + 1
        /\ \A i \in 1..n - f + 1 : e[i] = s[f + i - 1]
    BY <1>1, EndOf
  <2> HIDE DEF e
  <2> QED BY <1>2, <2>1
<1>4. f \in Nat /\ \A i \in 1..m : f + i - 1 \in 1..n /\ n - (f + i - 1) = m - i
  BY <1>1, <1>2
<1> HIDE DEF e
<1>5. ASSUME NEW i \in 1..m, NEW j \in 1..k, m - i = k - j PROVE e[i] = t[j]
  <2>1. s[f + i - 1] = t[j]
    BY <1>1, <1>4, <1>5 DEF SameEnd
  <2> QED BY <1>3, <2>1
<1>6. ASSUME NEW i \in 1..m, m - i >= k PROVE Old(e[i], instant)
  <2>1. Old(s[f + i - 1], instant)
    BY <1>1, <1>4, <1>6 DEF SameEnd
  <2> QED BY <1>3, <2>1
<1>7. ASSUME NEW j \in 1..k, k - j >= m PROVE Old(t[j], instant)
  <2>1. CASE k - j >= n
    BY <1>1, <2>1 DEF SameEnd
  <2>2. CASE k - j < n
    <3>1. PICK i \in 1..n : i = n - (k - j)
      BY <2>2
    <3>2. i < f /\ n - i = k - j
      BY <1>2, <1>7, <3>1
    <3>3. s[i] = t[j] /\ Old(s[i], instant)
      BY <1>1, <3>2 DEF SameEnd
    <3> QED BY <3>3
  <2> QED BY <2>1, <2>2
<1>8. SameEnd(e, t, instant)
  BY <1>1, <1>3, <1>5, <1>6, <1>7 DEF SameEnd
<1> QED BY <1>8 DEF e

LEMMA PushKeepsSame ==
  ASSUME NEW s \in Seq(Nat), NEW t \in Seq(Nat), NEW instant \in Nat, SameEnd(s, t, instant)
  PROVE  SameEnd(Append(s, instant), Append(t, instant), instant)
<1> DEFINE a == Append(s, instant)
           b == Append(t, instant)
<1>1. PICK n \in Nat, k \in Nat :
        n = Len(s) /\ DOMAIN s = 1..n /\ k = Len(t) /\ DOMAIN t = 1..k
  OBVIOUS
<1>2. /\ Len(a) = n + 1 /\ DOMAIN a = 1..n + 1 /\ a[n + 1] = instant /\ \A i \in 1..n : a[i] = s[i]
      /\ Len(b) = k + 1 /\ DOMAIN b = 1..k + 1 /\ b[k + 1] = instant /\ \A j \in 1..k : b[j] = t[j]
  BY <1>1
<1> HIDE DEF a, b
<1>3. ASSUME NEW i \in 1..n + 1, NEW j \in 1..k + 1, n + 1 - i = k + 1 - j PROVE a[i] = b[j]
  <2>1. CASE i = n + 1
    BY <1>2, <1>3, <2>1
  <2>2. CASE i \in 1..n
    <3>1. j \in 1..k /\ n - i = k - j
      BY <1>3, <2>2
    <3>2. s[i] = t[j]
      BY <1>1, <2>2, <3>1 DEF SameEnd
    <3> QED BY <1>2, <2>2, <3>1, <3>2
  <2> QED BY <2>1, <2>2
<1>4. ASSUME NEW i \in 1..n + 1, n + 1 - i >= k + 1 PROVE Old(a[i], instant)
  <2>1. i \in 1..n /\ n - i >= k
    BY <1>4
  <2>2. Old(s[i], instant)
    BY <1>1, <2>1 DEF SameEnd
  <2> QED BY <1>2, <2>1, <2>2
<1>5. ASSUME NEW j \in 1..k + 1, k + 1 - j >= n + 1 PROVE Old(b[j], instant)
  <2>1. j \in 1..k /\ k - j >= n
    BY <1>5
  <2>2. Old(t[j], instant)
    BY <1>1, <2>1 DEF SameEnd
  <2> QED BY <1>2, <2>1, <2>2
<1>6. SameEnd(a, b, instant)
  <2>1. \A i \in DOMAIN a, j \in DOMAIN b : Len(a) - i = Len(b) - j => a[i] = b[j]
    <3> SUFFICES ASSUME NEW i \in DOMAIN a, NEW j \in DOMAIN b, Len(a) - i = Len(b) - j
                 PROVE  a[i] = b[j]
      OBVIOUS
    <3>1. i \in 1..n + 1 /\ j \in 1..k + 1 /\ n + 1 - i = k + 1 - j
      BY <1>2
    <3> QED BY <1>3, <3>1
  <2>2. \A i \in DOMAIN a : Len(a) - i >= Len(b) => Old(a[i], instant)
    BY <1>2, <1>4
  <2>3. \A j \in DOMAIN b : Len(b) - j >= Len(a) => Old(b[j], instant)
    BY <1>2, <1>5
  <2> QED BY <2>1, <2>2, <2>3 DEF SameEnd
<1> QED BY <1>6 DEF a, b

(* Neither has more of the last minute than the other.                     *)
LEMMA NoMoreRecent ==
  ASSUME NEW s, NEW t, clock \in Nat, InOrder(s, clock), InOrder(t, clock), SameEnd(s, t, clock)
  PROVE  Len(t) - Since(t, Minute) <= Len(s) - Since(s, Minute)
<1> DEFINE f == Since(s, Minute)
           g == Since(t, Minute)
<1>1. PICK n \in Nat, k \in Nat :
        n = Len(s) /\ DOMAIN s = 1..n /\ k = Len(t) /\ DOMAIN t = 1..k
  BY DEF InOrder
<1>2. /\ f \in 1..n + 1 /\ \A i \in 1..n : i >= f <=> ~Old(s[i], clock)
      /\ g \in 1..k + 1 /\ \A j \in 1..k : j >= g <=> ~Old(t[j], clock)
  BY <1>1, SinceIs
<1> HIDE DEF f, g
<1>3. CASE g = k + 1
  BY <1>1, <1>2, <1>3 DEF f, g
<1>4. CASE g \in 1..k
  <2>1. ~Old(t[g], clock)
    BY <1>2, <1>4
  <2>2. k - g < n
    BY <1>1, <1>4, <2>1 DEF SameEnd
  <2>3. PICK i \in 1..n : n - i = k - g
    <3>1. n - (k - g) \in 1..n /\ n - (n - (k - g)) = k - g
      BY <1>4, <2>2
    <3> QED BY <3>1
  <2>4. s[i] = t[g]
    BY <1>1, <1>4, <2>3 DEF SameEnd
  <2>5. i >= f
    BY <1>2, <2>1, <2>4
  <2>6. k - g <= n - f
    BY <1>2, <1>4, <2>3, <2>5
  <2> QED BY <1>1, <2>6 DEF f, g
<1> QED BY <1>2, <1>3, <1>4

LEMMA AppendIs ==
  ASSUME NEW T, NEW s \in Seq(T), NEW x \in T
  PROVE  Append(s, x) = [i \in 1..Len(s) + 1 |-> IF i = Len(s) + 1 THEN x ELSE s[i]]
<1>0. Append(s, x) \in Seq(T)
  OBVIOUS
<1>1. PICK a \in Seq(T) : a = Append(s, x)
  BY <1>0, Zenon
<1>2. PICK n \in Nat : n = Len(s)
  OBVIOUS
<1>3. Len(a) = n + 1 /\ \A i \in 1..n + 1 : a[i] = IF i = n + 1 THEN x ELSE s[i]
  BY <1>1, <1>2
<1>4. a = [i \in 1..Len(a) |-> a[i]]
  OBVIOUS
<1>5. a = [i \in 1..n + 1 |-> IF i = n + 1 THEN x ELSE s[i]]
  BY <1>3, <1>4
<1> QED BY <1>1, <1>2, <1>5

(* A request is sent with the minute before it not full, or after a sleep. *)
LEMMA PushedKeeps ==
  ASSUME CgInv, NEW c, NEW s, NEW slept \in BOOLEAN, Pushed(c, s, slept), clock' = clock,
         \/ slept = FALSE /\ s = Recent(stamps) /\ Len(s) < RateLimit
         \/ slept = TRUE /\ s = stamps
  PROVE  CgInv'
<1> DEFINE t == SentAt
           f == Since(stamps, Minute)
           g == Since(SentAt, Minute)
           r == SubSeq(sends, g, Len(sends))
           u == SubSeq(SentAt, g, Len(SentAt))
           q == [at |-> clock, slept |-> slept]
<1>1. /\ clock \in Nat /\ InOrder(stamps, clock) /\ InOrder(t, clock) /\ SameEnd(stamps, t, clock)
      /\ sends \in Seq([at : Nat, slept : BOOLEAN]) /\ stamps \in Seq(Nat) /\ t \in Seq(Nat)
      /\ RateLimit \in Nat
  BY CoinGeckoAssumption DEF CgInv, InOrder
<1>2. PICK n \in Nat, k \in Nat : n = Len(stamps) /\ k = Len(sends)
  BY <1>1
<1>3. DOMAIN sends = 1..k /\ DOMAIN t = 1..k /\ Len(t) = k /\ \A i \in 1..k : t[i] = sends[i].at
  BY <1>1, <1>2 DEF SentAt
<1>4. /\ f \in 1..n + 1 /\ \A i \in DOMAIN stamps : i >= f <=> ~Old(stamps[i], clock)
      /\ g \in 1..k + 1 /\ \A i \in DOMAIN t : i >= g <=> ~Old(t[i], clock)
  BY <1>1, <1>2, <1>3, SinceIs
<1>5. n - f = k - g
  <2>1. n - f <= k - g
    BY <1>1, <1>2, <1>3, NoMoreRecent, SameIsSymmetric
  <2>2. k - g <= n - f
    BY <1>1, <1>2, <1>3, NoMoreRecent
  <2> HIDE DEF f, g
  <2> QED BY <1>4, <2>1, <2>2
<1>6. stamps' = Append(s, clock) /\ sends' = Append(r, q)
  BY DEF Pushed
<1>7. PICK m \in Nat : m = k - g + 1
  BY <1>4
<1>8. /\ r \in Seq([at : Nat, slept : BOOLEAN]) /\ Len(r) = m
      /\ \A i \in 1..m : r[i] = sends[g + i - 1]
  BY <1>1, <1>2, <1>4, <1>7, EndOf
<1>9. u \in Seq(Nat) /\ Len(u) = m /\ \A i \in 1..m : u[i] = t[g + i - 1]
  <2> HIDE DEF t, g
  <2>1. u = SubSeq(t, g, Len(t))
    BY DEF t
  <2>2. t \in Seq(Nat) /\ g \in 1..Len(t) + 1
    BY <1>1, <1>3, <1>4
  <2> HIDE DEF u
  <2>3. /\ u \in Seq(Nat) /\ Len(u) = Len(t) - g + 1
        /\ \A i \in 1..Len(t) - g + 1 : u[i] = t[g + i - 1]
    BY <2>1, <2>2, EndOf
  <2> QED BY <1>3, <1>7, <2>3
<1>10. \A i \in 1..m : g + i - 1 \in 1..k
  BY <1>4, <1>7
<1> HIDE DEF g, r, u
<1>11. /\ sends' \in Seq([at : Nat, slept : BOOLEAN]) /\ Len(sends') = m + 1 /\ DOMAIN sends' = 1..m + 1
       /\ \A i \in 1..m : sends'[i] = r[i]
       /\ sends'[m + 1] = q
  BY <1>1, <1>6, <1>8
<1>12. SentAt' = Append(u, clock)
  <2>1. SentAt' = [i \in 1..m + 1 |-> sends'[i].at]
    BY <1>11 DEF SentAt
  <2>2. Append(u, clock) = [i \in 1..m + 1 |-> IF i = m + 1 THEN clock ELSE u[i]]
    <3>0. u \in Seq(Nat) /\ clock \in Nat
      BY <1>1, <1>9
    <3>1. Append(u, clock) = [i \in 1..Len(u) + 1 |-> IF i = Len(u) + 1 THEN clock ELSE u[i]]
      <4>1. \A w \in Seq(Nat), x \in Nat :
              Append(w, x) = [i \in 1..Len(w) + 1 |-> IF i = Len(w) + 1 THEN x ELSE w[i]]
        BY AppendIs
      <4> QED BY <3>0, <4>1, Zenon
    <3> QED BY <1>9, <3>1
  <2>3. ASSUME NEW i \in 1..m + 1 PROVE sends'[i].at = IF i = m + 1 THEN clock ELSE u[i]
    <3>1. CASE i = m + 1
      BY <1>11, <3>1
    <3>2. CASE i \in 1..m
      <4>1. sends'[i].at = sends[g + i - 1].at
        BY <1>8, <1>11, <3>2
      <4>2. u[i] = sends[g + i - 1].at
        BY <1>3, <1>9, <1>10, <3>2
      <4> QED BY <3>2, <4>1, <4>2
    <3> QED BY <3>1, <3>2
  <2> QED BY <2>1, <2>2, <2>3, Zenon
<1>13. SameEnd(stamps, u, clock)
  <2>1. \A i \in DOMAIN t : i < g => Old(t[i], clock)
    BY <1>3, <1>4
  <2>2. SameEnd(u, stamps, clock)
    BY <1>1, <1>3, <1>4, <2>1, TrimKeepsSame, SameIsSymmetric DEF u
  <2> QED BY <2>2, SameIsSymmetric
<1>14. s \in Seq(Nat) /\ SameEnd(s, u, clock) /\ InOrder(stamps', clock')
  <2>1. CASE s = Recent(stamps)
    <3>1. \A i \in DOMAIN stamps : i < f => Old(stamps[i], clock)
      BY <1>1, <1>4
    <3> HIDE DEF f
    <3>2. SameEnd(SubSeq(stamps, f, Len(stamps)), u, clock)
      BY <1>1, <1>2, <1>4, <1>9, <1>13, <3>1, TrimKeepsSame
    <3>3. s = SubSeq(stamps, f, Len(stamps))
      BY <2>1 DEF Recent, f
    <3>4. InOrder(Append(SubSeq(stamps, f, Len(stamps)), clock), clock)
      BY <1>1, <1>2, <1>4, PushKeepsOrder
    <3>5. SubSeq(stamps, f, Len(stamps)) \in Seq(Nat)
      BY <1>1, <1>2, <1>4, EndOf
    <3> QED BY <1>6, <3>2, <3>3, <3>4, <3>5
  <2>2. CASE s = stamps
    <3>1. SubSeq(stamps, 1, Len(stamps)) = stamps
      BY <1>1
    <3>2. 1 \in 1..Len(stamps) + 1
      BY <1>1
    <3>3. InOrder(Append(SubSeq(stamps, 1, Len(stamps)), clock), clock)
      BY <1>1, <3>2, PushKeepsOrder
    <3> QED BY <1>1, <1>6, <1>13, <2>2, <3>1, <3>3
  <2> QED BY <2>1, <2>2
<1>15. SameEnd(stamps', SentAt', clock')
  BY <1>1, <1>6, <1>9, <1>12, <1>14, PushKeepsSame
<1>16. InOrder(SentAt', clock')
  BY <1>1, <1>3, <1>4, <1>12, PushKeepsOrder DEF u
<1>17. IsFiniteSet(Unslept') /\ Cardinality(Unslept') <= m + 1
  <2>1. IsFiniteSet(1..m + 1) /\ Cardinality(1..m + 1) = m + 1
    BY FS_Interval
  <2>2. Unslept' \in SUBSET (1..m + 1)
    BY <1>11 DEF Unslept
  <2>3. Cardinality(Unslept') \in Nat
    BY <2>1, <2>2, FS_Subset, FS_CardinalityType
  <2> QED BY <2>1, <2>2, FS_Subset
<1>18. CASE slept = FALSE
  <2>1. Len(s) = n - f + 1
    BY <1>1, <1>2, <1>4, <1>18, EndOf DEF Recent
  <2> HIDE DEF f
  <2>2. m + 1 <= RateLimit
    BY <1>1, <1>4, <1>5, <1>7, <1>18, <2>1
  <2>3. Cardinality(Unslept') <= RateLimit
    <3>1. Cardinality(Unslept') \in Nat
      BY <1>17, FS_CardinalityType
    <3> QED BY <1>1, <1>17, <2>2, <3>1
  <2>4. SleepersOnlyExceed'
    BY <1>11, <2>2, <2>3 DEF SleepersOnlyExceed, Unslept
  <2> QED BY <1>1, <1>11, <1>14, <1>15, <1>16, <2>3, <2>4 DEF CgInv
<1>19. CASE slept = TRUE
  <2>1. Unslept' \subseteq 1..m /\ \A i \in Unslept' : g + i - 1 \in Unslept
    <3>1. \A i \in Unslept' : i \in 1..m + 1 /\ sends'[i].slept = FALSE
      BY <1>11 DEF Unslept
    <3>2. sends'[m + 1].slept = TRUE
      BY <1>11, <1>19
    <3>3. \A i \in Unslept' : i \in 1..m
      BY <3>1, <3>2
    <3>4. \A i \in Unslept' : g + i - 1 \in DOMAIN sends /\ sends[g + i - 1].slept = FALSE
      BY <1>3, <1>8, <1>10, <1>11, <3>1, <3>3
    <3> QED BY <3>3, <3>4 DEF Unslept
  <2> DEFINE h == [i \in Unslept' |-> g + i - 1]
  <2>2. h \in Injection(Unslept', Unslept)
    BY <1>4, <2>1 DEF Injection, IsInjective
  <2>3. IsFiniteSet(Unslept) /\ Cardinality(Unslept) \in Nat
    <3>1. IsFiniteSet(1..k) /\ Unslept \in SUBSET (1..k)
      BY <1>3, FS_Interval DEF Unslept
    <3> QED BY <3>1, FS_Subset, FS_CardinalityType
  <2> HIDE DEF h
  <2>4. Cardinality(Unslept') <= Cardinality(Unslept)
    BY <2>2, <2>3, FS_Injection
  <2>5. Cardinality(Unslept') <= RateLimit
    <3>1. Cardinality(Unslept') \in Nat
      BY <1>17, FS_CardinalityType
    <3> QED BY <1>1, <2>3, <2>4, <3>1 DEF CgInv
  <2>6. SleepersOnlyExceed'
    <3>1. Last(sends').slept = TRUE
      BY <1>11, <1>19 DEF Last
    <3> QED BY <2>5, <3>1 DEF SleepersOnlyExceed, Unslept
  <2> QED BY <1>1, <1>11, <1>14, <1>15, <1>16, <2>5, <2>6 DEF CgInv
<1> QED BY <1>18, <1>19

(* The minute is full: only the stamps are filtered.                       *)
LEMMA FilteredKeeps ==
  ASSUME CgInv, stamps' = Recent(stamps), clock' = clock, sends' = sends
  PROVE  CgInv'
<1> DEFINE f == Since(stamps, Minute)
<1>1. /\ clock \in Nat /\ InOrder(stamps, clock) /\ stamps \in Seq(Nat) /\ SentAt \in Seq(Nat)
      /\ SameEnd(stamps, SentAt, clock)
  BY DEF CgInv, InOrder
<1>2. PICK n \in Nat : n = Len(stamps) /\ DOMAIN stamps = 1..n
  BY <1>1
<1>3. f \in 1..Len(stamps) + 1 /\ \A i \in DOMAIN stamps : i >= f <=> ~Old(stamps[i], clock)
  BY <1>1, SinceIs
<1>4. stamps' = SubSeq(stamps, f, Len(stamps))
  BY DEF Recent
<1> HIDE DEF f
<1>5. \A i \in DOMAIN stamps : i < f => Old(stamps[i], clock)
  BY <1>2, <1>3
<1>6. InOrder(stamps', clock) /\ SameEnd(stamps', SentAt, clock)
  BY <1>1, <1>3, <1>4, <1>5, TrimKeepsSame, PushKeepsOrder
<1>7. SentAt' = SentAt /\ Unslept' = Unslept /\ SleepersOnlyExceed' = SleepersOnlyExceed
  BY DEF SentAt, Unslept, SleepersOnlyExceed
<1> QED BY <1>6, <1>7 DEF CgInv

LEMMA CgInitInv == CgInit => CgInv
<1> SUFFICES ASSUME CgInit PROVE CgInv
  OBVIOUS
<1>1. clock = 0 /\ stamps = <<>> /\ sends = <<>> /\ SentAt = <<>>
  BY DEF CgInit, SentAt
<1>2. InOrder(<<>>, 0) /\ SameEnd(<<>>, <<>>, 0)
  BY DEF InOrder, SameEnd
<1>3. Unslept = {} /\ Cardinality(Unslept) = 0
  BY <1>1, FS_EmptySet DEF Unslept
<1> QED BY <1>1, <1>2, <1>3, CoinGeckoAssumption DEF CgInv, SleepersOnlyExceed

LEMMA QuietKeeps == ASSUME CgInv, clock' = clock, stamps' = stamps, sends' = sends PROVE CgInv'
<1>1. SentAt' = SentAt /\ Unslept' = Unslept /\ SleepersOnlyExceed' = SleepersOnlyExceed
  BY DEF SentAt, Unslept, SleepersOnlyExceed
<1> QED BY <1>1 DEF CgInv

LEMMA ClockKeeps == ASSUME CgInv, CgClock PROVE CgInv'
<1>1. clock \in Nat /\ clock' = clock + 1 /\ stamps' = stamps /\ sends' = sends /\ Minute \in Nat
  BY CoinGeckoAssumption DEF CgInv, CgClock
<1>2. SentAt' = SentAt /\ Unslept' = Unslept /\ SleepersOnlyExceed' = SleepersOnlyExceed
  BY <1>1 DEF SentAt, Unslept, SleepersOnlyExceed
<1>3. ASSUME NEW times, InOrder(times, clock) PROVE InOrder(times, clock')
  BY <1>1, <1>3 DEF InOrder
<1>4. ASSUME NEW x \in Nat, Old(x, clock) PROVE Old(x, clock')
  BY <1>1, <1>4 DEF Old
<1>5. SameEnd(stamps, SentAt, clock')
  BY <1>4 DEF CgInv, SameEnd, InOrder
<1> QED BY <1>1, <1>2, <1>3, <1>5 DEF CgInv

LEMMA CgStepInv == CgInv /\ [CgStep]_cgVars => CgInv'
<1> SUFFICES ASSUME CgInv, [CgStep]_cgVars PROVE CgInv'
  OBVIOUS
<1>1. ASSUME NEW c \in CgCalls, CgGet(c) PROVE CgInv'
  <2>1. CASE Len(Recent(stamps)) < RateLimit
    BY <1>1, <2>1, PushedKeeps DEF CgGet
  <2>2. CASE ~(Len(Recent(stamps)) < RateLimit)
    BY <1>1, <2>2, FilteredKeeps DEF CgGet
  <2> QED BY <2>1, <2>2
<1>2. ASSUME NEW c \in CgCalls, WakeUp(c) PROVE CgInv'
  BY <1>2, PushedKeeps DEF WakeUp
<1>3. ASSUME NEW c \in CgCalls, AskEndpoint(c) \/ CgAnswer(c) PROVE CgInv'
  BY <1>3, QuietKeeps DEF AskEndpoint, CgAnswer
<1>4. ASSUME NEW e \in Asked, Cleared(e) PROVE CgInv'
  BY <1>4, QuietKeeps DEF Cleared
<1>5. CASE UNCHANGED cgVars
  BY <1>5, QuietKeeps DEF cgVars
<1> QED BY <1>1, <1>2, <1>3, <1>4, <1>5, ClockKeeps DEF CgStep

(* Of the requests of any minute those that did not sleep are at most      *)
(* RateLimit, and when one of them is sent the minute before it is within  *)
(* it, for any limit, minute, endpoints and calls.                         *)
THEOREM SleepersOnlyEverExceed == CgSpec => []SleepersOnlyExceed
<1>1. CgInv => SleepersOnlyExceed
  BY DEF CgInv
<1> QED BY <1>1, CgInitInv, CgStepInv, PTL DEF CgSpec

(***************************************************************************)
(* TokenCatalogue, its types.  updatedAt orders the rows of the table and  *)
(* no others, and the lists of a run name an address once, for any lists,  *)
(* batches and pages.                                                      *)
(***************************************************************************)
Upto(at, i) == {j \in at : j <= i}

LEMMA UptoGrows ==
  ASSUME NEW at \in SUBSET Int, NEW i \in at, NEW j \in at, i < j
  PROVE  Upto(at, i) \subseteq at /\ Upto(at, i) \cup {j} \subseteq Upto(at, j) /\ j \notin Upto(at, i)
<1>1. i \in Int /\ j \in Int /\ j <= j /\ ~(j <= i)
  OBVIOUS
<1>2. ASSUME NEW x \in at, x <= i PROVE x <= j
  <2>1. x \in Int
    OBVIOUS
  <2> QED BY <1>1, <1>2, <2>1
<1> QED BY <1>1, <1>2, Zenon DEF Upto

LEMMA PlaceOf ==
  ASSUME NEW n \in Nat, NEW at \in SUBSET (1..n)
  PROVE  /\ IsFiniteSet(at) /\ Cardinality(at) \in Nat
         /\ \A i \in at : Cardinality(Upto(at, i)) \in 1..Cardinality(at)
         /\ \A k \in 1..Cardinality(at) : \E i \in at : Cardinality(Upto(at, i)) = k
<1>1. IsFiniteSet(at) /\ Cardinality(at) \in Nat /\ at \subseteq Int
  <2>1. IsFiniteSet(1..n)
    BY FS_Interval
  <2>2. IsFiniteSet(at)
    BY <2>1, FS_Subset
  <2> QED BY <2>2, FS_CardinalityType
<1>2. ASSUME NEW i \in at
      PROVE  /\ IsFiniteSet(Upto(at, i)) /\ Cardinality(Upto(at, i)) \in Nat
             /\ Cardinality(Upto(at, i)) \in 1..Cardinality(at)
  <2>1. Upto(at, i) \subseteq at /\ i \in Upto(at, i)
    BY DEF Upto
  <2>2. IsFiniteSet(Upto(at, i)) /\ Cardinality(Upto(at, i)) <= Cardinality(at)
    BY <1>1, <2>1, FS_Subset
  <2>3. Cardinality(Upto(at, i)) \in Nat /\ Cardinality(Upto(at, i)) # 0
    BY <2>1, <2>2, FS_CardinalityType, FS_EmptySet
  <2> QED BY <1>1, <2>2, <2>3
<1>3. ASSUME NEW i \in at, NEW j \in at, i < j
      PROVE  Cardinality(Upto(at, i)) # Cardinality(Upto(at, j))
  <2>1. Upto(at, i) \cup {j} \subseteq Upto(at, j) /\ j \notin Upto(at, i)
    BY <1>1, <1>3, UptoGrows
  <2>2. Cardinality(Upto(at, i) \cup {j}) = Cardinality(Upto(at, i)) + 1
    BY <1>2, <2>1, FS_AddElement
  <2>3. Cardinality(Upto(at, i) \cup {j}) <= Cardinality(Upto(at, j))
    BY <1>2, <2>1, FS_Subset
  <2> QED BY <1>2, <2>2, <2>3
<1> DEFINE T == 1..Cardinality(at)
           f == [i \in at |-> Cardinality(Upto(at, i))]
<1>4. f \in [at -> T]
  BY <1>2
<1>5. IsInjective(f)
  <2>1. \A i, j \in at : i < j \/ j < i \/ i = j
    OBVIOUS
  <2>2. \A i, j \in at : f[i] = f[j] => i = j
    BY <1>3, <2>1
  <2> QED BY <2>2 DEF IsInjective
<1>6. IsFiniteSet(T) /\ Cardinality(T) = Cardinality(at)
  BY <1>1, FS_Interval
<1>7. f \in Surjection(at, T)
  <2>1. f \in Injection(at, T)
    BY <1>4, <1>5 DEF Injection
  <2> HIDE DEF f, T
  <2> QED BY <1>6, <2>1, FS_Injection
<1>8. \A k \in T : \E i \in at : f[i] = k
  BY <1>7 DEF Surjection
<1> QED BY <1>1, <1>2, <1>8

LEMMA KeptIs ==
  ASSUME NEW E, NEW s \in Seq(E), NEW S
  PROVE  /\ Kept(s, S) \in Seq(E)
         /\ Range(Kept(s, S)) = Range(s) \cap S
         /\ IsInjective(s) => IsInjective(Kept(s, S))
<1>1. PICK n \in Nat : n = Len(s) /\ DOMAIN s = 1..n
  OBVIOUS
<1> DEFINE at == {i \in DOMAIN s : s[i] \in S}
           place(k) == CHOOSE i \in at : Cardinality({j \in at : j <= i}) = k
<1>2. at \in SUBSET (1..n) /\ \A i \in at : s[i] \in E
  BY <1>1
<1>3. PICK m \in Nat : m = Cardinality(at)
  BY <1>2, PlaceOf
<1>4. \A k \in 1..m : place(k) \in at /\ Cardinality(Upto(at, place(k))) = k
  <2> SUFFICES ASSUME NEW k \in 1..m PROVE place(k) \in at /\ Cardinality(Upto(at, place(k))) = k
    OBVIOUS
  <2>1. \E i \in at : Cardinality(Upto(at, i)) = k
    BY <1>2, <1>3, PlaceOf
  <2>2. place(k) = CHOOSE i \in at : Cardinality(Upto(at, i)) = k
    BY DEF Upto
  <2> HIDE DEF place, at
  <2> QED BY <2>1, <2>2, Zenon
<1>5. \A i \in at : \E k \in 1..m : place(k) = i
  <2> SUFFICES ASSUME NEW i \in at PROVE \E k \in 1..m : place(k) = i
    OBVIOUS
  <2>1. PICK k \in 1..m : k = Cardinality(Upto(at, i))
    BY <1>2, <1>3, PlaceOf
  <2>2. place(k) \in at /\ Cardinality(Upto(at, place(k))) = Cardinality(Upto(at, i))
    BY <1>4, <2>1
  <2>3. \A x, y \in at : x < y => Cardinality(Upto(at, x)) # Cardinality(Upto(at, y))
    <3> SUFFICES ASSUME NEW x \in at, NEW y \in at, x < y
                 PROVE  Cardinality(Upto(at, x)) # Cardinality(Upto(at, y))
      OBVIOUS
    <3>6. at \subseteq Int
      BY <1>2
    <3> HIDE DEF at
    <3>1. IsFiniteSet(at)
      BY <1>2, PlaceOf
    <3>2. Upto(at, x) \subseteq at /\ Upto(at, y) \subseteq at
          /\ Upto(at, x) \cup {y} \subseteq Upto(at, y) /\ y \notin Upto(at, x)
      BY <3>6, UptoGrows DEF Upto
    <3>3. IsFiniteSet(Upto(at, x)) /\ IsFiniteSet(Upto(at, y))
      BY <3>1, <3>2, FS_Subset
    <3>4. Cardinality(Upto(at, x) \cup {y}) = Cardinality(Upto(at, x)) + 1 /\ Cardinality(Upto(at, x)) \in Nat
      BY <3>2, <3>3, FS_AddElement, FS_CardinalityType
    <3>5. Cardinality(Upto(at, x) \cup {y}) <= Cardinality(Upto(at, y)) /\ Cardinality(Upto(at, y)) \in Nat
      BY <3>2, <3>3, FS_Subset, FS_CardinalityType
    <3> QED BY <3>4, <3>5
  <2>4. place(k) = i
    <3>1. place(k) \in Int /\ i \in Int
      BY <1>2, <2>2
    <3> HIDE DEF place, at
    <3> QED BY <2>2, <2>3, <3>1
  <2> QED BY <2>4
<1>6. \A k, l \in 1..m : place(k) = place(l) => k = l
  BY <1>4
<1> DEFINE t == [k \in 1..m |-> s[place(k)]]
<1>7. Kept(s, S) = t
  BY <1>3 DEF Kept
<1>8. t \in Seq(E)
  <2>1. \A k \in 1..m : s[place(k)] \in E
    BY <1>2, <1>4
  <2> HIDE DEF place, at
  <2> QED BY <2>1
<1>9. Range(t) = Range(s) \cap S
  <2>1. \A k \in 1..m : t[k] \in Range(s) /\ t[k] \in S
    BY <1>4 DEF Range
  <2>2. \A i \in DOMAIN s : s[i] \in S => \E k \in 1..m : t[k] = s[i]
    <3>1. \A i \in DOMAIN s : s[i] \in S => i \in at
      OBVIOUS
    <3> HIDE DEF place, at
    <3> QED BY <1>5, <3>1
  <2>3. DOMAIN t = 1..m
    OBVIOUS
  <2> HIDE DEF t
  <2> QED BY <2>1, <2>2, <2>3 DEF Range
<1>10. IsInjective(s) => IsInjective(t)
  <2> SUFFICES ASSUME IsInjective(s) PROVE \A k, l \in 1..m : s[place(k)] = s[place(l)] => k = l
    <3>1. DOMAIN t = 1..m /\ \A k \in 1..m : t[k] = s[place(k)]
      OBVIOUS
    <3> HIDE DEF t, place
    <3> QED BY <3>1 DEF IsInjective
  <2>1. \A k \in 1..m : place(k) \in at
    BY <1>4
  <2>2. at \subseteq DOMAIN s
    OBVIOUS
  <2> HIDE DEF place, at
  <2> QED BY <1>6, <2>1, <2>2 DEF IsInjective
<1> QED BY <1>7, <1>8, <1>9, <1>10

(* A list of addresses, each of them once.                                 *)
Listing(s) == s \in Seq(Range(Listed)) /\ IsInjective(s)

LEMMA KeptIsListing == ASSUME NEW s, NEW S, Listing(s) PROVE Listing(Kept(s, S)) /\ Range(Kept(s, S)) = Range(s) \cap S
BY KeptIs DEF Listing

LEMMA JoinedListing ==
  ASSUME NEW s, NEW t, Listing(s), Listing(t), Range(s) \cap Range(t) = {}
  PROVE  Listing(s \o t) /\ Range(s \o t) = Range(s) \cup Range(t)
<1> DEFINE E == Range(Listed)
<1>1. PICK n \in Nat, m \in Nat : n = Len(s) /\ DOMAIN s = 1..n /\ m = Len(t) /\ DOMAIN t = 1..m
  BY DEF Listing
<1> DEFINE u == s \o t
<1>2. u \in Seq(E) /\ Len(u) = n + m /\ DOMAIN u = 1..n + m
  BY <1>1 DEF Listing
<1>3. \A i \in 1..n + m : u[i] = IF i <= n THEN s[i] ELSE t[i - n]
  BY <1>1, ConcatIs DEF Listing
<1> HIDE DEF u
<1>4. \A i \in 1..n + m : (i <= n => i \in 1..n) /\ (i > n => i - n \in 1..m)
  OBVIOUS
<1>5. \A i \in 1..n, j \in 1..m : s[i] # t[j]
  BY <1>1 DEF Range
<1>6. Range(u) = Range(s) \cup Range(t)
  <2>1. \A i \in 1..n + m : u[i] \in Range(s) \cup Range(t)
    <3>1. ASSUME NEW i \in 1..n + m, i <= n PROVE u[i] \in Range(s)
      <4>1. u[i] = s[i] /\ i \in DOMAIN s
        BY <1>1, <1>3, <1>4, <3>1
      <4> QED BY <4>1 DEF Range
    <3>2. ASSUME NEW i \in 1..n + m, i > n PROVE u[i] \in Range(t)
      <4>1. PICK j \in 1..m : j = i - n
        BY <1>4, <3>2
      <4>2. u[i] = t[j] /\ j \in DOMAIN t
        BY <1>1, <1>3, <3>2, <4>1
      <4> QED BY <4>2 DEF Range
    <3> QED BY <3>1, <3>2
  <2>2. \A i \in 1..n : i \in 1..n + m /\ u[i] = s[i]
    BY <1>3
  <2>3. \A j \in 1..m : n + j \in 1..n + m /\ u[n + j] = t[j]
    BY <1>3
  <2>4. Range(s) \subseteq Range(u) /\ Range(t) \subseteq Range(u)
    <3>1. Range(s) \subseteq Range(u)
      BY <1>1, <1>2, <2>2 DEF Range
    <3>2. Range(t) \subseteq Range(u)
      <4>1. ASSUME NEW j \in 1..m PROVE t[j] \in Range(u)
        <5>1. PICK i \in 1..n + m : i = n + j
          OBVIOUS
        <5>2. u[i] = t[j] /\ i \in DOMAIN u
          BY <1>2, <2>3, <5>1
        <5> QED BY <5>2 DEF Range
      <4> QED BY <1>1, <4>1 DEF Range
    <3> QED BY <3>1, <3>2
  <2> QED BY <1>2, <2>1, <2>4 DEF Range
<1>7. IsInjective(u)
  <2>1. ASSUME NEW i \in 1..n + m, NEW j \in 1..n + m, u[i] = u[j] PROVE i = j
    <3>1. CASE i <= n /\ j <= n
      BY <1>1, <1>3, <1>4, <2>1, <3>1 DEF Listing, IsInjective
    <3>2. CASE i > n /\ j > n
      <4>1. i - n \in 1..m /\ j - n \in 1..m /\ t[i - n] = t[j - n]
        BY <1>3, <2>1, <3>2
      <4>2. i - n = j - n
        BY <1>1, <4>1 DEF Listing, IsInjective
      <4> QED BY <4>2
    <3>3. CASE (i <= n /\ j > n) \/ (i > n /\ j <= n)
      BY <1>3, <1>4, <1>5, <2>1, <3>3
    <3> QED BY <3>1, <3>2, <3>3
  <2> QED BY <1>2, <2>1 DEF IsInjective
<1> QED BY <1>2, <1>6, <1>7 DEF Listing, u

LEMMA SliceIsListing ==
  ASSUME NEW s, Listing(s), NEW a \in Nat, NEW b \in Nat, a >= 1, b <= Len(s)
  PROVE  Listing(SubSeq(s, a, b)) /\ Range(SubSeq(s, a, b)) \subseteq Range(s)
<1> DEFINE E == Range(Listed)
<1>1. PICK n \in Nat : n = Len(s) /\ DOMAIN s = 1..n
  BY DEF Listing
<1>3. (IF a <= b THEN b - a + 1 ELSE 0) \in Nat
  OBVIOUS
<1>2. PICK c \in Nat : c = IF a <= b THEN b - a + 1 ELSE 0
  BY <1>3, Zenon
<1> DEFINE t == [i \in 1..c |-> s[a + i - 1]]
<1>4. \A i \in 1..c : a + i - 1 \in 1..n
  BY <1>1, <1>2
<1>5. SubSeq(s, a, b) = t
  <2>1. SubSeq(s, a, b) = [i \in 1..(1 + b - a) |-> s[i + a - 1]]
    OBVIOUS
  <2>2. 1..(1 + b - a) = 1..c
    BY <1>2
  <2>3. \A i \in 1..c : s[i + a - 1] = s[a + i - 1]
    OBVIOUS
  <2> QED BY <2>1, <2>2, <2>3
<1>6. t \in Seq(E) /\ DOMAIN t = 1..c
  BY <1>1, <1>4 DEF Listing, Range
<1>7. \A i \in 1..c : t[i] = s[a + i - 1]
  OBVIOUS
<1> HIDE DEF t
<1>8. IsInjective(t)
  <2>1. ASSUME NEW i \in 1..c, NEW j \in 1..c, t[i] = t[j] PROVE i = j
    <3>1. a + i - 1 = a + j - 1
      BY <1>1, <1>4, <1>7, <2>1 DEF Listing, IsInjective
    <3> QED BY <3>1
  <2> QED BY <1>6, <2>1 DEF IsInjective
<1>9. Range(t) \subseteq Range(s)
  BY <1>1, <1>4, <1>6, <1>7 DEF Range
<1> QED BY <1>5, <1>6, <1>8, <1>9 DEF Listing

(* The run of a seeder.                                                    *)
RunOK(run) ==
  /\ DOMAIN run = RunFields
  /\ Listing(run.todo) /\ Listing(run.want)
  /\ run.attempt \in 1..UpsertTries
  /\ run.stage \in {"idle", "batch", "fetch", "copy", "upsert", "single"}
  /\ run.stage = "upsert" => DOMAIN run.values \subseteq Range(run.want)
  /\ run.stage \in {"fetch", "upsert", "single"} => run.want # <<>>

CronOK(run) == DOMAIN run = {"stage", "offset", "left"} /\ run.left \subseteq Range(Listed)

ListsOK ==
  /\ Listing(byUpdate) /\ Range(byUpdate) = DOMAIN catalogue
  /\ RunOK(seed) /\ CronOK(cron)
  /\ resolving \subseteq Range(Listed)
  /\ seeds \in 0..MaxSeeds

LEMMA EmptyListing == Listing(<<>>) /\ Range(<<>>) = {}
BY DEF Listing, IsInjective, Range

LEMMA OneListing == ASSUME NEW a \in Range(Listed) PROVE Listing(<<a>>) /\ Range(<<a>>) = {a}
<1>1. <<a>> \in Seq(Range(Listed)) /\ DOMAIN <<a>> = {1} /\ <<a>>[1] = a
  OBVIOUS
<1> QED BY <1>1 DEF Listing, IsInjective, Range

(* The rows that are written go to the end of the order.                   *)
LEMMA PutKeepsOrder ==
  ASSUME ListsOK, NEW values, NEW order, Listing(order), DOMAIN values \subseteq Range(order), Put(values, order)
  PROVE  Listing(byUpdate') /\ Range(byUpdate') = DOMAIN catalogue'
<1> DEFINE s == Kept(byUpdate, DOMAIN catalogue \ DOMAIN values)
           t == Kept(order, DOMAIN values)
<1>1. Listing(s) /\ Range(s) = DOMAIN catalogue \ DOMAIN values
  BY KeptIsListing DEF ListsOK
<1>2. Listing(t) /\ Range(t) = DOMAIN values
  BY KeptIsListing
<1>3. byUpdate' = s \o t
  BY DEF Put
<1>4. DOMAIN catalogue' = DOMAIN catalogue \cup DOMAIN values
  BY DEF Put
<1> HIDE DEF s, t
<1> QED BY <1>1, <1>2, <1>3, <1>4, JoinedListing

LEMMA UpdateKeepsOrder ==
  ASSUME ListsOK, NEW a \in Range(Listed), NEW new, Update(a, new)
  PROVE  Listing(byUpdate') /\ Range(byUpdate') = DOMAIN catalogue'
<1> DEFINE values == [x \in {a} \cap DOMAIN catalogue |-> new]
<1>1. Put(values, <<a>>) /\ DOMAIN values \subseteq {a}
  BY DEF Update
<1> HIDE DEF values
<1> QED BY <1>1, OneListing, PutKeepsOrder

LEMMA FirstIsListing ==
  ASSUME NEW s, Listing(s), NEW n \in Nat
  PROVE  /\ Listing(First(n, s)) /\ Range(First(n, s)) \subseteq Range(s)
<1>1. PICK l \in Nat : l = Len(s)
  BY DEF Listing
<1>2. PICK b \in Nat : b = Min({n, l}) /\ b <= l
  <2>1. Min({n, l}) = IF n <= l THEN n ELSE l
    BY MinOfTwo
  <2>2. (IF n <= l THEN n ELSE l) \in Nat /\ (IF n <= l THEN n ELSE l) <= l
    OBVIOUS
  <2> QED BY <2>1, <2>2
<1>3. First(n, s) = SubSeq(s, 1, b)
  BY <1>1, <1>2 DEF First
<1>4. Listing(SubSeq(s, 1, b)) /\ Range(SubSeq(s, 1, b)) \subseteq Range(s)
  <2>1. 1 \in Nat /\ 1 >= 1 /\ b <= Len(s)
    BY <1>1, <1>2
  <2> QED BY <1>2, <2>1, SliceIsListing, Zenon
<1> QED BY <1>3, <1>4

LEMMA ListsInit == CatalogueInit => ListsOK
<1> SUFFICES ASSUME CatalogueInit PROVE ListsOK
  OBVIOUS
<1>1. RunOK(NoRun)
  BY EmptyListing, CatalogueAssumption DEF RunOK, NoRun, RunFields, NoRows
<1>2. CronOK(NoCron)
  BY DEF CronOK, NoCron
<1>3. DOMAIN NoRows = {}
  BY DEF NoRows
<1> QED BY <1>1, <1>2, <1>3, EmptyListing, CatalogueAssumption DEF CatalogueInit, ListsOK

LEMMA StartLists == ASSUME ListsOK, NEW kind, NEW list, Listing(list), Start(kind, list) PROVE ListsOK'
<1> DEFINE run == [NoRun EXCEPT !.kind = kind, !.stage = "batch", !.todo = list]
<1>1. /\ DOMAIN run = RunFields /\ run.todo = list /\ run.want = <<>> /\ run.attempt = 1 /\ run.stage = "batch"
  BY DEF NoRun, RunFields
<1>3. seed' = run /\ seeds' \in 0..MaxSeeds
  BY CatalogueAssumption DEF Start, ListsOK
<1> HIDE DEF run
<1>2. RunOK(run)
  BY <1>1, EmptyListing, CatalogueAssumption DEF RunOK
<1> QED BY <1>2, <1>3 DEF Start, ListsOK

LEMMA NextBatchLists == ASSUME ListsOK, NextBatch PROVE ListsOK'
<1> DEFINE batch == First(SeedBatch, seed.todo)
           want == Unseen(batch)
           todo == SubSeq(seed.todo, Len(batch) + 1, Len(seed.todo))
           stage == IF want = <<>> THEN "batch" ELSE "fetch"
           run == [seed EXCEPT !.todo = todo, !.want = want, !.values = NoRows, !.attempt = 1, !.stage = stage]
<1>1. seed' = IF batch = <<>> THEN NoRun ELSE run
  BY DEF NextBatch
<1>2. Listing(batch)
  BY FirstIsListing, CatalogueAssumption DEF ListsOK, RunOK
<1> HIDE DEF batch
<1>3. Listing(want)
  BY <1>2, KeptIsListing DEF Unseen
<1>4. Listing(todo)
  <2>1. PICK a \in Nat, b \in Nat : a = Len(batch) + 1 /\ b = Len(seed.todo) /\ a >= 1
    BY <1>2 DEF Listing, ListsOK, RunOK
  <2> QED BY <2>1, SliceIsListing DEF ListsOK, RunOK
<1> HIDE DEF want, todo
<1>5. DOMAIN seed = RunFields
  BY DEF ListsOK, RunOK
<1>6. /\ DOMAIN run = RunFields /\ run.todo = todo /\ run.want = want /\ run.attempt = 1 /\ run.stage = stage
  BY <1>5 DEF RunFields
<1> HIDE DEF run
<1>7. RunOK(run)
  BY <1>3, <1>4, <1>6, CatalogueAssumption DEF RunOK
<1>8. RunOK(NoRun)
  BY EmptyListing, CatalogueAssumption DEF RunOK, NoRun, RunFields, NoRows
<1>9. RunOK(seed')
  BY <1>1, <1>7, <1>8
<1> QED BY <1>9 DEF NextBatch, ListsOK

LEMMA FetchLists == ASSUME ListsOK, FetchBatch PROVE ListsOK'
<1>1. PICK answered \in SUBSET Range(seed.want) :
       seed' = IF seed.kind = "chain"
               THEN [seed EXCEPT !.want = Kept(@, answered),
                                 !.stage = IF answered = {} THEN "batch" ELSE "copy"]
               ELSE [seed EXCEPT !.stage = "upsert",
                                 !.values = [a \in Range(seed.want) |->
                                   IF a \in answered THEN TokenRow("real", "jupiter", FALSE)
                                   ELSE TokenRow("made", "zero", FALSE)]]
  BY Zenon DEF FetchBatch
<1>2. DOMAIN seed = RunFields /\ seed.stage = "fetch" /\ seed.want # <<>> /\ Listing(seed.want)
  BY DEF FetchBatch, ListsOK, RunOK
<1>3. CASE seed.kind = "chain"
  <2> DEFINE want == Kept(seed.want, answered)
             stage == IF answered = {} THEN "batch" ELSE "copy"
             run == [seed EXCEPT !.want = want, !.stage = stage]
  <2>1. seed' = run
    BY <1>1, <1>3
  <2>2. Listing(want)
    BY <1>2, KeptIsListing
  <2> HIDE DEF want
  <2>3. /\ DOMAIN run = RunFields /\ run.todo = seed.todo /\ run.want = want /\ run.attempt = seed.attempt
        /\ run.stage = stage
    BY <1>2 DEF RunFields
  <2> HIDE DEF run
  <2>4. RunOK(run)
    BY <2>2, <2>3 DEF RunOK, ListsOK
  <2> QED BY <2>1, <2>4 DEF FetchBatch, ListsOK
<1>4. CASE seed.kind # "chain"
  <2> DEFINE values == [a \in Range(seed.want) |->
                          IF a \in answered THEN TokenRow("real", "jupiter", FALSE)
                          ELSE TokenRow("made", "zero", FALSE)]
             run == [seed EXCEPT !.stage = "upsert", !.values = values]
  <2>1. seed' = run
    BY <1>1, <1>4
  <2>2. DOMAIN values = Range(seed.want)
    OBVIOUS
  <2> HIDE DEF values
  <2>3. /\ DOMAIN run = RunFields /\ run.todo = seed.todo /\ run.want = seed.want /\ run.attempt = seed.attempt
        /\ run.stage = "upsert" /\ run.values = values
    BY <1>2 DEF RunFields
  <2> HIDE DEF run
  <2>4. RunOK(run)
    BY <1>2, <2>2, <2>3 DEF RunOK, ListsOK
  <2> QED BY <2>1, <2>4 DEF FetchBatch, ListsOK
<1> QED BY <1>3, <1>4

LEMMA CopyLists == ASSUME ListsOK, CopyRows PROVE ListsOK'
<1> DEFINE stage == IF \E a \in Range(seed.want) : a \in DOMAIN catalogue THEN "upsert" ELSE "batch"
           values == [a \in Range(seed.want) \cap DOMAIN catalogue |-> [catalogue[a] EXCEPT !.numbers = "jupiter"]]
           run == [seed EXCEPT !.stage = stage, !.values = values]
<1>1. seed' = run
  BY DEF CopyRows
<1>2. /\ DOMAIN values \subseteq Range(seed.want) /\ stage \in {"upsert", "batch"}
      /\ stage = "upsert" => seed.want # <<>>
  BY EmptyListing
<1> HIDE DEF values, stage
<1>3. DOMAIN seed = RunFields
  BY DEF ListsOK, RunOK
<1>4. /\ DOMAIN run = RunFields /\ run.todo = seed.todo /\ run.want = seed.want /\ run.attempt = seed.attempt
      /\ run.stage = stage /\ run.values = values
  BY <1>3 DEF RunFields
<1> HIDE DEF run
<1>5. RunOK(run)
  BY <1>2, <1>4 DEF RunOK, ListsOK
<1> QED BY <1>1, <1>5 DEF CopyRows, ListsOK

(* What is written is a part of the batch.                                 *)
LEMMA SeederKeepsOrder ==
  ASSUME ListsOK, NEW S, S \subseteq Range(seed.want), Put(Values(S), seed.want)
  PROVE  Listing(byUpdate') /\ Range(byUpdate') = DOMAIN catalogue'
<1>1. DOMAIN Values(S) = S
  BY DEF Values
<1>2. Listing(seed.want)
  BY DEF ListsOK, RunOK
<1> QED BY <1>1, <1>2, PutKeepsOrder

LEMMA UpsertLists == ASSUME ListsOK, UpsertBatch PROVE ListsOK'
<1> DEFINE run == [seed EXCEPT !.stage = "batch"]
<1>1. DOMAIN seed = RunFields /\ DOMAIN seed.values \subseteq Range(seed.want)
  BY DEF UpsertBatch, ListsOK, RunOK
<1>2. Put(Values(DOMAIN seed.values), seed.want) /\ seed' = run
  BY DEF UpsertBatch
<1>3. Listing(byUpdate') /\ Range(byUpdate') = DOMAIN catalogue'
  BY <1>1, <1>2, SeederKeepsOrder
<1>4. DOMAIN run = RunFields /\ run.todo = seed.todo /\ run.want = seed.want /\ run.attempt = seed.attempt /\ run.stage = "batch"
  BY <1>1 DEF RunFields
<1> HIDE DEF run
<1>5. RunOK(run)
  BY <1>4 DEF RunOK, ListsOK
<1> QED BY <1>2, <1>3, <1>5 DEF UpsertBatch, ListsOK

LEMMA FailsLists == ASSUME ListsOK, BatchFails PROVE ListsOK'
<1>1. /\ DOMAIN seed = RunFields /\ DOMAIN seed.values \subseteq Range(seed.want) /\ seed.stage = "upsert"
      /\ seed.want # <<>> /\ seed.attempt \in 1..UpsertTries
  BY DEF BatchFails, ListsOK, RunOK
<1>2. PICK n \in 0..(Len(seed.want) - 1) : Put(Values(DOMAIN seed.values \cap Range(First(n, seed.want))), seed.want)
  BY Zenon DEF BatchFails
<1>3. Listing(byUpdate') /\ Range(byUpdate') = DOMAIN catalogue'
  BY <1>1, <1>2, SeederKeepsOrder
<1> DEFINE given == [seed EXCEPT !.stage = "batch"]
           again == [seed EXCEPT !.attempt = @ + 1]
           single == [seed EXCEPT !.stage = "single"]
<1>4. /\ seed' \in {given, again, single}
      /\ seed' = again => seed.attempt < UpsertTries \/ again = single \/ again = given
  BY DEF BatchFails
<1>5. RunOK(given)
  <2>1. DOMAIN given = RunFields /\ given.todo = seed.todo /\ given.want = seed.want /\ given.attempt = seed.attempt /\ given.stage = "batch"
    BY <1>1 DEF RunFields
  <2> HIDE DEF given
  <2> QED BY <2>1 DEF RunOK, ListsOK
<1>6. RunOK(single)
  <2>1. DOMAIN single = RunFields /\ single.todo = seed.todo /\ single.want = seed.want /\ single.attempt = seed.attempt /\ single.stage = "single"
    BY <1>1 DEF RunFields
  <2> HIDE DEF single
  <2> QED BY <1>1, <2>1 DEF RunOK, ListsOK
<1>7. ASSUME seed.attempt < UpsertTries PROVE RunOK(again)
  <2>1. /\ DOMAIN again = RunFields /\ again.todo = seed.todo /\ again.want = seed.want /\ again.attempt = seed.attempt + 1
        /\ again.stage = "upsert" /\ again.values = seed.values
    BY <1>1 DEF RunFields
  <2>2. seed.attempt + 1 \in 1..UpsertTries
    BY <1>1, <1>7, CatalogueAssumption
  <2> HIDE DEF again
  <2> QED BY <1>1, <2>1, <2>2 DEF RunOK, ListsOK
<1> HIDE DEF given, again, single
<1>8. RunOK(seed')
  BY <1>4, <1>5, <1>6, <1>7
<1> QED BY <1>3, <1>8 DEF BatchFails, ListsOK

LEMMA RowLists == ASSUME ListsOK, UpsertRow PROVE ListsOK'
<1>1. /\ DOMAIN seed = RunFields /\ seed.stage = "single" /\ seed.want # <<>> /\ Listing(seed.want)
  BY DEF UpsertRow, ListsOK, RunOK
<1>2. PICK n \in Nat : n = Len(seed.want) /\ n >= 1
  BY <1>1 DEF Listing
<1>3. Head(seed.want) \in Range(seed.want)
  <2>1. seed.want[1] = Head(seed.want) /\ 1 \in DOMAIN seed.want
    BY <1>1, <1>2 DEF Listing
  <2> QED BY <2>1 DEF Range
<1>4. Listing(byUpdate') /\ Range(byUpdate') = DOMAIN catalogue'
  <2>1. CASE Put(Values(DOMAIN seed.values \cap {Head(seed.want)}), seed.want)
    BY <1>3, <2>1, SeederKeepsOrder
  <2>2. CASE UNCHANGED <<catalogue, byUpdate>>
    BY <2>2 DEF ListsOK
  <2> QED BY <2>1, <2>2 DEF UpsertRow
<1> DEFINE want == Tail(seed.want)
           stage == IF Len(seed.want) = 1 THEN "batch" ELSE seed.stage
           run == [seed EXCEPT !.want = want, !.stage = stage]
<1>5. seed' = run
  BY DEF UpsertRow, AfterRow
<1>6. Listing(want)
  <2>1. Listing(SubSeq(seed.want, 2, n))
    BY <1>1, <1>2, SliceIsListing
  <2>2. /\ SubSeq(seed.want, 2, n) \in Seq(Range(Listed)) /\ Len(SubSeq(seed.want, 2, n)) = n - 1
        /\ \A i \in 1..n - 1 : SubSeq(seed.want, 2, n)[i] = seed.want[i + 1]
    BY <1>1, <1>2 DEF Listing
  <2>3. want \in Seq(Range(Listed)) /\ Len(want) = n - 1 /\ \A i \in 1..n - 1 : want[i] = seed.want[i + 1]
    BY <1>1, <1>2 DEF Listing
  <2> HIDE DEF want
  <2>4. want = SubSeq(seed.want, 2, n)
    BY <2>2, <2>3, SameSeq
  <2> QED BY <2>1, <2>4
<1>7. n # 1 => want # <<>>
  <2>1. Len(want) = n - 1
    BY <1>1, <1>2 DEF Listing
  <2>2. Len(<<>>) = 0
    OBVIOUS
  <2> HIDE DEF want
  <2>3. want = <<>> => Len(want) = 0
    BY <2>2, Zenon
  <2> QED BY <1>2, <2>1, <2>3
<1> HIDE DEF want
<1>8. /\ DOMAIN run = RunFields /\ run.todo = seed.todo /\ run.want = want /\ run.attempt = seed.attempt
      /\ run.stage = IF n = 1 THEN "batch" ELSE "single"
  BY <1>1, <1>2 DEF RunFields
<1> HIDE DEF run
<1>9. RunOK(run)
  BY <1>6, <1>7, <1>8 DEF RunOK, ListsOK
<1> QED BY <1>4, <1>5, <1>9 DEF UpsertRow, ListsOK

LEMMA PageLists == ASSUME ListsOK, ReadMarketPage PROVE ListsOK'
<1>1. CronOK(NoCron)
  BY DEF CronOK, NoCron
<1>2. ASSUME NEW stage, NEW n, NEW some, some \subseteq DOMAIN catalogue
      PROVE  CronOK([stage |-> stage, offset |-> n, left |-> {a \in some : catalogue[a].linked}])
  <2>1. DOMAIN catalogue \subseteq Range(Listed)
    <3>1. Range(byUpdate) \subseteq Range(Listed)
      BY DEF ListsOK, Listing, Range
    <3> QED BY <3>1 DEF ListsOK
  <2> QED BY <1>2, <2>1 DEF CronOK
<1>3. CronOK(cron')
  BY <1>1, <1>2 DEF ReadMarketPage, kSubset
<1> QED BY <1>3 DEF ReadMarketPage, ListsOK

LEMMA EnrichLists == ASSUME ListsOK, EnrichBatch PROVE ListsOK'
<1>1. CASE cron' = NoCron /\ UNCHANGED <<catalogue, byUpdate>>
  <2>1. CronOK(NoCron)
    BY DEF CronOK, NoCron
  <2> QED BY <1>1, <2>1 DEF EnrichBatch, ListsOK
<1>2. ASSUME NEW a \in cron.left, cron' = [cron EXCEPT !.left = @ \ {a}],
             \/ Update(a, [catalogue[a] EXCEPT !.numbers = "gecko"])
             \/ UNCHANGED <<catalogue, byUpdate>>
      PROVE  ListsOK'
  <2>1. CronOK(cron') /\ a \in Range(Listed)
    BY <1>2 DEF ListsOK, CronOK
  <2>2. Listing(byUpdate') /\ Range(byUpdate') = DOMAIN catalogue'
    <3>1. CASE Update(a, [catalogue[a] EXCEPT !.numbers = "gecko"])
      BY <2>1, <3>1, UpdateKeepsOrder
    <3>2. CASE UNCHANGED <<catalogue, byUpdate>>
      BY <3>2 DEF ListsOK
    <3> QED BY <1>2, <3>1, <3>2
  <2> QED BY <2>1, <2>2 DEF EnrichBatch, ListsOK
<1> QED BY <1>1, <1>2, Zenon DEF EnrichBatch

LEMMA ListUnlinkedLists == ASSUME ListsOK, ListUnlinked PROVE ListsOK'
<1> DEFINE s == Kept(byUpdate, {a \in DOMAIN catalogue : ~catalogue[a].linked})
<1>1. Listing(s)
  BY KeptIsListing DEF ListsOK
<1> HIDE DEF s
<1>2. Listing(First(ResolveBatch, s))
  BY <1>1, FirstIsListing, CatalogueAssumption
<1>3. Range(First(ResolveBatch, s)) \subseteq Range(Listed)
  BY <1>2 DEF Listing, Range
<1>4. Unlinked = First(ResolveBatch, s)
  BY DEF Unlinked, s
<1> QED BY <1>3, <1>4 DEF ListUnlinked, ListsOK

LEMMA ResolveLists == ASSUME ListsOK, NEW a \in resolving, ResolveId(a) PROVE ListsOK'
<1>1. a \in Range(Listed) /\ resolving' \subseteq Range(Listed)
  BY DEF ResolveId, ListsOK
<1>2. Listing(byUpdate') /\ Range(byUpdate') = DOMAIN catalogue'
  <2>1. CASE Update(a, [catalogue[a] EXCEPT !.linked = TRUE])
    BY <1>1, <2>1, UpdateKeepsOrder
  <2>2. CASE UNCHANGED <<catalogue, byUpdate>>
    BY <2>2 DEF ListsOK
  <2> QED BY <2>1, <2>2 DEF ResolveId
<1> QED BY <1>1, <1>2 DEF ResolveId, ListsOK

LEMMA ListsStep == ListsOK /\ [CatalogueStep]_catalogueVars => ListsOK'
<1> SUFFICES ASSUME ListsOK, [CatalogueStep]_catalogueVars PROVE ListsOK'
  OBVIOUS
<1>1. CASE UNCHANGED catalogueVars
  BY <1>1 DEF catalogueVars, ListsOK
<1>2. CASE SyncProvisionedTokens \/ SyncDbTokens \/ UpdateTokenOnChainData
  <2>1. Listing(Listed) /\ Listing(byUpdate)
    BY CatalogueAssumption DEF Listing, ListsOK
  <2> QED BY <1>2, <2>1, StartLists DEF SyncProvisionedTokens, SyncDbTokens, UpdateTokenOnChainData
<1> QED BY <1>1, <1>2, NextBatchLists, FetchLists, CopyLists, UpsertLists, FailsLists, RowLists, PageLists,
           EnrichLists, ListUnlinkedLists, ResolveLists, Zenon
        DEF CatalogueStep, ResolveIds

(* The rows and the run have their columns, updatedAt orders exactly the   *)
(* rows of the table, and what a cron has still to do are listed tokens,   *)
(* for any lists, batches, pages and retries.                              *)
THEOREM CatalogueTypes == CatalogueSpec => []CatalogueTypeOK
<1>1. CatalogueInv /\ [CatalogueStep]_catalogueVars => CatalogueInv'
  BY CatalogueInvStep, Zenon
<1>2. CatalogueInv /\ ListsOK => CatalogueTypeOK
  <2> SUFFICES ASSUME CatalogueInv, ListsOK PROVE CatalogueTypeOK
    OBVIOUS
  <2>1. DOMAIN catalogue \subseteq Range(Listed)
    <3>1. Range(byUpdate) \subseteq Range(Listed)
      BY DEF ListsOK, Listing, Range
    <3> QED BY <3>1 DEF ListsOK
  <2>2. \A a \in DOMAIN catalogue :
          catalogue[a] \in [name : {"real", "made"}, numbers : {"zero", "jupiter", "gecko"}, linked : BOOLEAN]
    BY DEF CatalogueInv, RowsTyped, CatalogueRow
  <2> QED BY <2>1, <2>2 DEF CatalogueTypeOK, ListsOK, Listing, RunOK, CronOK
<1> QED BY CatalogueInit0, <1>1, <1>2, ListsInit, ListsStep, PTL DEF CatalogueSpec

(***************************************************************************)
(* DiscoveryWindows, its types, for any number of requests and runs.       *)
(***************************************************************************)
PageStages ==
  {"idle", "window", "read", "store", "populate", "total", "fill", "again", "detail", "row", "keep", "done"}
SyncStages == {"idle", "upsert", "keys", "del"}
KeyKinds == {"trending", "window", "total", "detail"}

StagesOK ==
  /\ paged \in {"trending", "window"} /\ ranking \in Rankings
  /\ asks \in 0..MaxAsks /\ syncs \in 0..MaxSyncs
  /\ \A b \in Browsers : browse[b].stage \in PageStages
  /\ \A y \in Syncs : sync[y].stage \in SyncStages
  /\ \A k \in DOMAIN redis : k[1] \in KeyKinds

(* A step of a request, which may add a key.                               *)
LEMMA RequestStages ==
  ASSUME DiscoveryInv, StagesOK, NEW b \in Browsers, NEW new, browse' = [browse EXCEPT ![b] = new],
         new.stage \in PageStages, UNCHANGED <<paged, ranking, sync, syncs>>, asks' \in 0..MaxAsks,
         \A k \in DOMAIN redis' : k \in DOMAIN redis \/ k[1] \in KeyKinds
  PROVE  StagesOK'
<1>1. \A x \in Browsers : browse'[x] = new \/ browse'[x] = browse[x]
  BY DEF DiscoveryInv, DiscoveryShaped
<1> QED BY <1>1 DEF StagesOK

LEMMA SetStages ==
  ASSUME NEW k, NEW entry, SetEx(k, entry), k[1] \in KeyKinds
  PROVE  \A x \in DOMAIN redis' : x \in DOMAIN redis \/ x[1] \in KeyKinds
BY DEF SetEx

LEMMA GotStage ==
  ASSUME NEW p, DOMAIN p = PageFields, NEW entry PROVE Got(p, entry).stage = "window"
BY DEF Got, PageFields

LEMMA BrowseStages == ASSUME DiscoveryInv, StagesOK, NEW b \in Browsers, Browse(b) PROVE StagesOK'
<1>1. ASSUME NEW offset, NEW c, NEW kind, NEW limit, NEW window
      PROVE  /\ [NoPage EXCEPT !.kind = kind, !.stage = "window", !.offset = offset, !.limit = limit,
                               !.window = window].stage = "window"
             /\ [NoPage EXCEPT !.kind = "detail", !.stage = "detail", !.copy = c].stage = "detail"
  BY DEF NoPage
<1>2. PICK new : browse' = [browse EXCEPT ![b] = new] /\ new.stage \in {"window", "detail"}
  <2>1. CASE \E offset \in 0..MaxOffset :
               browse' = [browse EXCEPT ![b] =
                 [NoPage EXCEPT !.kind = paged, !.stage = "window", !.offset = offset, !.limit = Limit,
                                !.window = offset \div WindowSize]]
    <3>1. PICK offset \in 0..MaxOffset :
               browse' = [browse EXCEPT ![b] =
                 [NoPage EXCEPT !.kind = paged, !.stage = "window", !.offset = offset, !.limit = Limit,
                                !.window = offset \div WindowSize]]
      BY <2>1
    <3> DEFINE new == [NoPage EXCEPT !.kind = paged, !.stage = "window", !.offset = offset, !.limit = Limit,
                                     !.window = offset \div WindowSize]
    <3>2. new.stage = "window" /\ browse' = [browse EXCEPT ![b] = new]
      BY <1>1, <3>1
    <3> HIDE DEF new
    <3> QED BY <3>2
  <2>2. CASE \E c \in Detailed :
               browse' = [browse EXCEPT ![b] = [NoPage EXCEPT !.kind = "detail", !.stage = "detail", !.copy = c]]
    <3>1. PICK c \in Detailed :
               browse' = [browse EXCEPT ![b] = [NoPage EXCEPT !.kind = "detail", !.stage = "detail", !.copy = c]]
      BY <2>2
    <3> DEFINE new == [NoPage EXCEPT !.kind = "detail", !.stage = "detail", !.copy = c]
    <3>2. new.stage = "detail" /\ browse' = [browse EXCEPT ![b] = new]
      BY <1>1, <3>1
    <3> HIDE DEF new
    <3> QED BY <3>2
  <2> QED BY <2>1, <2>2, Zenon DEF Browse
<1>3. asks' \in 0..MaxAsks /\ UNCHANGED <<paged, ranking, sync, syncs, redis>>
  <2>1. asks' = asks + 1 /\ asks < MaxAsks /\ UNCHANGED <<paged, ranking, sync, syncs, redis>>
    BY Zenon DEF Browse
  <2> QED BY <2>1, DiscoveryAssumption DEF StagesOK
<1>4. new.stage \in PageStages
  BY <1>2 DEF PageStages
<1> QED BY <1>2, <1>3, <1>4, RequestStages

(* A request that goes to another stage.                                   *)
LEMMA StageGoes ==
  ASSUME DiscoveryInv, NEW b \in Browsers, NEW stage
  PROVE  /\ [browse EXCEPT ![b].stage = stage] = [browse EXCEPT ![b] = [browse[b] EXCEPT !.stage = stage]]
         /\ [browse[b] EXCEPT !.stage = stage].stage = stage
<1>1. DOMAIN browse[b] = PageFields
  BY PageFacts DEF PageShaped
<1> QED BY <1>1 DEF PageFields

LEMMA GetWindowStages == ASSUME DiscoveryInv, StagesOK, NEW b \in Browsers, GetWindow(b) PROVE StagesOK'
<1>1. DOMAIN browse[b] = PageFields
  BY PageFacts DEF PageShaped
<1>2. UNCHANGED <<paged, ranking, sync, syncs, redis, asks>>
  BY DEF GetWindow
<1>3. CASE \E stage \in {"done", "read", "populate"} : browse' = [browse EXCEPT ![b].stage = stage]
  <2>1. PICK stage \in {"done", "read", "populate"} : browse' = [browse EXCEPT ![b].stage = stage]
    BY <1>3
  <2>2. PICK new : browse' = [browse EXCEPT ![b] = new] /\ new.stage = stage
    BY <2>1, StageGoes, Zenon
  <2>3. new.stage \in PageStages
    BY <2>1, <2>2 DEF PageStages
  <2> QED BY <1>2, <2>2, <2>3, RequestStages DEF StagesOK
<1>4. CASE browse' = [browse EXCEPT ![b] = Got(browse[b], redis[Key(browse[b])])]
  <2>1. PICK new : new = Got(browse[b], redis[Key(browse[b])])
    OBVIOUS
  <2>2. new.stage \in PageStages
    BY <1>1, <2>1, GotStage DEF PageStages
  <2> QED BY <1>2, <1>4, <2>1, <2>2, RequestStages DEF StagesOK
<1> QED BY <1>3, <1>4 DEF GetWindow

LEMMA ReadStages ==
  ASSUME DiscoveryInv, StagesOK, NEW b \in Browsers, ReadTrending(b) \/ ReadCategories(b) PROVE StagesOK'
<1>1. DOMAIN browse[b] = PageFields
  BY PageFacts DEF PageShaped
<1>2. UNCHANGED <<paged, ranking, sync, syncs, redis, asks>>
  BY DEF ReadTrending, ReadCategories
<1> DEFINE new1 == [browse[b] EXCEPT !.copy = ranking, !.stage = "store"]
           new2 == [browse[b] EXCEPT !.copy = ValidCategories, !.raced = FALSE, !.next = 0, !.stage = "total"]
<1>3. /\ \/ browse' = [browse EXCEPT ![b] = new1]
         \/ browse' = [browse EXCEPT ![b] = new2]
      /\ new1.stage = "store" /\ new2.stage = "total"
  BY <1>1 DEF ReadTrending, ReadCategories, DiscoveryInv, DiscoveryShaped, PageFields
<1> HIDE DEF new1, new2
<1>4. PICK new : browse' = [browse EXCEPT ![b] = new] /\ new.stage \in PageStages
  BY <1>3 DEF PageStages
<1> QED BY <1>2, <1>4, RequestStages DEF StagesOK

LEMMA StoreStages ==
  ASSUME DiscoveryInv, StagesOK, NEW b \in Browsers, StoreTrending(b) \/ SetTotal(b) \/ KeepDetail(b)
  PROVE  StagesOK'
<1>1. DOMAIN browse[b] = PageFields /\ (browse[b].stage = "store" => browse[b].kind = "trending")
  BY PageFacts DEF PageShaped
<1>2. UNCHANGED <<paged, ranking, sync, syncs, asks>>
  BY DEF StoreTrending, SetTotal, KeepDetail
<1>3. CASE StoreTrending(b)
  <2>1. PICK entry : SetEx(Key(browse[b]), entry) /\ browse' = [browse EXCEPT ![b] = Got(browse[b], entry)]
    BY <1>3, Zenon DEF StoreTrending
  <2>2. Key(browse[b])[1] \in KeyKinds
    BY <1>1, <1>3 DEF StoreTrending, Key, KeyKinds
  <2>3. Got(browse[b], entry).stage \in PageStages
    BY <1>1, GotStage DEF PageStages
  <2>4. \A x \in DOMAIN redis' : x \in DOMAIN redis \/ x[1] \in KeyKinds
    BY <2>1, <2>2, SetStages
  <2> QED BY <1>2, <2>1, <2>3, <2>4, RequestStages DEF StagesOK
<1>4. ASSUME NEW stage \in {"fill", "done"}, browse' = [browse EXCEPT ![b].stage = stage],
             NEW k, NEW entry, SetEx(k, entry), k[1] \in KeyKinds
      PROVE  StagesOK'
  <2>1. PICK new : browse' = [browse EXCEPT ![b] = new] /\ new.stage = stage
    BY <1>4, StageGoes, Zenon
  <2>2. new.stage \in PageStages
    BY <2>1 DEF PageStages
  <2>3. \A x \in DOMAIN redis' : x \in DOMAIN redis \/ x[1] \in KeyKinds
    BY <1>4, SetStages
  <2> QED BY <1>2, <2>1, <2>2, <2>3, RequestStages DEF StagesOK
<1>5. CASE SetTotal(b)
  <2>1. PICK entry : SetEx(<<"total">>, entry) /\ browse' = [browse EXCEPT ![b].stage = "fill"]
    BY <1>5, Zenon DEF SetTotal
  <2>2. <<"total">>[1] \in KeyKinds
    BY DEF KeyKinds
  <2> QED BY <1>4, <2>1, <2>2
<1>6. CASE KeepDetail(b)
  <2>1. PICK entry : SetEx(<<"detail", browse[b].copy>>, entry) /\ browse' = [browse EXCEPT ![b].stage = "done"]
    BY <1>6, Zenon DEF KeepDetail
  <2>2. <<"detail", browse[b].copy>>[1] \in KeyKinds
    BY DEF KeyKinds
  <2> QED BY <1>4, <2>1, <2>2
<1> QED BY <1>3, <1>5, <1>6

LEMMA FillStages == ASSUME DiscoveryInv, StagesOK, NEW b \in Browsers, FillWindow(b) PROVE StagesOK'
<1>1. DOMAIN browse[b] = PageFields /\ browse[b].stage = "fill"
  BY PageFacts DEF PageShaped, FillWindow
<1>2. UNCHANGED <<paged, ranking, sync, syncs, asks>>
  BY DEF FillWindow
<1> DEFINE next == [browse[b] EXCEPT !.next = browse[b].next + 1]
           again == [browse[b] EXCEPT !.stage = "again"]
<1>3. /\ \/ browse' = [browse EXCEPT ![b] = next]
         \/ browse' = [browse EXCEPT ![b] = again]
      /\ next.stage = "fill" /\ again.stage = "again"
  BY <1>1 DEF FillWindow, DiscoveryInv, DiscoveryShaped, PageFields
<1> HIDE DEF next, again
<1>4. PICK new : browse' = [browse EXCEPT ![b] = new] /\ new.stage \in PageStages
  BY <1>3 DEF PageStages
<1>5. \A x \in DOMAIN redis' : x \in DOMAIN redis \/ x[1] \in KeyKinds
  <2>1. <<"window", browse[b].next>>[1] \in KeyKinds
    BY DEF KeyKinds
  <2>2. redis' = redis \/ \E entry : SetEx(<<"window", browse[b].next>>, entry)
    BY DEF FillWindow
  <2> QED BY <2>1, <2>2, SetStages
<1> QED BY <1>2, <1>4, <1>5, RequestStages DEF StagesOK

LEMMA OtherStages ==
  ASSUME DiscoveryInv, StagesOK, NEW b \in Browsers,
         GetAgain(b) \/ GetDetail(b) \/ ReadCategory(b) \/ Answer(b)
  PROVE  StagesOK'
<1>1. DOMAIN browse[b] = PageFields
  BY PageFacts DEF PageShaped
<1>2. UNCHANGED <<paged, ranking, sync, syncs, redis, asks>>
  BY DEF GetAgain, GetDetail, ReadCategory, Answer
<1> DEFINE c == browse[b].copy
           kept == [browse[b] EXCEPT !.raced = FALSE, !.got = <<caps[c]>>, !.stage = "keep"]
<1>3. kept.stage = "keep" /\ Got(browse[b], NoKeys).stage = "window" /\ NoPage.stage = "idle"
  BY <1>1, GotStage, NoPageIsQuiet DEF PageFields
<1>4. \/ \E stage \in {"done", "row"} : browse' = [browse EXCEPT ![b].stage = stage]
      \/ \E new \in {kept, Got(browse[b], NoKeys), NoPage} : browse' = [browse EXCEPT ![b] = new]
  <2>1. CASE ReadCategory(b)
    BY <1>1, <2>1 DEF ReadCategory, DiscoveryInv, DiscoveryShaped, PageFields
  <2>2. CASE GetAgain(b) \/ GetDetail(b) \/ Answer(b)
    BY <2>2, Zenon DEF GetAgain, GetDetail, Answer
  <2> QED BY <2>1, <2>2
<1> HIDE DEF kept
<1>5. PICK new : browse' = [browse EXCEPT ![b] = new] /\ new.stage \in {"done", "row", "keep", "window", "idle"}
  <2>1. CASE \E stage \in {"done", "row"} : browse' = [browse EXCEPT ![b].stage = stage]
    <3>1. PICK stage \in {"done", "row"} : browse' = [browse EXCEPT ![b].stage = stage]
      BY <2>1
    <3>2. PICK new : browse' = [browse EXCEPT ![b] = new] /\ new.stage = stage
      BY <3>1, StageGoes, Zenon
    <3> QED BY <3>1, <3>2
  <2>2. CASE \E new \in {kept, Got(browse[b], NoKeys), NoPage} : browse' = [browse EXCEPT ![b] = new]
    BY <1>3, <2>2
  <2> QED BY <1>4, <2>1, <2>2
<1>6. new.stage \in PageStages
  BY <1>5 DEF PageStages
<1> QED BY <1>2, <1>5, <1>6, RequestStages DEF StagesOK

LEMMA SyncsStages ==
  ASSUME DiscoveryInv, StagesOK, NEW y \in Syncs, NEW new, sync' = [sync EXCEPT ![y] = new], new.stage \in SyncStages,
         \A b \in Browsers : browse'[b].stage = browse[b].stage, UNCHANGED <<paged, ranking, asks>>,
         syncs' \in 0..MaxSyncs, DOMAIN redis' \subseteq DOMAIN redis
  PROVE  StagesOK'
<1>1. \A x \in Syncs : sync'[x] = new \/ sync'[x] = sync[x]
  BY DEF DiscoveryInv, DiscoveryShaped
<1> QED BY <1>1 DEF StagesOK

LEMMA RunStages ==
  ASSUME DiscoveryInv, StagesOK, NEW y \in Syncs,
         \/ StartSync(y) \/ UpsertCategory(y) \/ ListKeys(y) \/ DeleteKey(y) \/ EndSync(y) \/ SyncFails(y)
  PROVE  StagesOK'
<1>1. DOMAIN sync[y] = SyncFields /\ sync[y].stage \in SyncStages /\ DOMAIN sync = Syncs
  BY SyncFacts DEF SyncShaped, StagesOK, DiscoveryInv, DiscoveryShaped
<1>2. \A b \in Browsers : browse'[b].stage = browse[b].stage
  <2>1. CASE UpsertCategory(y)
    <3>1. \A b \in Browsers : DOMAIN browse[b] = PageFields
      BY PageFacts DEF PageShaped
    <3> QED BY <2>1, <3>1 DEF UpsertCategory, PageFields
  <2>2. CASE ~UpsertCategory(y)
    BY <2>2 DEF StartSync, ListKeys, DeleteKey, EndSync, SyncFails
  <2> QED BY <2>1, <2>2
<1>3. syncs' \in 0..MaxSyncs /\ UNCHANGED <<paged, ranking, asks>>
  <2>1. (syncs' = syncs \/ (syncs < MaxSyncs /\ syncs' = syncs + 1)) /\ UNCHANGED <<paged, ranking, asks>>
    BY Zenon DEF StartSync, UpsertCategory, ListKeys, DeleteKey, EndSync, SyncFails
  <2> QED BY <2>1, DiscoveryAssumption DEF StagesOK
<1>4. DOMAIN redis' \subseteq DOMAIN redis
  BY DEF StartSync, UpsertCategory, ListKeys, DeleteKey, EndSync, SyncFails, Without
<1>5. NoSync.stage = "idle"
  BY DEF NoSync
<1>6. PICK new : sync' = [sync EXCEPT ![y] = new] /\ new.stage \in SyncStages
  <2>1. CASE StartSync(y)
    <3>1. PICK found \in MarketCaps :
            sync' = [sync EXCEPT ![y] = [NoSync EXCEPT !.stage = "upsert", !.found = found,
                                                       !.todo = {c \in DOMAIN found : found[c] > 0}]]
      BY <2>1 DEF StartSync
    <3> DEFINE todo == {c \in DOMAIN found : found[c] > 0}
               new == [NoSync EXCEPT !.stage = "upsert", !.found = found, !.todo = todo]
    <3>2. sync' = [sync EXCEPT ![y] = new]
      BY <3>1
    <3> HIDE DEF todo
    <3>3. new.stage = "upsert"
      BY DEF NoSync
    <3> HIDE DEF new
    <3> QED BY <3>2, <3>3 DEF SyncStages
  <2>2. CASE UpsertCategory(y)
    <3> DEFINE c == CHOOSE c \in sync[y].todo : TRUE
               new == [sync[y] EXCEPT !.todo = @ \ {c}]
    <3>1. sync' = [sync EXCEPT ![y] = new] /\ new.stage = sync[y].stage
      BY <1>1, <2>2 DEF UpsertCategory, SyncFields
    <3> HIDE DEF new
    <3> QED BY <1>1, <3>1
  <2>3. CASE ListKeys(y)
    <3> DEFINE new == [sync[y] EXCEPT !.keys = Keys, !.stage = "del"]
    <3>1. sync' = [sync EXCEPT ![y] = new] \/ sync' = [sync EXCEPT ![y] = NoSync]
      BY <1>1, <2>3 DEF ListKeys
    <3>2. new.stage = "del"
      BY <1>1 DEF SyncFields
    <3> HIDE DEF new
    <3> QED BY <1>5, <3>1, <3>2 DEF SyncStages
  <2>4. CASE DeleteKey(y)
    <3> DEFINE k == CHOOSE k \in sync[y].keys : TRUE
               new1 == [sync[y] EXCEPT !.keys = @ \ {k}]
               new2 == [sync[y] EXCEPT !.keys = @ \ {k}, !.clean = FALSE]
    <3>1. sync' = [sync EXCEPT ![y] = new1] \/ sync' = [sync EXCEPT ![y] = new2]
      BY <1>1, <2>4 DEF DeleteKey
    <3>2. new1.stage = sync[y].stage /\ new2.stage = sync[y].stage
      BY <1>1 DEF SyncFields
    <3> HIDE DEF new1, new2
    <3> QED BY <1>1, <3>1, <3>2
  <2>5. CASE EndSync(y) \/ SyncFails(y)
    BY <1>5, <2>5 DEF EndSync, SyncFails, SyncStages
  <2> QED BY <2>1, <2>2, <2>3, <2>4, <2>5
<1> QED BY <1>2, <1>3, <1>4, <1>6, SyncsStages

LEMMA StagesInit == DiscoveryInit => StagesOK
<1> SUFFICES ASSUME DiscoveryInit PROVE StagesOK
  OBVIOUS
<1>1. NoPage.stage = "idle" /\ NoSync.stage = "idle" /\ DOMAIN NoKeys = {}
  BY DEF NoPage, NoSync, NoKeys
<1> QED BY <1>1, DiscoveryAssumption DEF DiscoveryInit, StagesOK, PageStages, SyncStages

LEMMA StagesStep == DiscoveryInv /\ StagesOK /\ [DiscoveryStep]_discoveryVars => StagesOK'
<1> SUFFICES ASSUME DiscoveryInv, StagesOK, [DiscoveryStep]_discoveryVars PROVE StagesOK'
  OBVIOUS
<1>1. CASE Reranked \/ UNCHANGED discoveryVars
  BY <1>1 DEF Reranked, discoveryVars, StagesOK
<1>2. CASE Expires
  BY <1>2 DEF Expires, Without, StagesOK
<1> QED BY <1>1, <1>2, BrowseStages, GetWindowStages, ReadStages, StoreStages, FillStages, OtherStages, RunStages,
           Zenon DEF DiscoveryStep

(* Requests and runs of the sync are at a stage of their code, keys are of *)
(* the kinds the code builds, and caps are numbers, for any lists, windows *)
(* and numbers of requests and runs.                                       *)
THEOREM DiscoveryTypes == DiscoverySpec => []DiscoveryTypeOK
<1>1. DiscoveryInv /\ StagesOK => DiscoveryTypeOK
  <2> SUFFICES ASSUME DiscoveryInv, StagesOK PROVE DiscoveryTypeOK
    OBVIOUS
  <2>1. \A c \in DOMAIN caps : caps[c] >= 0
    BY DEF DiscoveryInv, DiscoveryShaped
  <2> QED BY <2>1 DEF DiscoveryTypeOK, StagesOK, PageStages, SyncStages, KeyKinds, DiscoveryInv, DiscoveryShaped
<1>2. DiscoverySpec => []StagesOK
  <2>1. DiscoverySpec => [][DiscoveryStep]_discoveryVars /\ []DiscoveryInv /\ DiscoveryInit
    BY DiscoveryInvAlways, PTL DEF DiscoverySpec
  <2> QED BY <2>1, StagesInit, StagesStep, PTL
<1> QED BY <1>1, <1>2, DiscoveryInvAlways, PTL

(***************************************************************************)
(* CoinGecko, its types, for any calls, endpoints and times.               *)
(***************************************************************************)
AskOK(ask) ==
  /\ DOMAIN ask = {"stage", "of", "wake"}
  /\ ask.stage \in {"idle", "asked", "asleep", "sent"}
  /\ ask.of \in Asked \cup {"none"} /\ (ask.stage # "idle" => ask.of \in Asked)

AsksOK ==
  /\ clock \in 0..MaxClock /\ answers \subseteq Asked
  /\ DOMAIN cgCalls = CgCalls /\ \A c \in CgCalls : AskOK(cgCalls[c])

LEMMA NoAskIsOK == AskOK(NoAsk) /\ DOMAIN NoAsk = {"stage", "of", "wake"}
BY DEF AskOK, NoAsk

LEMMA AsksMove ==
  ASSUME AsksOK, NEW c \in CgCalls, NEW ask, Becomes(c, ask), AskOK(ask), answers' \subseteq Asked, clock' = clock
  PROVE  AsksOK'
BY DEF AsksOK, Becomes

LEMMA StageOfAsk ==
  ASSUME AsksOK, NEW c \in CgCalls, NEW stage \in {"asked", "asleep", "sent"}, NEW wake, cgCalls[c].stage # "idle"
  PROVE  /\ AskOK([cgCalls[c] EXCEPT !.stage = stage])
         /\ AskOK([cgCalls[c] EXCEPT !.stage = stage, !.wake = wake])
BY DEF AsksOK, AskOK

LEMMA AsksStep == AsksOK /\ [CgStep]_cgVars => AsksOK'
<1> SUFFICES ASSUME AsksOK, [CgStep]_cgVars PROVE AsksOK'
  OBVIOUS
<1>1. ASSUME NEW c \in CgCalls, AskEndpoint(c) PROVE AsksOK'
  <2>1. PICK e \in Asked : Becomes(c, [NoAsk EXCEPT !.stage = "asked", !.of = e])
    BY <1>1 DEF AskEndpoint
  <2>2. AskOK([NoAsk EXCEPT !.stage = "asked", !.of = e])
    BY DEF AskOK, NoAsk
  <2> QED BY <1>1, <2>1, <2>2, AsksMove DEF AskEndpoint, AsksOK
<1>2. ASSUME NEW c \in CgCalls, NEW s, NEW slept, Pushed(c, s, slept), cgCalls[c].stage # "idle", UNCHANGED <<clock, answers>>
      PROVE  AsksOK'
  <2>1. AskOK([cgCalls[c] EXCEPT !.stage = "sent"])
    BY <1>2, StageOfAsk
  <2> QED BY <1>2, <2>1, AsksMove DEF Pushed, AsksOK
<1>3. ASSUME NEW c \in CgCalls, CgGet(c) PROVE AsksOK'
  <2>1. cgCalls[c].stage = "asked" /\ UNCHANGED <<clock, answers>>
    BY <1>3 DEF CgGet
  <2>2. CASE Len(Recent(stamps)) < RateLimit
    BY <1>2, <1>3, <2>1, <2>2 DEF CgGet
  <2>3. CASE ~(Len(Recent(stamps)) < RateLimit)
    <3>1. PICK wake : Becomes(c, [cgCalls[c] EXCEPT !.stage = "asleep", !.wake = wake])
      BY <1>3, <2>3 DEF CgGet
    <3>2. AskOK([cgCalls[c] EXCEPT !.stage = "asleep", !.wake = wake])
      BY <2>1, StageOfAsk
    <3> QED BY <2>1, <3>1, <3>2, AsksMove DEF AsksOK
  <2> QED BY <2>2, <2>3
<1>4. ASSUME NEW c \in CgCalls, WakeUp(c) PROVE AsksOK'
  BY <1>2, <1>4 DEF WakeUp
<1>5. ASSUME NEW c \in CgCalls, CgAnswer(c) PROVE AsksOK'
  <2>1. cgCalls[c].of \in Asked
    BY <1>5 DEF CgAnswer, AsksOK, AskOK
  <2> QED BY <1>5, <2>1, NoAskIsOK, AsksMove DEF CgAnswer, AsksOK
<1>6. CASE (\E e \in Asked : Cleared(e)) \/ UNCHANGED cgVars
  BY <1>6 DEF Cleared, cgVars, AsksOK
<1>7. CASE CgClock
  <2>1. clock' \in 0..MaxClock
    BY <1>7, CoinGeckoAssumption DEF CgClock, AsksOK
  <2> QED BY <1>7, <2>1 DEF CgClock, AsksOK
<1> QED BY <1>1, <1>3, <1>4, <1>5, <1>6, <1>7 DEF CgStep

(* Calls are at a stage of the client and of an endpoint, what is cached   *)
(* was asked for, and no stamp is of the future, for any calls and times.  *)
THEOREM CgTypes == CgSpec => []CgTypeOK
<1>1. CgInit => AsksOK
  BY NoAskIsOK, CoinGeckoAssumption DEF CgInit, AsksOK
<1>2. CgInv /\ AsksOK => CgTypeOK
  <2> SUFFICES ASSUME CgInv, AsksOK PROVE CgTypeOK
    OBVIOUS
  <2>1. \A i \in DOMAIN stamps : stamps[i] \in 0..clock
    <3>1. \A i \in DOMAIN stamps : stamps[i] \in Nat /\ stamps[i] <= clock
      BY DEF CgInv, InOrder
    <3> QED BY <3>1 DEF CgInv
  <2> QED BY <2>1 DEF CgTypeOK, AsksOK, AskOK
<1> QED BY <1>1, <1>2, CgInitInv, CgStepInv, AsksStep, PTL DEF CgSpec
===============================================================================
