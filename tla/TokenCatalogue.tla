---------------------------- MODULE TokenCatalogue ---------------------------
(***************************************************************************)
(* The tokens table and the jobs that fill it: the seeder, which imports   *)
(* what Jupiter knows of a list of addresses in batches (three variants),  *)
(* and the cron that links tokens to CoinGecko and refreshes the market    *)
(* data of linked ones.  A job of each kind runs at a time; both write     *)
(* rows they, or nobody, read before.  A row is what the jobs tell apart:  *)
(* a real name or one made from the address, where its numbers are from,   *)
(* and whether coingeckoId is set.                                         *)
(***************************************************************************)
EXTENDS Integers, FiniteSets, Sequences, Functions, FiniteSetsExt, SequencesExt

CONSTANTS
  Listed,       \* provisioned_tokens.txt, in order
  Linkable,     \* the tokens CoinGecko finds
  SeedBatch,    \* BATCH_SIZE
  UpsertTries,  \* MAX_RETRIES
  ResolveBatch, \* COINGECKO_ID_RESOLVE_BATCH
  MarketPage,   \* ENRICHMENT_BATCH_SIZE
  MaxSeeds      \* bound: runs of the seeder

ASSUME CatalogueAssumption ==
  /\ Listed \in Seq(Range(Listed)) /\ IsInjective(Listed)
  /\ SeedBatch \in Nat \ {0} /\ UpsertTries \in Nat \ {0} /\ ResolveBatch \in Nat \ {0}
  /\ MarketPage \in Nat \ {0} /\ MaxSeeds \in Nat

VARIABLES
  catalogue,  \* the rows of tokens, by address
  byUpdate,   \* their addresses by updatedAt, the oldest first
  seed,       \* the run of the seeder
  cron,       \* the run of refreshMarketData
  resolving,  \* the tokens resolveCoingeckoIds has still to look up
  seeds

catalogueVars == <<catalogue, byUpdate, seed, cron, resolving, seeds>>

NoRows == [a \in {} |-> 0]
TokenRow(name, numbers, linked) == [name |-> name, numbers |-> numbers, linked |-> linked]
NoRun == [kind |-> "none", stage |-> "idle", todo |-> <<>>, want |-> <<>>, values |-> NoRows, attempt |-> 1]
NoCron == [stage |-> "idle", offset |-> 0, left |-> {}]

CatalogueTypeOK ==
  /\ DOMAIN catalogue \subseteq Range(Listed) /\ IsInjective(byUpdate) /\ Range(byUpdate) = DOMAIN catalogue
  /\ \A a \in DOMAIN catalogue : catalogue[a] \in [name : {"real", "made"}, numbers : {"zero", "jupiter", "gecko"}, linked : BOOLEAN]
  /\ seed.attempt \in 1..UpsertTries /\ seed.stage \in {"idle", "batch", "fetch", "copy", "upsert", "single"}
  /\ cron.left \cup resolving \subseteq Range(Listed) /\ seeds \in 0..MaxSeeds

CatalogueInit ==
  /\ catalogue = NoRows /\ byUpdate = <<>> /\ seed = NoRun /\ cron = NoCron /\ resolving = {} /\ seeds = 0

(* The elements of s that are in S, in their order: the k-th is the one    *)
(* with k of them up to it.                                                *)
Kept(s, S) ==
  LET at == {i \in DOMAIN s : s[i] \in S}
      place(k) == CHOOSE i \in at : Cardinality({j \in at : j <= i}) = k
  IN  [k \in 1..Cardinality(at) |-> s[place(k)]]

(* Rows are written and their updatedAt moves.                             *)
Put(values, order) ==
  /\ catalogue' = [a \in DOMAIN catalogue \cup DOMAIN values |-> IF a \in DOMAIN values THEN values[a] ELSE catalogue[a]]
  /\ byUpdate' = Kept(byUpdate, DOMAIN catalogue \ DOMAIN values) \o Kept(order, DOMAIN values)

(* UPDATE changes a row that is there.                                     *)
Update(a, row) == Put([x \in {a} \cap DOMAIN catalogue |-> row], <<a>>)

Start(kind, list) ==
  /\ seed.stage = "idle" /\ seeds < MaxSeeds /\ seeds' = seeds + 1
  /\ seed' = [NoRun EXCEPT !.kind = kind, !.stage = "batch", !.todo = list]
  /\ UNCHANGED <<catalogue, byUpdate, cron, resolving>>

(* syncProvisionedTokens reads the file, with force or without; the other  *)
(* two list the table.                                                     *)
SyncProvisionedTokens == Start("new", Listed) \/ Start("force", Listed)
SyncDbTokens == Start("db", byUpdate)
UpdateTokenOnChainData == Start("chain", byUpdate)

First(n, s) == SubSeq(s, 1, Min({n, Len(s)}))

(* Without force only addresses without a row are wanted.                  *)
Unseen(batch) ==
  IF seed.kind = "new" THEN Kept(batch, Range(batch) \ DOMAIN catalogue) ELSE batch

(* The next batch of the run, or its end.                                  *)
NextBatch ==
  /\ seed.stage = "batch"
  /\ LET batch == First(SeedBatch, seed.todo)
         want == Unseen(batch)
     IN  seed' = IF batch = <<>> THEN NoRun
                 ELSE [seed EXCEPT !.todo = SubSeq(@, Len(batch) + 1, Len(@)), !.want = want, !.values = NoRows, !.attempt = 1,
                                   !.stage = IF want = <<>> THEN "batch" ELSE "fetch"]
  /\ UNCHANGED <<catalogue, byUpdate, cron, resolving, seeds>>

(* fetchChunk: tokens Jupiter does not know, and those of a chunk that was *)
(* refused or rate limited too often, are not answered.  The row of such a *)
(* token is made up from its address; updateBatchTokens leaves it out.     *)
FetchBatch ==
  /\ seed.stage = "fetch"
  /\ \E answered \in SUBSET Range(seed.want) :
       seed' = IF seed.kind = "chain"
               THEN [seed EXCEPT !.want = Kept(@, answered),
                                 !.stage = IF answered = {} THEN "batch" ELSE "copy"]
               ELSE [seed EXCEPT !.stage = "upsert",
                                 !.values = [a \in Range(seed.want) |->
                                   IF a \in answered THEN TokenRow("real", "jupiter", FALSE)
                                   ELSE TokenRow("made", "zero", FALSE)]]
  /\ UNCHANGED <<catalogue, byUpdate, cron, resolving, seeds>>

(* updateBatchTokens reads the rows after the answer, and will write every *)
(* column of them back with the new numbers.                               *)
CopyRows ==
  /\ seed.stage = "copy"
  /\ seed' = [seed EXCEPT !.stage = IF \E a \in Range(seed.want) : a \in DOMAIN catalogue THEN "upsert" ELSE "batch",
                          !.values = [a \in Range(seed.want) \cap DOMAIN catalogue |->
                                        [catalogue[a] EXCEPT !.numbers = "jupiter"]]]
  /\ UNCHANGED <<catalogue, byUpdate, cron, resolving, seeds>>

(* Mutant: the link of a row is part of the values.                        *)
ValuesMutant(as) == [a \in as |-> seed.values[a]]

(* ON CONFLICT sets the columns of the values: coingeckoId is one of them  *)
(* only in a row that was copied.                                          *)
Values(as) ==
  [a \in as |-> IF seed.kind = "chain" \/ a \notin DOMAIN catalogue THEN seed.values[a]
                ELSE [seed.values[a] EXCEPT !.linked = catalogue[a].linked]]

UpsertBatch ==
  /\ seed.stage = "upsert"
  /\ Put(Values(DOMAIN seed.values), seed.want) /\ seed' = [seed EXCEPT !.stage = "batch"]
  /\ UNCHANGED <<cron, resolving, seeds>>

(* A batch that fails has stored its first slices; it is tried again, and  *)
(* then row by row.  updateBatchTokens gives up at once.                   *)
BatchFails ==
  /\ seed.stage = "upsert"
  /\ \E n \in 0..(Len(seed.want) - 1) : Put(Values(DOMAIN seed.values \cap Range(First(n, seed.want))), seed.want)
  /\ seed' = IF seed.kind = "chain" THEN [seed EXCEPT !.stage = "batch"]
             ELSE IF seed.attempt < UpsertTries THEN [seed EXCEPT !.attempt = @ + 1]
             ELSE [seed EXCEPT !.stage = "single"]
  /\ UNCHANGED <<cron, resolving, seeds>>

(* The loop over the rows goes on after one that fails.                    *)
AfterRow == [seed EXCEPT !.want = Tail(@), !.stage = IF Len(seed.want) = 1 THEN "batch" ELSE @]

UpsertRow ==
  /\ seed.stage = "single"
  /\ seed' = AfterRow
  /\ Put(Values(DOMAIN seed.values \cap {Head(seed.want)}), seed.want) \/ UNCHANGED <<catalogue, byUpdate>>
  /\ UNCHANGED <<cron, resolving, seeds>>

(* refreshMarketData: the table page by page, without an order: any rows   *)
(* may be those of a page.                                                 *)
ReadMarketPage ==
  /\ cron.stage \in {"idle", "page"} /\ cron.left = {}
  /\ LET offset == IF cron.stage = "idle" THEN 0 ELSE cron.offset
         n == Min({MarketPage, Cardinality(DOMAIN catalogue) - offset})
     IN  IF n <= 0 THEN cron' = NoCron /\ cron # NoCron
         ELSE \E some \in kSubset(n, DOMAIN catalogue) :
                cron' = [stage |-> IF n = MarketPage THEN "page" ELSE "last", offset |-> offset + n,
                         left |-> {a \in some : catalogue[a].linked}]
  /\ UNCHANGED <<catalogue, byUpdate, seed, resolving, seeds>>

(* enrichBatch: an update of the columns CoinGecko has, of the others none.*)
EnrichBatch ==
  /\ cron.stage \in {"page", "last"}
  /\ \/ \E a \in cron.left :
          /\ cron' = [cron EXCEPT !.left = @ \ {a}]
          /\ \/ Update(a, [catalogue[a] EXCEPT !.numbers = "gecko"])
             \/ UNCHANGED <<catalogue, byUpdate>>
     \/ cron.stage = "last" /\ cron.left = {} /\ cron' = NoCron /\ UNCHANGED <<catalogue, byUpdate>>
  /\ UNCHANGED <<seed, resolving, seeds>>

(* Mutant: one token less.                                                 *)
UnlinkedMutant == First(ResolveBatch - 1, Kept(byUpdate, {a \in DOMAIN catalogue : ~catalogue[a].linked}))

(* resolveCoingeckoIds takes the unlinked tokens updated longest ago.      *)
Unlinked == First(ResolveBatch, Kept(byUpdate, {a \in DOMAIN catalogue : ~catalogue[a].linked}))

ListUnlinked ==
  /\ resolving = {} /\ Unlinked # <<>>
  /\ resolving' = Range(Unlinked)
  /\ UNCHANGED <<catalogue, byUpdate, seed, cron, seeds>>

(* A token found is linked; one not found is left as it was, as is one     *)
(* whose search fails.                                                     *)
ResolveId(a) ==
  /\ a \in resolving /\ resolving' = resolving \ {a}
  /\ \/ a \in Linkable /\ Update(a, [catalogue[a] EXCEPT !.linked = TRUE])
     \/ UNCHANGED <<catalogue, byUpdate>>
  /\ UNCHANGED <<seed, cron, seeds>>

ResolveIds == ListUnlinked \/ \E a \in resolving : ResolveId(a)

CatalogueStep ==
  \/ SyncProvisionedTokens \/ SyncDbTokens \/ UpdateTokenOnChainData
  \/ NextBatch \/ FetchBatch \/ CopyRows \/ UpsertBatch \/ BatchFails \/ UpsertRow
  \/ ReadMarketPage \/ EnrichBatch \/ ResolveIds

-------------------------------------------------------------------------------
(***************************************************************************)
(* Properties                                                              *)
(***************************************************************************)

(* A link to CoinGecko is lost only to the refresh of the numbers that     *)
(* copied the row before the link was made; no other job, forced or not,   *)
(* takes it away.                                                          *)
LinksAreKept ==
  [][\A a \in DOMAIN catalogue :
       catalogue[a].linked /\ ~catalogue'[a].linked =>
         seed.kind = "chain" /\ a \in DOMAIN seed.values /\ ~seed.values[a].linked]_catalogueVars

(* While fewer tokens than a batch are unknown to CoinGecko, each of the   *)
(* others is linked in the end: they do not keep it out of the batches.    *)
LinkableIsLinked ==
  \A a \in Linkable : a \in DOMAIN catalogue ~> a \in DOMAIN catalogue /\ catalogue[a].linked
===============================================================================
