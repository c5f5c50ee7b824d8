--------------------------- MODULE DiscoveryWindows --------------------------
(***************************************************************************)
(* The discovery pages: a sorted list is cached in windows of WINDOW_SIZE, *)
(* each with a time to live of its own, and a page is cut out of the       *)
(* windows it covers.  The windows of the trending tokens are read from    *)
(* the table one by one; those of the categories are all filled by         *)
(* whoever misses one, and removed by the sync that rewrites the table.    *)
(* RedisService answers an error like a missing key and drops a failed     *)
(* write.                                                                  *)
(***************************************************************************)
EXTENDS Integers, FiniteSets, Sequences, FiniteSetsExt, SequencesExt

CONSTANTS
  Rankings,     \* bound: the orders the trending tokens may be in
  MarketCaps,   \* bound: what a sync may find: the cap of each category, 0 if incomplete
  WindowSize,   \* WINDOW_SIZE
  Detailed,     \* bound: the categories whose details are asked for
  Browsers,     \* requests at the same time
  Syncs,        \* runs of syncCategoriesForCluster: at startup, the cron, the endpoint
  MaxOffset,    \* bound: where a page begins
  Limit,        \* bound: the length of a page
  MaxAsks,      \* bound: requests
  MaxSyncs      \* bound: runs of the sync

Categories == UNION {DOMAIN found : found \in MarketCaps}

ASSUME DiscoveryAssumption ==
  /\ MarketCaps \subseteq [Categories -> Nat] /\ Detailed \subseteq Categories
  /\ \A list \in Rankings : list \in Seq(Range(list))
  /\ WindowSize \in Nat \ {0} /\ Limit \in Nat \ {0} /\ MaxOffset \in Nat
  /\ MaxAsks \in Nat /\ MaxSyncs \in Nat

VARIABLES
  paged,     \* the list looked at: the two share nothing
  ranking,   \* the trending tokens in order
  caps,      \* the table of categories: market caps, 0 for no row
  redis,     \* Redis, by key; as history of an entry, the order it was cut from and whether the
             \* table changed since it was read
  browse,    \* the requests; as history, whether the table changed since they read it
  sync,      \* the runs of the sync
  asks, syncs,
  dirty      \* history: runs that changed the table and did not remove every key

discoveryVars == <<paged, ranking, caps, redis, browse, sync, asks, syncs, dirty>>

NoKeys == [k \in {} |-> 0]
NoPage == [kind |-> "none", stage |-> "idle", offset |-> 0, limit |-> 0, window |-> 0,
           got |-> <<>>, copy |-> <<>>, raced |-> FALSE, next |-> 0]
NoSync == [stage |-> "idle", found |-> NoKeys, todo |-> {}, keys |-> {}, clean |-> TRUE]

DiscoveryTypeOK ==
  /\ paged \in {"trending", "window"} /\ ranking \in Rankings /\ \A c \in DOMAIN caps : caps[c] >= 0
  /\ \A b \in Browsers :
       browse[b].stage \in {"idle", "window", "read", "store", "populate", "total", "fill", "again", "detail", "row", "keep", "done"}
  /\ \A y \in Syncs : sync[y].stage \in {"idle", "upsert", "keys", "del"}
  /\ asks \in 0..MaxAsks /\ syncs \in 0..MaxSyncs /\ dirty \subseteq Syncs
  /\ \A k \in DOMAIN redis : k[1] \in {"trending", "window", "total", "detail"}

DiscoveryInit ==
  /\ paged \in {"trending", "window"}
  /\ ranking \in Rankings /\ caps \in MarketCaps /\ redis = NoKeys
  /\ browse = [b \in Browsers |-> NoPage] /\ sync = [y \in Syncs |-> NoSync]
  /\ asks = 0 /\ syncs = 0 /\ dirty = {}

(* The query with take and skip, the way every filtered list is answered.  *)
Direct(list, offset, limit) == SubSeq(list, offset + 1, Min({offset + limit, Len(list)}))

(* The valid categories, the largest first.                                *)
RankedCategories(table) == SetToSortSeq({c \in DOMAIN table : table[c] > 0}, LAMBDA c, d : table[c] > table[d])
ValidCategories == RankedCategories(caps)

SetEx(k, entry) ==
  redis' \in {redis, [x \in DOMAIN redis \cup {k} |-> IF x = k THEN entry ELSE redis[x]]}
Without(keys) == [k \in DOMAIN redis \ keys |-> redis[k]]

Browse(b) ==
  /\ browse[b].stage = "idle" /\ asks < MaxAsks /\ asks' = asks + 1
  /\ \/ \E offset \in 0..MaxOffset :
          browse' = [browse EXCEPT ![b] =
            [NoPage EXCEPT !.kind = paged, !.stage = "window", !.offset = offset, !.limit = Limit,
                           !.window = offset \div WindowSize]]
     \/ \E c \in Detailed :
          /\ paged = "window"
          /\ browse' = [browse EXCEPT ![b] = [NoPage EXCEPT !.kind = "detail", !.stage = "detail", !.copy = c]]
  /\ UNCHANGED <<paged, ranking, caps, redis, sync, syncs, dirty>>

(* Mutant: the page ends in the window of the item behind it.              *)
EndWindowMutant(p) == (p.offset + p.limit - WindowSize) \div WindowSize

EndWindow(p) == (p.offset + p.limit - 1) \div WindowSize

Key(p) == <<p.kind, p.window>>
(* Bound: of the page of categories only the number of windows is kept.    *)
Got(p, entry) == [p EXCEPT !.got = IF p.kind = "trending" THEN Append(@, entry) ELSE @,
                           !.window = @ + 1, !.stage = "window"]

(* A window of the page: found, or missed, which an error may be as well.  *)
GetWindow(b) ==
  LET p == browse[b]
  IN  /\ p.stage = "window"
      /\ \/ p.window > EndWindow(p) /\ browse' = [browse EXCEPT ![b].stage = "done"]
         \/ /\ p.window <= EndWindow(p) /\ Key(p) \in DOMAIN redis
            /\ browse' = [browse EXCEPT ![b] = Got(p, redis[Key(p)])]
         \/ /\ p.window <= EndWindow(p)
            /\ browse' = [browse EXCEPT ![b].stage = IF p.kind = "trending" THEN "read" ELSE "populate"]
      /\ UNCHANGED <<paged, ranking, caps, redis, sync, asks, syncs, dirty>>

ReadTrending(b) ==
  /\ browse[b].stage = "read"
  /\ browse' = [browse EXCEPT ![b].copy = ranking, ![b].stage = "store"]
  /\ UNCHANGED <<paged, ranking, caps, redis, sync, asks, syncs, dirty>>

Entry(list, n, of, raced) == [items |-> Direct(list, n * WindowSize, WindowSize), of |-> of, raced |-> raced]

StoreTrending(b) ==
  LET p == browse[b]
      entry == Entry(p.copy, p.window, p.copy, FALSE)
  IN  /\ p.stage = "store"
      /\ SetEx(Key(p), entry)
      /\ browse' = [browse EXCEPT ![b] = Got(p, entry)]
      /\ UNCHANGED <<paged, ranking, caps, sync, asks, syncs, dirty>>

(* populateCategoryWindows: the table, the total, then every window; and   *)
(* the window asked for is read again, by now perhaps gone.                *)
ReadCategories(b) ==
  /\ browse[b].stage = "populate"
  /\ browse' = [browse EXCEPT ![b].copy = ValidCategories, ![b].raced = FALSE, ![b].next = 0,
                               ![b].stage = "total"]
  /\ UNCHANGED <<paged, ranking, caps, redis, sync, asks, syncs, dirty>>

SetTotal(b) ==
  LET p == browse[b]
  IN  /\ p.stage = "total"
      /\ SetEx(<<"total">>, [items |-> Len(p.copy), of |-> <<>>, raced |-> p.raced])
      /\ browse' = [browse EXCEPT ![b].stage = "fill"]
      /\ UNCHANGED <<paged, ranking, caps, sync, asks, syncs, dirty>>

FillWindow(b) ==
  LET p == browse[b]
      more == p.next * WindowSize < Len(p.copy)
  IN  /\ p.stage = "fill"
      /\ IF more THEN SetEx(<<"window", p.next>>, Entry(p.copy, p.next, <<>>, p.raced)) ELSE UNCHANGED redis
      /\ browse' = IF more THEN [browse EXCEPT ![b].next = @ + 1] ELSE [browse EXCEPT ![b].stage = "again"]
      /\ UNCHANGED <<paged, ranking, caps, sync, asks, syncs, dirty>>

GetAgain(b) ==
  /\ browse[b].stage = "again"
  /\ browse' = [browse EXCEPT ![b] = Got(browse[b], NoKeys)]
  /\ UNCHANGED <<paged, ranking, caps, redis, sync, asks, syncs, dirty>>

(* getCategoryDetail.                                                      *)
GetDetail(b) ==
  /\ browse[b].stage = "detail"
  /\ \/ <<"detail", browse[b].copy>> \in DOMAIN redis /\ browse' = [browse EXCEPT ![b].stage = "done"]
     \/ browse' = [browse EXCEPT ![b].stage = "row"]
  /\ UNCHANGED <<paged, ranking, caps, redis, sync, asks, syncs, dirty>>

ReadCategory(b) ==
  LET c == browse[b].copy
  IN  /\ browse[b].stage = "row"
      /\ browse' = IF caps[c] = 0 THEN [browse EXCEPT ![b] = NoPage]
                   ELSE [browse EXCEPT ![b].raced = FALSE, ![b].got = <<caps[c]>>, ![b].stage = "keep"]
      /\ UNCHANGED <<paged, ranking, caps, redis, sync, asks, syncs, dirty>>

KeepDetail(b) ==
  LET p == browse[b]
  IN  /\ p.stage = "keep"
      /\ SetEx(<<"detail", p.copy>>, [items |-> p.got[1], of |-> <<>>, raced |-> p.raced])
      /\ browse' = [browse EXCEPT ![b].stage = "done"]
      /\ UNCHANGED <<paged, ranking, caps, sync, asks, syncs, dirty>>

Answer(b) ==
  /\ browse[b].stage = "done" /\ browse' = [browse EXCEPT ![b] = NoPage]
  /\ UNCHANGED <<paged, ranking, caps, redis, sync, asks, syncs, dirty>>

(* syncCategoriesForCluster: complete categories are upserted one by one.  *)
StartSync(y) ==
  /\ paged = "window" /\ sync[y].stage = "idle" /\ syncs < MaxSyncs /\ syncs' = syncs + 1
  /\ \E found \in MarketCaps :
       sync' = [sync EXCEPT ![y] = [NoSync EXCEPT !.stage = "upsert", !.found = found,
                                                  !.todo = {c \in DOMAIN found : found[c] > 0}]]
  /\ UNCHANGED <<paged, ranking, caps, redis, browse, asks, dirty>>

UpsertCategory(y) ==
  LET s == sync[y]
      c == CHOOSE c \in s.todo : TRUE
      changed == caps[c] # s.found[c]
  IN  /\ s.stage = "upsert" /\ s.todo # {}
      /\ caps' = [caps EXCEPT ![c] = s.found[c]]
      /\ browse' = [b \in Browsers |-> [browse[b] EXCEPT !.raced = changed \/ @]]
      /\ dirty' = IF changed THEN dirty \cup {y} ELSE dirty
      /\ sync' = [sync EXCEPT ![y].todo = @ \ {c}]
      /\ UNCHANGED <<paged, ranking, redis, asks, syncs>>

(* Mutant: the windows and the total are left to expire.                   *)
KeysMutant == {k \in DOMAIN redis : k[1] = "detail"}

(* KEYS discovery:categories:* and discovery:category:*.                   *)
Keys == {k \in DOMAIN redis : k[1] # "trending"}

(* An error of KEYS is an empty answer.                                    *)
ListKeys(y) ==
  /\ sync[y].stage = "upsert" /\ sync[y].todo = {}
  /\ \/ sync' = [sync EXCEPT ![y].keys = Keys, ![y].stage = "del"]
     \/ sync' = [sync EXCEPT ![y] = NoSync]
  /\ UNCHANGED <<paged, ranking, caps, redis, browse, asks, syncs, dirty>>

(* The keys are deleted one at a time; a DEL that fails is passed over.    *)
DeleteKey(y) ==
  LET s == sync[y]
      k == CHOOSE k \in s.keys : TRUE
  IN  /\ s.stage = "del" /\ s.keys # {}
      /\ \/ redis' = Without({k}) /\ sync' = [sync EXCEPT ![y].keys = @ \ {k}]
         \/ sync' = [sync EXCEPT ![y].keys = @ \ {k}, ![y].clean = FALSE] /\ UNCHANGED redis
      /\ UNCHANGED <<paged, ranking, caps, browse, asks, syncs, dirty>>

EndSync(y) ==
  /\ sync[y].stage = "del" /\ sync[y].keys = {}
  /\ sync' = [sync EXCEPT ![y] = NoSync]
  /\ dirty' = IF sync[y].clean THEN dirty \ {y} ELSE dirty
  /\ UNCHANGED <<paged, ranking, caps, redis, browse, asks, syncs>>

(* An upsert throws: the rest is skipped, the keys with it.                *)
SyncFails(y) ==
  /\ sync[y].stage = "upsert" /\ sync[y].todo # {}
  /\ sync' = [sync EXCEPT ![y] = NoSync]
  /\ UNCHANGED <<paged, ranking, caps, redis, browse, asks, syncs, dirty>>

(* The rows of the tokens change, and keys expire; those of the categories *)
(* need not, as an error of GET is a miss as well.                         *)
Reranked ==
  /\ paged = "trending" /\ ranking' \in Rankings \ {ranking}
  /\ UNCHANGED <<paged, caps, redis, browse, sync, asks, syncs, dirty>>

Expires ==
  /\ paged = "trending"
  /\ \E k \in DOMAIN redis : redis' = Without({k})
  /\ UNCHANGED <<paged, ranking, caps, browse, sync, asks, syncs, dirty>>

DiscoveryStep ==
  \/ \E b \in Browsers :
       \/ Browse(b) \/ GetWindow(b) \/ ReadTrending(b) \/ StoreTrending(b) \/ ReadCategories(b) \/ SetTotal(b)
       \/ FillWindow(b) \/ GetAgain(b) \/ GetDetail(b) \/ ReadCategory(b) \/ KeepDetail(b) \/ Answer(b)
  \/ \E y \in Syncs : StartSync(y) \/ UpsertCategory(y) \/ ListKeys(y) \/ DeleteKey(y) \/ EndSync(y) \/ SyncFails(y)
  \/ Reranked \/ Expires

-------------------------------------------------------------------------------
PageOf(p) == Direct(FlattenSeq([i \in DOMAIN p.got |-> p.got[i].items]), p.offset % WindowSize, p.limit)

(***************************************************************************)
(* Properties                                                              *)
(***************************************************************************)

(* A page whose windows come from the same reading of the table is what    *)
(* the query without windows would have answered, wherever it begins and   *)
(* ends; a list that changes between two windows excuses the others.       *)
PagesAreSlices ==
  \A b \in Browsers :
    LET p == browse[b]
    IN  p.stage = "done" /\ p.kind = "trending" =>
          \A list \in {p.got[i].of : i \in DOMAIN p.got} :
            (\A i \in DOMAIN p.got : p.got[i].of = list) => PageOf(p) = Direct(list, p.offset, p.limit)

(* Nothing stale outlives a sync that ended well: unless a run failed in   *)
(* between, every key of the categories agrees with the table, but for     *)
(* what a request read before the table changed and stored afterwards.     *)
SyncedKeysAgree ==
  dirty = {} =>
    \A k \in DOMAIN redis : ~redis[k].raced =>
      CASE k[1] = "window" -> redis[k].items = Direct(ValidCategories, k[2] * WindowSize, WindowSize)
        [] k[1] = "total" -> redis[k].items = Len(ValidCategories)
        [] k[1] = "detail" -> redis[k].items = caps[k[2]]
        [] OTHER -> TRUE

(* What discovery serves agrees with its table: a page put together from   *)
(* windows is the slice that was asked for, and no key outlives a sync     *)
(* that ended well.                                                        *)
DiscoveryAgrees == PagesAreSlices /\ SyncedKeysAgree
===============================================================================
