------------------------------ MODULE TokenPrice ------------------------------
(***************************************************************************)
(* The latest price of one mint on one cluster.  It is kept in Redis,      *)
(* ordered by slot; every accepted swap price is recorded as a market      *)
(* price event, and a minute cron copies the newest event into             *)
(* tokens.price, the durable fallback that refills Redis when the cached   *)
(* price is old.                                                           *)
(*                                                                         *)
(* A message of the indexer is handled by two subscribers at once.  Each   *)
(* call of a handler is a job; its steps are separated by awaits.          *)
(***************************************************************************)
EXTENDS Integers, FiniteSets

CONSTANTS
  Messages,   \* [kind : {"swap", "update"}, slot, price, quoted, native], where
              \*   price is price_usd (0: none), quoted the price the statistics
              \*   derive for this mint, native whether price_native is positive
  MaxPrice,   \* MAX_PRICE_USD
  Readers,    \* identities of plain getPrice calls
  MaxJobs     \* bound: handlers running at once

ASSUME MessagesAssumption ==
  /\ Messages \subseteq [kind : {"swap", "update"}, slot : Nat, price : Nat, quoted : Nat, native : BOOLEAN]
  /\ MaxPrice \in Nat

VARIABLES
  cache,      \* TOKEN_PRICE_LATEST
  row,        \* tokens.price; 0: none
  events,     \* market_price_events of the mint
  pending,    \* messages the indexer has not published yet
  jobs,       \* handlers awaiting something
  handled     \* history: messages whose event was inserted or dropped

priceVars == <<cache, row, events, pending, jobs, handled>>

Valid(p) == p > 0
Sane(p)  == p > 0 /\ p < MaxPrice

Sources == {"none", "swap", "indexer-price-update", "reference-sync"}

PriceTypeOK ==
  /\ cache.life \in {"absent", "stale", "fresh"}
  /\ cache.source \in Sources /\ (cache.life = "absent" <=> cache.source = "none")
  /\ handled \cap pending = {}
  /\ \A e \in events : Valid(e.price)
  /\ \A j \in jobs : j.pc \in {"set", "peek", "ttl", "row", "refill", "insert"}
                     /\ (j.pc = "refill" => Valid(j.price))

Absent == [price |-> 0, slot |-> 0, source |-> "none", life |-> "absent"]

PriceInit ==
  /\ cache = Absent
  /\ row \in {0, 1}
  /\ events = {}
  /\ pending = Messages
  /\ jobs = {}
  /\ handled = {}

Job(m, by, pc) == [msg |-> m, by |-> by, pc |-> pc, price |-> 0]

(* What the two subscribers of a message do first.                         *)
Handlers(m) ==
  IF m.kind = "swap"
  THEN {Job(m, "consumer", IF Valid(m.price) THEN "set" ELSE "peek")} \cup
       (IF Valid(m.price) /\ Sane(m.quoted) THEN {Job(m, "stats", "set")} ELSE {})
  ELSE {Job(m, "holders", "set")} \cup
       (IF Sane(m.price) THEN {Job(m, "market", "insert")} ELSE {})

Deliver(m) ==
  /\ m \in pending
  /\ Cardinality(jobs) + 2 <= MaxJobs
  /\ pending' = pending \ {m}
  /\ jobs' = jobs \cup Handlers(m)
  /\ UNCHANGED <<cache, row, events, handled>>

Read(r) ==
  /\ Cardinality(jobs) < MaxJobs
  /\ jobs' = jobs \cup {Job([kind |-> r, slot |-> 0, price |-> 0], "reader", "peek")}
  /\ UNCHANGED <<cache, row, events, pending, handled>>

Finish(j)   == jobs' = jobs \ {j}
Goto(j, pc) == jobs' = (jobs \ {j}) \cup {[j EXCEPT !.pc = pc]}

(* What the job offers to the cache.                                       *)
Offer(j) ==
  [price  |-> IF j.by = "stats" THEN j.msg.quoted ELSE j.msg.price,
   slot   |-> j.msg.slot,
   source |-> IF j.by = "holders" THEN "indexer-price-update" ELSE "swap",
   life   |-> "fresh"]

(* Mutant: the newest call wins, whatever its slot.                        *)
AcceptsMutant(offer, native) == Valid(offer.price) /\ native

Accepts(offer, native) ==
  Valid(offer.price) /\ native /\ (cache.life # "absent" => offer.slot >= cache.slot)

(* setPrice, and what each caller does with its answer.  An accepted swap  *)
(* is recorded, a dropped one is not; a price update is priced again for   *)
(* the holders.                                                            *)
SetAccepted(j) ==
  /\ Accepts(Offer(j), j.msg.native)
  /\ cache' = Offer(j) /\ UNCHANGED handled
  /\ IF j.by = "stats" THEN Finish(j) ELSE Goto(j, IF j.by = "consumer" THEN "insert" ELSE "peek")

(* A price that is dropped, and one Redis failed to take.                  *)
SetDropped(j) ==
  /\ Finish(j) /\ UNCHANGED cache
  /\ handled' = handled \cup (IF j.by = "consumer" THEN {j.msg} ELSE {})

Set(j) == j.pc = "set" /\ (SetAccepted(j) \/ SetDropped(j)) /\ UNCHANGED <<row, events, pending>>

(* getFreshRedisPrice: HGETALL, then TTL; either may find nothing, or      *)
(* fail.                                                                   *)
Peek(j) ==
  /\ j.pc = "peek"
  /\ (cache.life # "absent" /\ Goto(j, "ttl")) \/ Goto(j, "row")
  /\ UNCHANGED <<cache, row, events, pending, handled>>

PeekTtl(j) ==
  /\ j.pc = "ttl"
  /\ (cache.life = "fresh" /\ Finish(j)) \/ Goto(j, "row")
  /\ UNCHANGED <<cache, row, events, pending, handled>>

ReadRow(j) ==
  /\ j.pc = "row"
  /\ IF Valid(row)
     THEN jobs' = (jobs \ {j}) \cup {[j EXCEPT !.pc = "refill", !.price = row]}
     ELSE Finish(j)
  /\ UNCHANGED <<cache, row, events, pending, handled>>

(* The rehydration script, when Redis takes it: a fresh price is left      *)
(* alone, and the slot of an old one is kept.                              *)
Refill(j) ==
  /\ j.pc = "refill"
  /\ \/ UNCHANGED cache
     \/ cache.life # "fresh" /\ cache' = [cache EXCEPT !.price = j.price, !.source = "reference-sync", !.life = "fresh"]
  /\ Finish(j)
  /\ UNCHANGED <<row, events, pending, handled>>

(* persistPriceEvent of an accepted swap, or the row of a price update.    *)
Insert(j) ==
  /\ j.pc = "insert"
  /\ events' = events \cup {[slot |-> j.msg.slot, price |-> j.msg.price]}
  /\ handled' = handled \cup {j.msg}
  /\ Finish(j)
  /\ UNCHANGED <<cache, row, pending>>

(* The price grows old: five minutes without a write, then a day.          *)
(* Handlers take far less, so only a read can still be running.            *)
Age ==
  /\ \A j \in jobs : j.by = "reader"
  /\ cache' = IF cache.life = "fresh" THEN [cache EXCEPT !.life = "stale"] ELSE Absent
  /\ UNCHANGED <<row, events, pending, jobs, handled>>

(* ORDER BY slot DESC; the order within a slot is left open.               *)
Newest ==
  LET sane == {e \in events : Sane(e.price)} IN
  {e \in sane : \A f \in sane : f.slot <= e.slot}

PersistLatestPrices ==
  /\ \E e \in Newest : row' = e.price
  /\ UNCHANGED <<cache, events, pending, jobs, handled>>

PriceStep ==
  \/ \E m \in Messages : Deliver(m)
  \/ \E r \in Readers : Read(r)
  \/ \E j \in jobs : Set(j) \/ Peek(j) \/ PeekTtl(j) \/ ReadRow(j) \/ Refill(j) \/ Insert(j)
  \/ Age
  \/ PersistLatestPrices

-------------------------------------------------------------------------------
(***************************************************************************)
(* Properties                                                              *)
(***************************************************************************)

(* "The slot-ordered, short-latency USD price source"                      *)
(* (token-price.service.ts:14): while the cached price is fresh only a     *)
(* price of the same or a later slot replaces it, and never one read from  *)
(* the database before it arrived.                                         *)
FreshPriceIsSlotOrdered ==
  [][cache.life = "fresh" /\ cache'.life = "fresh" /\ cache' # cache
       => cache'.slot >= cache.slot /\ cache'.source # "reference-sync"]_priceVars

==============================================================================
