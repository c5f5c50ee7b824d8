----------------------------- MODULE HolderBooks -----------------------------
(***************************************************************************)
(* The books of one holder of one mint: the fields of its Redis hash and   *)
(* its score in the ranking.  A swap changes them by a dozen commands one  *)
(* after the other, a price update reads the hash and writes a field of    *)
(* it, a report of the indexer sets most of them and a removal deletes     *)
(* them.  Handlers overlap, but a handler waits for the reply to a command *)
(* before it sends the next, and all of them share one connection, where   *)
(* commands are answered in their order: each has one command in a queue.  *)
(* Volumes are integers and so is what is divided: nothing but the average *)
(* cost is rounded.                                                        *)
(***************************************************************************)
EXTENDS Integers, Sequences

CONSTANTS
  Deals,       \* bound: the swaps, [buys, raw, usd, day, priced]
  Reports,     \* bound: the indexer's reports, [balance, boughtRaw, bought, sold]
  HolderPrice, \* the committed price
  MaxHandlers, \* bound: handlers running at once
  MaxStarts    \* bound: handlers started

(* What is left of the purchases has cost a whole amount.                  *)
ASSUME BooksAssumption ==
  /\ \A d \in Deals : d.buys \in BOOLEAN /\ {d.raw, d.usd, d.day} \subseteq Nat
  /\ \A r \in Reports :
       /\ {r.balance, r.boughtRaw, r.bought, r.sold} \subseteq Nat
       /\ r.boughtRaw > 0 => (r.balance * r.bought) % r.boughtRaw = 0
  /\ {HolderPrice, MaxHandlers, MaxStarts} \subseteq Nat

VARIABLES
  book,      \* HOLDER_MINT_WALLET: the fields that are set
  lasting,   \* the hash has no expiry
  score,     \* HOLDER_RANKING: the score of the wallet, 0 if it has none
  queue,     \* handlers, in the order of the commands they have sent
  dealt,     \* swaps begun
  starts,    \* handlers started so far
  uncosted,  \* history: sold without a balance to have it from
  crossed,   \* history: two sales overlapped, or one was of more than was held
  diverged,  \* history: the hash is not that of the swaps in order, one after the other
  muddled    \* history: a handler failed, or overlapped one that sets what it adds to

bookVars == <<book, lasting, score, queue, dealt, starts, uncosted, crossed, diverged, muddled>>

Fields == {"balance", "bought", "sold", "cost", "realized", "unrealized", "first"}
BookKinds  == {"buy", "sell", "report", "removal", "price"}

Commands == {"balance", "bought", "cost", "count", "sold", "countSale", "held", "basis", "realized", "takeCost",
             "transactions", "first", "setFirst", "last", "set", "keep", "read", "rank", "keepRanking",
             "unrank", "delete", "top", "all", "unrealized"}

(* at: the command it has sent; raw, usd: the swap; data: the report;      *)
(* held, basis: what was read.                                             *)
Handler == [kind : BookKinds, at : Commands, raw : Nat, usd : Nat,
            data : Reports \cup {<<>>}, held : Int, basis : Int]

BookTypeOK ==
  /\ DOMAIN book \subseteq Fields /\ \A f \in DOMAIN book : book[f] \in Int
  /\ lasting \in BOOLEAN
  /\ score \in Int
  /\ queue \in Seq(Handler) /\ Len(queue) <= MaxHandlers
  /\ dealt \subseteq Deals
  /\ starts \in 0..MaxStarts
  /\ uncosted \in Nat
  /\ crossed \in BOOLEAN /\ diverged \in BOOLEAN /\ muddled \in BOOLEAN

BookInit ==
  /\ book = <<>> /\ lasting = FALSE /\ score = 0
  /\ queue = <<>> /\ dealt = {} /\ starts = 0
  /\ uncosted = 0 /\ crossed = FALSE /\ diverged = FALSE /\ muddled = FALSE

Get(f)  == IF f \in DOMAIN book THEN book[f] ELSE 0

(***************************************************************************)
(* The order of the commands of a handler                                  *)
(***************************************************************************)
FirstCommand == [buy |-> "balance", sell |-> "balance", report |-> "set", removal |-> "unrank",
          price |-> "top"]

LastCommand == [buy |-> "keepRanking", sell |-> "keepRanking", report |-> "keepRanking",
         removal |-> "delete", price |-> "unrealized"]

(* The command behind the one at.                                          *)
Follows(h) ==
  CASE h.at = "balance"  -> IF h.kind = "buy" THEN "bought" ELSE "sold"
    [] h.at = "bought"   -> "cost"
    [] h.at = "cost"     -> "count"
    [] h.at = "sold"     -> "countSale"
    [] h.at = "countSale" -> "held"
    [] h.at = "held"     -> "basis"
    [] h.at = "basis"    -> IF h.held > 0 THEN "realized" ELSE "transactions"
    [] h.at = "realized" -> "takeCost"
    [] h.at \in {"takeCost", "count"} -> "transactions"
    [] h.at = "transactions" -> "first"
    [] h.at = "first"    -> IF "first" \in DOMAIN book THEN "last" ELSE "setFirst"
    [] h.at = "setFirst" -> "last"
    [] h.at = "last"     -> "keep"
    [] h.at = "set"      -> "keep"
    [] h.at = "keep"     -> IF h.kind = "report" THEN "rank" ELSE "read"
    [] h.at = "read"     -> "rank"
    [] h.at = "rank"     -> "keepRanking"
    [] h.at = "unrank"   -> "delete"
    [] h.at = "top"      -> "all"
    [] h.at = "all"      -> "unrealized"

(* The sale of h takes its share of what the holding cost.                 *)
CostOfSold(h) == (h.basis * h.raw) \div h.held

(***************************************************************************)
(* What a command does to the hash                                         *)
(***************************************************************************)
SetFields(fields) ==
  book' = [f \in DOMAIN book \cup DOMAIN fields |-> IF f \in DOMAIN fields THEN fields[f] ELSE book[f]]

SetField(f, n) == SetFields([g \in {f} |-> n])
Incr(f, n)     == SetField(f, Get(f) + n)

(* onHolderUpdate: the average cost of all that was bought.                *)
CostBasis(data) == (data.balance * data.bought) \div data.boughtRaw
SoldRaw(data)   == data.boughtRaw - data.balance

Reported(data) ==
  LET costed == data.boughtRaw > 0
      sale   == costed /\ SoldRaw(data) > 0 IN
  [f \in {"balance", "bought", "sold"} \cup (IF costed THEN {"cost"} ELSE {})
           \cup (IF sale THEN {"realized"} ELSE {}) |->
     CASE f = "balance" -> data.balance
       [] f = "bought"  -> data.bought
       [] f = "sold"    -> data.sold
       [] f = "cost"    -> CostBasis(data)
       [] OTHER -> data.sold - (SoldRaw(data) * data.bought) \div data.boughtRaw]

(* The report sets the profit too, or nothing was sold and none was set.   *)
Complete(data) ==
  /\ data.boughtRaw > 0
  /\ SoldRaw(data) > 0 \/ (SoldRaw(data) = 0 /\ data.sold = 0 /\ "realized" \notin DOMAIN book)

Writing == {"balance", "bought", "cost", "sold", "realized", "takeCost", "setFirst", "set", "unrealized",
            "delete"}

Effect(h) ==
  \/ h.at = "balance"    /\ Incr("balance", IF h.kind = "buy" THEN h.raw ELSE -h.raw)
  \/ h.at = "bought"     /\ Incr("bought", h.usd)
  \/ h.at = "cost"       /\ Incr("cost", h.usd)
  \/ h.at = "sold"       /\ Incr("sold", h.usd)
  \/ h.at = "realized"   /\ Incr("realized", h.usd - CostOfSold(h))
  \/ h.at = "takeCost"  /\ Incr("cost", -CostOfSold(h))
  \/ h.at = "setFirst"  /\ SetField("first", 1)
  \/ h.at = "set"        /\ SetFields(Reported(h.data))
  \/ h.at = "unrealized" /\ SetField("unrealized", h.held * HolderPrice - h.basis)
  \/ h.at = "delete"     /\ book' = <<>>
  \/ h.at \notin Writing /\ UNCHANGED book

(* What a command reads; a sale adds again what it has taken.              *)
Learnt(h) ==
  CASE h.at = "held"  -> [h EXCEPT !.held = Get("balance") + h.raw]
    [] h.at = "basis" -> [h EXCEPT !.basis = Get("cost")]
    [] h.at = "read"  -> [h EXCEPT !.held = Get("balance")]
    [] h.at = "all"   -> [h EXCEPT !.held = Get("balance"), !.basis = Get("cost")]
    [] OTHER          -> h

(* ZADD of a positive balance, ZREM otherwise.                             *)
Ranked(h) ==
  LET balance == IF h.kind = "report" THEN h.data.balance ELSE h.held IN
  CASE h.at = "rank"   -> IF balance > 0 THEN balance ELSE 0
    [] h.at = "unrank" -> 0
    [] OTHER           -> score

(* Mutant: whatever hash a ranked wallet has gets the field.               *)
EndsMutant(h) == h.at = LastCommand[h.kind] \/ (h.at = "top" /\ score = 0)

(* A price update is done with a wallet that is not ranked, or whose hash  *)
(* has no balance or no cost.                                              *)
Ends(h) ==
  \/ h.at = LastCommand[h.kind]
  \/ h.at = "top" /\ score = 0
  \/ h.at = "all" /\ ~({"balance", "cost"} \subseteq DOMAIN book)

(***************************************************************************)
(* The steps                                                               *)
(***************************************************************************)
InQueue == {queue[i].kind : i \in DOMAIN queue}

Adds(kind)   == kind \in {"buy", "sell"}
Clashes(a, b) ==
  \/ (Adds(a) /\ b \in {"report", "removal"})
  \/ {a, b} \in {{"removal", "report"}, {"removal", "price"}, {"removal"}, {"report"}}

(* A handler sends its first command: a swap has resolved its price, a     *)
(* price update has stored the price.                                      *)
Begin(kind, raw, usd, data) ==
  /\ Len(queue) < MaxHandlers
  /\ starts < MaxStarts
  /\ starts' = starts + 1
  /\ queue' = Append(queue, [kind |-> kind, at |-> FirstCommand[kind], raw |-> raw, usd |-> usd,
                             data |-> data, held |-> 0, basis |-> 0])
  /\ crossed' = (crossed \/ (kind = "sell" /\ "sell" \in InQueue))
  /\ muddled' = (muddled \/ \E k \in InQueue : Clashes(kind, k) \/ Clashes(k, kind))
  /\ UNCHANGED <<book, lasting, score, uncosted>>

OnSwapEvent(deal) ==
  /\ deal \notin dealt
  /\ Begin(IF deal.buys THEN "buy" ELSE "sell", deal.raw, deal.usd, <<>>)
  /\ dealt' = dealt \cup {deal}
  /\ diverged' = \/ diverged
                 \/ \E k \in InQueue : Adds(k)
                 \/ \E other \in dealt : other.day >= deal.day

OnHolderUpdate(data) == Begin("report", 0, 0, data) /\ diverged' = TRUE /\ UNCHANGED dealt

OnRemoved == Begin("removal", 0, 0, <<>>) /\ diverged' = TRUE /\ UNCHANGED dealt

OnPriceUpdate == Begin("price", 0, 0, <<>>) /\ UNCHANGED <<dealt, diverged>>

(* Redis runs the command at the head; the handler sends its next one.     *)
Exec(h) ==
  /\ Effect(h)
  /\ score' = Ranked(h)
  /\ lasting' = (h.at \notin {"keep", "delete"} /\ (lasting \/ (book = <<>> /\ book' # <<>>)))
  /\ uncosted' = CASE h.at = "delete" -> 0
                   [] h.at = "set" /\ Complete(h.data) -> 0
                   [] h.at = "basis" /\ h.held <= 0 -> uncosted + h.usd
                   [] OTHER -> uncosted
  /\ crossed' = (crossed \/ (h.at = "basis" /\ 0 < h.held /\ h.held < h.raw))
  /\ muddled' = (muddled \/ (h.at = "set" /\ ~Complete(h.data)))
  /\ queue' = Tail(queue) \o
       (IF Ends(h) THEN <<>> ELSE <<[Learnt(h) EXCEPT !.at = Follows(Learnt(h))]>>)
  /\ UNCHANGED <<dealt, starts, diverged>>

(* A command fails: the error is logged and the rest is not done.          *)
Reject(h) ==
  /\ queue' = Tail(queue)
  /\ muddled' = (muddled \/ h.kind # "price")
  /\ UNCHANGED <<book, lasting, score, dealt, starts, uncosted, crossed, diverged>>

(* A day without a swap of the holder.                                     *)
Expire ==
  /\ book # <<>> /\ ~lasting
  /\ book' = <<>>
  /\ uncosted' = 0
  /\ diverged' = TRUE
  /\ muddled' = (muddled \/ queue # <<>>)
  /\ UNCHANGED <<lasting, score, queue, dealt, starts, crossed>>

BookStep ==
  \/ \E deal \in Deals : OnSwapEvent(deal)
  \/ \E data \in Reports : OnHolderUpdate(data)
  \/ OnRemoved \/ OnPriceUpdate \/ Expire
  \/ queue # <<>> /\ (Exec(Head(queue)) \/ Reject(Head(queue)))

-------------------------------------------------------------------------------
(* Swaps may overlap each other and price updates anyhow: when all is      *)
(* quiet, the profit realized is what was sold for less what that cost,    *)
(* the ranking has the balance, the hash is forgotten in a day, and no     *)
(* price update has brought back a holder that is gone.  What is left      *)
(* never costs less than nothing, unless sales overlapped, each of which   *)
(* then takes its share of the same cost, or one was of more than was      *)
(* held: it takes more than all of the cost.                               *)
BooksBalance ==
  queue = <<>> /\ ~muddled =>
    /\ Get("realized") + uncosted = Get("sold") - (Get("bought") - Get("cost"))
    /\ book # <<>> =>
         /\ "balance" \in DOMAIN book /\ ~lasting
         /\ score = IF Get("balance") > 0 THEN Get("balance") ELSE 0
    /\ ~crossed => Get("cost") >= 0
==============================================================================
