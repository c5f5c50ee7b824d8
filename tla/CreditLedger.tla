----------------------------- MODULE CreditLedger -----------------------------
(***************************************************************************)
(* What billing promises about credits, with no calls, no chain, no cron:  *)
(* an entry is opened once, then either credited to its owner by one       *)
(* payment that credits nothing else, or voided; either way it is closed   *)
(* for good, and a balance moves only by crediting and by spending.        *)
(***************************************************************************)
EXTENDS Integers

CONSTANTS Users, Orders, Txs, Packages, NoUser, NoTx

VARIABLES
  entries,  \* per order: its state, owner, worth and the payment that closed it
  balance   \* per user: credits that can be spent

vars == <<entries, balance>>

NoEntry == [state |-> "none", user |-> NoUser, credits |-> 0, tx |-> NoTx]

Init ==
  /\ entries = [o \in Orders |-> NoEntry]
  /\ balance = [u \in Users |-> 0]

Open(o, u, p) ==
  /\ entries[o].state = "none"
  /\ entries' = [entries EXCEPT ![o] =
       [state |-> "open", user |-> u, credits |-> p, tx |-> NoTx]]
  /\ UNCHANGED balance

Credit(o, t) ==
  /\ entries[o].state = "open"
  /\ \A x \in Orders : entries[x].tx # t
  /\ entries' = [entries EXCEPT ![o].state = "credited", ![o].tx = t]
  /\ balance' = [balance EXCEPT ![entries[o].user] = @ + entries[o].credits]

Void(S) ==
  /\ \A o \in S : entries[o].state = "open"
  /\ entries' = [o \in Orders |->
       IF o \in S THEN [entries[o] EXCEPT !.state = "void"] ELSE entries[o]]
  /\ UNCHANGED balance

Spend(u) ==
  /\ balance[u] >= 1
  /\ balance' = [balance EXCEPT ![u] = @ - 1]
  /\ UNCHANGED entries

Next ==
  \/ \E o \in Orders, u \in Users, p \in Packages : Open(o, u, p)
  \/ \E o \in Orders, t \in Txs : Credit(o, t)
  \/ \E S \in SUBSET Orders : Void(S)
  \/ \E u \in Users : Spend(u)

Spec == Init /\ [][Next]_vars
==============================================================================
