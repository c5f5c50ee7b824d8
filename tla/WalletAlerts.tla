----------------------------- MODULE WalletAlerts -----------------------------
(***************************************************************************)
(* Alerts on watched wallets.  Every swap, balance change and transfer the *)
(* indexer publishes is handled at once: the handler reads the active      *)
(* alerts of the wallet, and notifies, one after the other, those that     *)
(* fire and whose last signature is another one.  A transaction may carry  *)
(* several events.  Meanwhile the owner edits an alert.                    *)
(***************************************************************************)
EXTENDS Integers, FiniteSets, Sequences, SequencesExt

CONSTANTS
  Alerts,         \* rows of wallet_alerts: wallet, type and condition
  Events,         \* what the indexer publishes, each with the signature of its transaction
  MaxDeliveries,  \* bound: handlers
  MaxEdits        \* bound: edits

NoEvent == [kind |-> "none"]
NoSignature == "none"

ASSUME AlertsAssumption ==
  /\ NoEvent \notin Events
  /\ \A e \in Events : e.wallets \in Seq(STRING) /\ e.signature # NoSignature
  /\ MaxDeliveries \in Nat /\ MaxEdits \in Nat

VARIABLES
  last,       \* last_checked_signature of each alert
  active,     \* the alerts with is_active
  copies,     \* the signature of each alert in the row of an edit that is not saved yet
  edits,      \* the number of edits
  deliveries, \* the handlers, in the order of their start
  told,       \* history: the events each alert was notified of, in order
  owed,       \* history: the events delivered to each alert since it is active
  crowded,    \* history: two handlers overlapped, or an edit brought back a signature
  dropped     \* history: a handler failed

alertVars == <<last, active, copies, edits, deliveries, told, owed, crowded, dropped>>

Waiting == [pc |-> "waiting", event |-> NoEvent, wallets |-> <<>>, todo |-> {}, seen |-> last, alert |-> "none"]

AlertTypeOK ==
  /\ \A d \in 1..MaxDeliveries : deliveries[d].pc \in {"waiting", "wallet", "alert", "remember", "done"}
  /\ active \subseteq Alerts /\ edits \in 0..MaxEdits
  /\ \A a \in Alerts : /\ last[a] \in {e.signature : e \in Events} \cup {NoSignature}
                      /\ told[a] \in Seq(Events) /\ owed[a] \subseteq Events
  /\ crowded \in BOOLEAN /\ dropped \in BOOLEAN

AlertInit ==
  /\ last = [a \in Alerts |-> NoSignature]
  /\ active = Alerts /\ copies = [a \in Alerts |-> {}] /\ edits = 0
  /\ deliveries = [d \in 1..MaxDeliveries |-> Waiting]
  /\ told = [a \in Alerts |-> <<>>]
  /\ owed = [a \in Alerts |-> {}]
  /\ crowded = FALSE /\ dropped = FALSE

Handling == {d \in 1..MaxDeliveries : deliveries[d].pc \notin {"waiting", "done"}}

(* The conditions of handleSwapEvent, handleHolderUpdateEvent and          *)
(* handlePaymentTransferEvent; a threshold in percent tests nothing.       *)
SwapFires(a, e) == a.type = "ANY_SWAP" /\ e.kind = "swap"

Magnitude(n) == IF n < 0 THEN -n ELSE n

BalanceFires(a, e) ==
  /\ a.type = "TOKEN_BALANCE_CHANGE" /\ e.kind = "holder" /\ a.mint = e.mint
  /\ a.percentage \/ Magnitude(e.change) >= a.threshold
  /\ a.direction = "increase" => e.change > 0
  /\ a.direction = "decrease" => e.change < 0

TransferFires(a, e) == a.type = "LARGE_TRANSFER" /\ e.kind = "transfer" /\ e.amount >= a.threshold

Fires(a, e) == SwapFires(a, e) \/ BalanceFires(a, e) \/ TransferFires(a, e)

(* handle: the wallets looked at, both ends of a transfer.                 *)
Handle(d, e) ==
  /\ deliveries[d].pc = "waiting" /\ \A q \in 1..(d - 1) : deliveries[q].pc # "waiting"
  /\ deliveries' = [deliveries EXCEPT ![d].pc = "wallet", ![d].event = e, ![d].wallets = e.wallets]
  /\ owed' = [a \in Alerts |-> owed[a] \cup (IF a \in active THEN {e} ELSE {})]
  /\ crowded' = (crowded \/ Handling # {})
  /\ UNCHANGED <<last, active, copies, edits, told, dropped>>

(* getAllActiveAlertsForWallet, with the signatures of this moment.        *)
ReadAlerts(d) ==
  LET h == deliveries[d]
  IN  /\ h.pc = "wallet" /\ h.wallets # <<>>
      /\ deliveries' = [deliveries EXCEPT ![d] =
           [h EXCEPT !.pc = "alert", !.wallets = Tail(@), !.seen = last,
                     !.todo = {a \in active : a.wallet = Head(h.wallets) /\ Fires(a, h.event)}]]
      /\ UNCHANGED <<last, active, copies, edits, told, owed, crowded, dropped>>

(* Mutant: the signature is not compared.                                  *)
NotToldMutant(h, a) == TRUE

NotTold(h, a) == h.seen[a] # h.event.signature

(* notifyUser stores the notification and delivers it; then the bot.       *)
NotifyUser(a, e) == told' = [told EXCEPT ![a] = Append(@, e)]

(* The next alert of the rows read, in the order the database gives.       *)
Notify(d) ==
  LET h == deliveries[d]
  IN  /\ h.pc = "alert"
      /\ \E a \in h.todo :
           IF NotTold(h, a)
             THEN /\ NotifyUser(a, h.event)
                  /\ deliveries' = [deliveries EXCEPT ![d].pc = "remember", ![d].alert = a, ![d].todo = @ \ {a}]
             ELSE /\ deliveries' = [deliveries EXCEPT ![d].todo = @ \ {a}]
                  /\ UNCHANGED told
      /\ UNCHANGED <<last, active, copies, edits, owed, crowded, dropped>>

(* updateLastChecked.                                                      *)
Remember(d) ==
  LET h == deliveries[d]
  IN  /\ h.pc = "remember"
      /\ last' = [last EXCEPT ![h.alert] = h.event.signature]
      /\ deliveries' = [deliveries EXCEPT ![d].pc = "alert", ![d].alert = "none"]
      /\ UNCHANGED <<active, copies, edits, told, owed, crowded, dropped>>

EndOfAlerts(d) ==
  /\ deliveries[d].pc = "alert" /\ deliveries[d].todo = {}
  /\ deliveries' = [deliveries EXCEPT ![d].pc = IF deliveries[d].wallets = <<>> THEN "done" ELSE "wallet"]
  /\ UNCHANGED <<last, active, copies, edits, told, owed, crowded, dropped>>

(* A query, or the notification, fails: the alerts left are not looked at. *)
HandlerFails(d) ==
  /\ d \in Handling
  /\ deliveries' = [deliveries EXCEPT ![d].pc = "done"]
  /\ dropped' = TRUE
  /\ UNCHANGED <<last, active, copies, edits, told, owed, crowded>>

(* update: the row is found, changed and saved with all its columns.  What *)
(* was delivered to an alert switched off need not be told.                *)
FindAlert(a) ==
  /\ copies[a] = {} /\ edits < MaxEdits
  /\ copies' = [copies EXCEPT ![a] = {last[a]}] /\ edits' = edits + 1
  /\ UNCHANGED <<last, active, deliveries, told, owed, crowded, dropped>>

SaveAlert(a, isActive) ==
  /\ \E s \in copies[a] : /\ last' = [last EXCEPT ![a] = s]
                         /\ crowded' = (crowded \/ s # last[a])
  /\ copies' = [copies EXCEPT ![a] = {}]
  /\ active' = IF isActive THEN active \cup {a} ELSE active \ {a}
  /\ owed' = IF isActive THEN owed ELSE [owed EXCEPT ![a] = {}]
  /\ UNCHANGED <<edits, deliveries, told, dropped>>

AlertStep ==
  \/ \E d \in 1..MaxDeliveries :
       \/ \E e \in Events : Handle(d, e)
       \/ ReadAlerts(d) \/ Notify(d) \/ Remember(d) \/ EndOfAlerts(d) \/ HandlerFails(d)
  \/ \E a \in Alerts : FindAlert(a) \/ \E isActive \in BOOLEAN : SaveAlert(a, isActive)

-------------------------------------------------------------------------------
(***************************************************************************)
(* Properties                                                              *)
(***************************************************************************)

Concerns(a, e) == Fires(a, e) /\ \E i \in DOMAIN e.wallets : e.wallets[i] = a.wallet

(* Unless a handler fails, an active alert that fires is told of every     *)
(* transaction with an event that concerns it, also when handlers overlap  *)
(* or an edit brings back an older signature; and unless they do, a        *)
(* transaction is told once in a row, even to a wallet that pays itself.   *)
(* (Of two events of one transaction the second is not told.)              *)
AlertsAreToldOnce ==
  Handling = {} /\ ~dropped =>
    \A a \in Alerts :
      /\ \A e \in owed[a] : Concerns(a, e) => \E i \in DOMAIN told[a] : told[a][i].signature = e.signature
      /\ crowded \/ \A i \in 2..Len(told[a]) : told[a][i].signature # told[a][i - 1].signature
===============================================================================
