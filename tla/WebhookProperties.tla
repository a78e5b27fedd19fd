---------------------------- MODULE WebhookProperties ----------------------------
(***************************************************************************)
(* What whoever reads the delivery log may conclude from it.               *)
(***************************************************************************)
EXTENDS WebhookDelivery

Delivering(r) == dispatch[r].at \in {"send", "finalize"}

\* The log keeps the promise of DeliveryLedger: an event is written down before it
\* is sent, sent at most once and settled at most once, and "success" means the
\* receiver took it, whatever times out, crashes or overlaps.
Ledger == INSTANCE DeliveryLedger WITH entry <- deliveryLog, received <- receiver
KeepsLedger == Ledger!LedgerSpec

\* A row is pending only while one request is delivering it, or because that
\* request was lost; and whatever a batch has gone past is settled.
PendingExplained ==
    /\ \A d \in Deliveries : deliveryLog[d] = "pending" =>
          \/ d \in abandoned
          \/ \E r \in Requests : Delivering(r) /\ dispatch[r].delivery = d
    /\ \A r, q \in Requests : Delivering(r) /\ Delivering(q) /\ r # q =>
          dispatch[r].delivery # dispatch[q].delivery
    /\ \A r \in Requests : ~ At(r, "free") =>
          \A d \in ToSet(dispatch[r].dispatched) : deliveryLog[d] \in {"success", "failed"}

\* Every delivery that was written down gets an outcome, unless its request is lost.
Settles ==
    \A d \in Deliveries :
        deliveryLog[d] = "pending" ~> deliveryLog[d] # "pending" \/ d \in abandoned
=============================================================================
