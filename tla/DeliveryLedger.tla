----------------------------- MODULE DeliveryLedger -----------------------------
(***************************************************************************)
(* What the webhook delivery log promises its readers, without requests,   *)
(* batches or failures: an event is written down before it is sent, sent   *)
(* at most once, and given an outcome at most once; "success" only when    *)
(* the receiver took it.  WebhookDelivery implements this module.          *)
(***************************************************************************)
CONSTANT Deliveries     \* primary keys of webhook_delivery_log

VARIABLES
    entry,      \* what the log says of a delivery
    received    \* what the receiver did with it

ledgerVars == <<entry, received>>

Verdicts == {"lost", "refused", "accepted"}

LedgerInit ==
    /\ entry = [d \in Deliveries |-> "absent"]
    /\ received = [d \in Deliveries |-> "unsent"]

WriteDown(d) ==
    /\ entry[d] = "absent"
    /\ entry' = [entry EXCEPT ![d] = "pending"]
    /\ UNCHANGED received

SendOnce(d) ==
    /\ entry[d] = "pending" /\ received[d] = "unsent"
    /\ \E v \in Verdicts : received' = [received EXCEPT ![d] = v]
    /\ UNCHANGED entry

\* "failed" may be said of an event the receiver accepted: its answer was late.
Settle(d) ==
    /\ entry[d] = "pending" /\ received[d] # "unsent"
    /\ \/ entry' = [entry EXCEPT ![d] = "failed"]
       \/ received[d] = "accepted" /\ entry' = [entry EXCEPT ![d] = "success"]
    /\ UNCHANGED received

LedgerNext == \E d \in Deliveries : WriteDown(d) \/ SendOnce(d) \/ Settle(d)

LedgerSpec == LedgerInit /\ [][LedgerNext]_ledgerVars
=============================================================================
