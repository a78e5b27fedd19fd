-------------------------- MODULE RectificationRecord --------------------------
(***************************************************************************)
(* What work orders and hazards tell their readers, without requests,      *)
(* views or transactions.  Every order has the record of the steps that    *)
(* were taken: no step comes before the one it needs, and a status is      *)
(* shown only for what is on record.  A hazard closes with the passed      *)
(* review of an order that was made for it, in the same step, and stays    *)
(* closed.  WorkOrderFlow implements this module.                          *)
(***************************************************************************)
CONSTANTS Orders, Hazards, None

VARIABLES
    shown,      \* the status of an order; "absent": it was never made
    source,     \* the hazard an order was made for
    done,       \* the steps on its record
    hazard      \* "absent", "open" or "closed"

recordVars == <<shown, source, done, hazard>>

\* What has to be on record before a step, and the status that the step leads to.
\* Steps may come again, after a rejection or out of a view that was stale.
Needed == [confirm |-> {}, accept |-> {"confirm"}, submit_result |-> {"accept"},
           review_reject |-> {"submit_result"}, review_pass |-> {"submit_result"},
           timeout |-> {"accept"}]
LeadsTo == [confirm |-> "dispatched", accept |-> "processing", submit_result |-> "waiting_review",
            review_reject |-> "processing", review_pass |-> "closed", timeout |-> "overdue_escalated"]

RecordInit ==
    /\ shown = [o \in Orders |-> "absent"]
    /\ source = [o \in Orders |-> None]
    /\ done = [o \in Orders |-> {}]
    /\ hazard = [h \in Hazards |-> "absent"]

\* Orders are new once.
New(os) == [o \in Orders |-> IF o \in os THEN "pending_confirm" ELSE shown[o]]

Report(o, h) ==
    /\ shown[o] = "absent" /\ hazard[h] = "absent"
    /\ shown' = New({o})
    /\ source' = [source EXCEPT ![o] = h]
    /\ done' = [done EXCEPT ![o] = {"create"}]
    /\ hazard' = [hazard EXCEPT ![h] = "open"]

MakeOrder(o, h) ==
    /\ shown[o] = "absent" /\ (h # None => hazard[h] # "absent")
    /\ shown' = New({o})
    /\ source' = [source EXCEPT ![o] = h]
    /\ UNCHANGED <<done, hazard>>

MakeRuleOrders(os) ==
    /\ \A o \in os : shown[o] = "absent"
    /\ shown' = New(os)
    /\ UNCHANGED <<source, done, hazard>>

TakeStep(o, step) ==
    /\ shown[o] # "absent" /\ Needed[step] \subseteq done[o]
    /\ shown' = [shown EXCEPT ![o] = LeadsTo[step]]
    /\ done' = [done EXCEPT ![o] = @ \cup {step}]
    /\ UNCHANGED <<source, hazard>>

\* The review is passed, the hazard closed, and rules may fire new orders, at once.
PassReview(o, os) ==
    /\ shown[o] # "absent" /\ Needed["review_pass"] \subseteq done[o]
    /\ \A n \in os : shown[n] = "absent"
    /\ shown' = [New(os) EXCEPT ![o] = LeadsTo["review_pass"]]
    /\ done' = [done EXCEPT ![o] = @ \cup {"review_pass"}]
    /\ hazard' = [h \in Hazards |-> IF h = source[o] THEN "closed" ELSE hazard[h]]
    /\ UNCHANGED source

\* An escalation is shown and leaves no record.
Escalate(late) ==
    /\ \A o \in late : shown[o] # "absent" /\ "accept" \in done[o]
    /\ shown' = [o \in Orders |-> IF o \in late THEN "overdue_escalated" ELSE shown[o]]
    /\ UNCHANGED <<source, done, hazard>>

RecordNext ==
    \/ \E o \in Orders, h \in Hazards : Report(o, h)
    \/ \E o \in Orders, h \in Hazards \cup {None} : MakeOrder(o, h)
    \/ \E os \in SUBSET Orders : MakeRuleOrders(os) \/ Escalate(os)
    \/ \E o \in Orders, step \in DOMAIN Needed \ {"review_pass"} : TakeStep(o, step)
    \/ \E o \in Orders, os \in SUBSET Orders : PassReview(o, os)

RecordSpec == RecordInit /\ [][RecordNext]_recordVars
=============================================================================
