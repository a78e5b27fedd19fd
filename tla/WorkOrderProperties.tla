-------------------------- MODULE WorkOrderProperties --------------------------
(***************************************************************************)
(* What the work-order workflow should guarantee.  The first group holds   *)
(* however the requests interleave; the second group holds when the        *)
(* handlers do not overlap, and says what overlapping costs.               *)
(***************************************************************************)
EXTENDS WorkOrderFlow

Logged(o) == DOMAIN flowLog[o]
Done(o) == {flowLog[o][i].action : i \in Logged(o)}
Open(o) == orders[o].status \notin {"absent", "closed"}

(***************************************************************************)
(* Any interleaving                                                        *)
(***************************************************************************)

\* An order's status is the one its latest flow-log entry leads to; only an
\* escalation, which the code does not log, may stand in for it, and then the
\* escalation history says so.  (transition_work_order writes status and log in
\* one transaction; escalate_overdue_work_orders writes status and history.)
StatusExplained ==
    \A o \in OrderIds : orders[o].status # "absent" =>
        \/ /\ orders[o].status = "overdue_escalated"
           /\ orders[o].level > 0
        \/ orders[o].status = IF flowLog[o] = <<>> THEN "pending_confirm"
                              ELSE flowLog[o][Len(flowLog[o])].to

\* The action that must already be in an order's log when an action is.
Prior == [accept |-> "confirm", submit_result |-> "accept",
          review_pass |-> "submit_result", review_reject |-> "submit_result"]

\* No step of the rectification is skipped: dispatch, acceptance, evidence and
\* review are logged in that order, whatever overwrote whatever in between.
NoStepSkipped ==
    \A o \in OrderIds : \A i \in Logged(o) : flowLog[o][i].action \in DOMAIN Prior =>
        \E j \in 1..(i - 1) : flowLog[o][j].action = Prior[flowLog[o][i].action]

\* The actions a status stands for.
Needs == [absent |-> {}, pending_confirm |-> {}, rejected |-> {},
          dispatched |-> {"confirm"},
          processing |-> {"confirm", "accept"},
          overdue_escalated |-> {"confirm", "accept"},
          waiting_review |-> {"confirm", "accept", "submit_result"},
          closed |-> {"confirm", "accept", "submit_result", "review_pass"}]

Earned(o, status) == Needs[status] \subseteq Done(o)

\* What an open request read was true when it read it, and log entries are never
\* lost, so it is still earned when the request commits.
SessionEarned(s) ==
    /\ s.op = "transition" =>
         /\ <<s.row.status, s.action, s.to>> \in Transitions
         /\ Earned(s.order, s.row.status)
    /\ s.op = "review" =>
         /\ s.view.orders[s.order].status = "waiting_review"
         /\ Earned(s.order, "waiting_review")
    /\ s.op = "escalate" => \A o \in s.late : Earned(o, "processing")

\* With NoStepSkipped, its inductive form: every status, the ones stale requests
\* bring back included, is backed by the log.
StatusEarned ==
    /\ \A o \in OrderIds : Earned(o, orders[o].status)
    /\ \A r \in Requests : SessionEarned(session[r])
    /\ NoStepSkipped

\* A hazard is closed only if the review of an order made for it was passed
\* (_close_related_hazard has no other caller than review_pass).
HazardClosedByReview ==
    \A h \in HazardIds : hazards[h].status = "closed" =>
        \E o \in OrderIds : /\ hazards[h].order = o \/ orders[o].hazard = h
                            /\ "review_pass" \in Done(o)

\* A closed order leaves no open hazard behind, even when the order was created
\* by hand and the hazard still points to another order.
ClosedOrderClosesHazard ==
    \A o \in OrderIds : orders[o].status = "closed" /\ orders[o].hazard # None =>
        hazards[orders[o].hazard].status = "closed"

\* May the caller have done this to the order, by the project_user rows?  Who
\* accepts or submits belongs to the subcontractor the order names; the others
\* hold the role of the action in the order's project.
Entitled(c, action, order) ==
    LET rows == ProjectRole(c, order.project)
    IN  CASE action \in {"accept", "submit_result"} ->
               /\ order.sub \in Subs
               /\ \E m \in rows : order.sub \in {m.sub, c.sub}
          [] action = "confirm" -> rows # {} /\ c.role = "safety_director"
          [] action = "timeout" -> rows # {} /\ c.role = "system"
          [] OTHER -> rows # {} /\ c.role = "gc_safety_officer"

\* Everything in an order's log was done by somebody entitled to do it to the
\* order as it is now: between the check, on a view that may be stale, and the
\* write, nothing the check relied on changes.
ActorsEntitled ==
    \A o \in OrderIds : \A i \in Logged(o) :
        Entitled(flowLog[o][i].caller, flowLog[o][i].action, orders[o])

\* Whatever overlaps, the workflow implements the record of the rectification: steps
\* in their order, statuses only for what is on record, and a hazard closed in the
\* very step in which the review of an order made for it is passed, for good.
Record == INSTANCE RectificationRecord
            WITH Orders <- OrderIds, Hazards <- HazardIds,
                 shown  <- [o \in OrderIds |-> orders[o].status],
                 source <- [o \in OrderIds |-> orders[o].hazard],
                 done   <- [o \in OrderIds |-> Done(o)],
                 hazard <- [h \in HazardIds |-> hazards[h].status]
KeepsRecord == Record!RecordSpec

(***************************************************************************)
(* What the proofs of the group above rest on: stale or not, a view is of  *)
(* rows that still exist and still name what they named.                   *)
(***************************************************************************)

SameColumns(old, new) ==
    /\ old.project = new.project /\ old.sub = new.sub
    /\ old.hazard = new.hazard /\ old.rule = new.rule /\ old.own = new.own

\* Within one view of the tables: only inserted rows name anything, an order
\* names an inserted hazard, and a hazard and the order made with it name each
\* other.
Linked(v) ==
    /\ \A o \in OrderIds : v.orders[o].status = "absent" => v.orders[o] = NoOrder
    /\ \A h \in HazardIds : v.hazards[h].status = "absent" => v.hazards[h] = NoHazard
    /\ \A o \in OrderIds : v.orders[o].hazard # None =>
          v.hazards[v.orders[o].hazard].status # "absent"
    /\ \A h \in HazardIds : v.hazards[h].order # None =>
          /\ v.orders[v.hazards[h].order].hazard = h
          /\ v.orders[v.hazards[h].order].project = v.hazards[h].project

\* What a view saw that the tables still say: everything but the statuses, the
\* levels and the evidence, and that a hazard is closed.
StillTrue(v) ==
    /\ \A o \in OrderIds : v.orders[o].status # "absent" =>
          orders[o].status # "absent" /\ SameColumns(v.orders[o], orders[o])
    /\ \A h \in HazardIds : v.hazards[h].status # "absent" =>
          /\ hazards[h].status # "absent"
          /\ hazards[h].project = v.hazards[h].project /\ hazards[h].order = v.hazards[h].order
          /\ v.hazards[h].status = "closed" => hazards[h].status = "closed"

SessionStands(s) ==
    /\ s.op = "transition" =>
         /\ orders[s.order].status # "absent" /\ SameColumns(s.row, orders[s.order])
         /\ ActionAllowed(s.caller, s.row, s.action)
    /\ s.op = "review" =>
         /\ Linked(s.view) /\ StillTrue(s.view)
         /\ ActionAllowed(s.caller, s.view.orders[s.order], "review_pass")
    /\ s.op = "escalate" => \A o \in s.late : orders[o].status # "absent"

RowsStand ==
    /\ Linked(Current)
    /\ \A o \in OrderIds : orders[o].status = "absent" => flowLog[o] = <<>>
    /\ \A r \in Requests : SessionStands(session[r])

(***************************************************************************)
(* Handlers that do not overlap                                            *)
(***************************************************************************)

\* Statuses change only along the transition table; in particular a closed or
\* escalated order never moves again.
LegalStatusChanges ==
    [][\A o \in OrderIds : orders'[o].status # orders[o].status =>
          \/ orders[o].status = "absent"
          \/ \E a \in Actions :
               <<orders[o].status, a, orders'[o].status>> \in Transitions]_orders

\* The flow log of an order is one path: each entry starts where the previous
\* one ended.
LogIsOnePath ==
    \A o \in OrderIds : \A i \in Logged(o) :
        i > 1 => flowLog[o][i].from = flowLog[o][i - 1].to

\* A hazard is closed exactly when an order made for it is.
HazardFollowsOrder ==
    \A h \in HazardIds : hazards[h].status # "absent" =>
        (hazards[h].status = "closed" <=>
           \E o \in OrderIds : orders[o].hazard = h /\ orders[o].status = "closed")

\* Every rectification image that was accepted is still on the order.
EvidenceKept ==
    \A o \in OrderIds :
        orders[o].evidence =
            Cardinality({i \in Logged(o) : flowLog[o][i].action = "submit_result"})

\* An order that a recalculation makes for a rule is the only open one made for
\* that rule and project, whoever made the others: what is posted by hand (it
\* leaves the sessions as they are) may repeat an open order, a recalculation
\* may not.
NoDuplicateRuleOrder ==
    [][session' # session =>
         \A o, q \in OrderIds :
            /\ o # q /\ orders[o].status = "absent" /\ Open(o)' /\ Open(q)'
            /\ orders'[q].rule = orders'[o].rule
            /\ orders'[q].project = orders'[o].project
            => ~ orders'[q].own]_vars

\* The stored profile never counts more overdue hazards than are open: closing
\* recalculates in the same transaction.  (An order whose source hazard lies in
\* another project recalculates only its own.)
ProfileNotOverstated ==
    (\A o \in OrderIds : orders[o].hazard # None =>
        hazards[orders[o].hazard].project = orders[o].project)
    => \A p \in Projects, row \in UNION {profiles[q] : q \in Projects} :
          row \in profiles[p] => row[1] <= Cardinality(Overdue(hazards, p))
=============================================================================
