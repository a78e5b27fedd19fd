---------------------------- MODULE AgentProperties ----------------------------
(***************************************************************************)
(* What the approval queue should guarantee.  The first group holds        *)
(* however requests overlap and wherever a worker is lost; the second      *)
(* group when requests are served one at a time and none is lost.          *)
(***************************************************************************)
EXTENDS AgentApproval, WorkOrderProperties

AskedOf(a) == approvals[a].asked
IsTransition(a) == AskedOf(a).tool = "work_orders.transition"

\* The work-order tables show what the request asked for: its action, or an order
\* of its project with the source and the rule its target and payload name.
Shown(a) ==
    IF IsTransition(a) THEN AskedOf(a).action \in Done(AskedOf(a).target)
    ELSE \E o \in OrderIds : /\ orders[o].status # "absent"
                             /\ SameColumns(CreateBody(AskedOf(a)), orders[o])

\* No agent request changes a work order unless a person approved it first,
\* whatever was decided about it meanwhile.
NoEffectUnapproved ==
    \A a \in ApprovalIds : effects[a] > 0 => approvals[a].approvedAt

\* A request marked executed did change a work order, in the way it asked.
ExecutedMeansEffect ==
    \A a \in ApprovalIds : approvals[a].status = "executed" => effects[a] > 0 /\ Shown(a)

\* Why: who serves a request has seen it in the status that allows it, and
\* approved_at, once set, stays.  (The inductive form of NoEffectUnapproved.)
ApprovalBacked ==
    /\ \A a \in ApprovalIds :
         /\ approvals[a].status = "approved" => approvals[a].approvedAt
         /\ effects[a] > 0 => approvals[a].status # "absent"
    /\ \A r \in Requests : agent[r] # NotServing =>
         /\ approvals[agent[r].approval].status # "absent"
         /\ agent[r].op = "execute" => approvals[agent[r].approval].approvedAt
    /\ NoEffectUnapproved

\* The queue adds nothing to what can happen to work orders: every step of it is
\* one that the ordinary endpoints, called by the executor, could have taken.
QueueEndpoints == Endpoints \cup {"execute", "work_orders"}
OnlyOrdinarySteps == [][NextOver(QueueEndpoints)]_vars

(***************************************************************************)
(* Requests that do not overlap, no faults                                 *)
(***************************************************************************)

\* An approval changes a work order at most once.
ExecutedAtMostOnce == \A a \in ApprovalIds : effects[a] <= 1

\* A request that was rejected or whose execution failed changed nothing.
RefusedMeansNoEffect ==
    \A a \in ApprovalIds :
        approvals[a].status \in {"rejected", "execution_failed"} => effects[a] = 0

\* A request is decided once and executed once; nothing reopens it.
LegalApprovalChanges ==
    [][\A a \in ApprovalIds : approvals'[a].status # approvals[a].status =>
          <<approvals[a].status, approvals'[a].status>> \in
             { <<"absent", "pending">>, <<"pending", "approved">>,
               <<"pending", "rejected">>, <<"approved", "executed">>,
               <<"approved", "execution_failed">> }]_approvals
=============================================================================
