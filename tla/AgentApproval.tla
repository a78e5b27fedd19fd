----------------------------- MODULE AgentApproval -----------------------------
(***************************************************************************)
(* The agent approval queue on top of the work-order workflow.             *)
(*                                                                         *)
(* An agent run in controlled_execute mode never writes: a write tool at   *)
(* the end of its plan becomes a pending approval request.  A person       *)
(* decides it, and a person executes it: the endpoint calls the ordinary   *)
(* handler (create_work_order or transition_work_order), which COMMITs on  *)
(* its own, and marks the request executed in a second transaction of the  *)
(* same database session; a failed handler is rolled back and the request  *)
(* is marked execution_failed the same way.                                *)
(*                                                                         *)
(* A request r of WorkOrderFlow that serves an approval endpoint has       *)
(* agent[r] busy; session[r] is its work-order transaction.                *)
(***************************************************************************)
EXTENDS WorkOrderFlow

CONSTANTS
    ApprovalIds,    \* primary keys available to agent_approval_request (bound)
    Approvers,      \* callers with the permission agent.approve
    CompanyWide,    \* callers whose scope is the company, not a list of projects
    Asks,           \* what is asked for in this instance (bound)
    Faults          \* whether connections and workers may be lost

ASSUME ApprovalAssumption ==
    /\ Approvers \subseteq Callers
    /\ CompanyWide \subseteq Callers /\ \A c \in CompanyWide : c.scope = Projects
    /\ HazardIds \cap {"target", "project", "other"} = {}
    /\ Faults \in BOOLEAN
    /\ "execute" \notin Endpoints    \* the execute endpoint is modelled here

VARIABLES
    approvals,  \* agent_approval_request
    agent,      \* the approval endpoint each open request is serving
    effects     \* history: how often each approval changed a work order

agentVars == <<approvals, agent, effects>>
allVars == <<vars, agentVars>>

Decisions == {"approved", "rejected"}

\* The tools whose last planned step asks for approval (see AgentDag), with the
\* target that _target_from_context stores: NULL is a create request for which no
\* hazard is known.  Of the payload, what an execution reads: the project (which
\* the context need not name), the rule_id, and in source what source_type and
\* source_id override the target with: nothing, another hazard, the project
\* itself, or anything else.  approvedAt says whether approved_at is set.
Asked == [tool : {"work_orders.create"}, target : HazardIds \cup {None}, action : {None},
          project : Projects \cup {None}, rule : Rules \cup {None},
          source : HazardIds \cup {"target", "project", "other"}]
         \cup [tool : {"work_orders.transition"}, target : OrderIds,
               action : Actions \ {"timeout"}, project : Projects \cup {None},
               rule : {None}, source : {"target"}]
ASSUME AsksAssumption == Asks \subseteq Asked
ApprovalRow == [status : {"pending", "executed", "execution_failed"} \cup Decisions,
                asked : Asked, approvedAt : BOOLEAN]
NoApproval == [status |-> "absent"]

\* The UPDATE of a decision or of an execution's outcome.
Marked(row, status) ==
    [status |-> status, asked |-> row.asked,
     approvedAt |-> row.approvedAt \/ status = "approved"]

\* A decision that was checked and not yet written, or an execution: running
\* its work-order handler, or about to record the outcome.
NotServing == [op |-> "none"]
Serving ==
    {NotServing}
    \cup [op : {"decide"}, approval : ApprovalIds, decision : Decisions]
    \cup [op : {"execute"}, approval : ApprovalIds, phase : {"running", "done", "failed"}]

AgentTypeOK ==
    /\ TypeOK
    /\ approvals \in [ApprovalIds -> ApprovalRow \cup {NoApproval}]
    /\ agent \in [Requests -> Serving]
    /\ effects \in [ApprovalIds -> Nat]

AgentInit ==
    /\ Init
    /\ approvals = [a \in ApprovalIds |-> NoApproval]
    /\ agent = [r \in Requests |-> NotServing]
    /\ effects = [a \in ApprovalIds |-> 0]

Serve(r, s) == agent' = [agent EXCEPT ![r] = s]
Execution(a, phase) == [op |-> "execute", approval |-> a, phase |-> phase]
Executing(r, phase) == agent[r].op = "execute" /\ agent[r].phase = phase

\* get_approval_request: the rows in the caller's data scope.  A row without a
\* project is in no list of projects.
Visible(c, a) ==
    /\ approvals[a].status # "absent"
    /\ \/ approvals[a].asked.project \in c.scope
       \/ approvals[a].asked.project = None /\ c \in CompanyWide

\* The WorkOrderCreate that _execute_work_order_create builds from the payload.
CreateBody(asked) ==
    [project |-> asked.project, sub |-> None, rule |-> asked.rule,
     hazard |-> IF asked.source = "target" THEN asked.target
                ELSE IF asked.source \in HazardIds THEN asked.source ELSE None,
     own |-> asked.source = "project" /\ asked.project # None /\ asked.rule # None]
-----------------------------------------------------------------------------
\* POST /agent/ask with controlled_execute: one transaction that only inserts.
\* Target and payload are what the caller's context names; nothing looks them up
\* (an id that no hazard has is another source).  Whoever names no project may ask.
Ask(c, a, asked) ==
    /\ approvals[a].status = "absent"
    /\ asked.project # None => asked.project \in c.scope
    /\ asked.tool = "work_orders.create" /\ CreateBody(asked).hazard # None =>
         hazards[CreateBody(asked).hazard].status # "absent"
    /\ approvals' = [approvals EXCEPT ![a] =
         [status |-> "pending", asked |-> asked, approvedAt |-> FALSE]]
    /\ UNCHANGED <<vars, agent, effects>>

BeginDecideMutAny(r, c, a, decision) ==   \* no check of the status
    /\ agent[r] = NotServing /\ session[r] = Idle
    /\ Visible(c, a)
    /\ Serve(r, [op |-> "decide", approval |-> a, decision |-> decision])
    /\ UNCHANGED <<vars, approvals, effects>>

\* POST /agent/approvals/{a}/approve and /reject: check on the view, then write.
BeginDecide(r, c, a, decision) ==
    /\ agent[r] = NotServing /\ session[r] = Idle
    /\ Visible(c, a)
    /\ approvals[a].status = "pending"
    /\ Serve(r, [op |-> "decide", approval |-> a, decision |-> decision])
    /\ UNCHANGED <<vars, approvals, effects>>

CommitDecide(r) ==
    LET d == agent[r]
    IN  /\ d.op = "decide"
        /\ approvals' = [approvals EXCEPT ![d.approval] = Marked(@, d.decision)]
        /\ Serve(r, NotServing)
        /\ UNCHANGED <<vars, effects>>
-----------------------------------------------------------------------------
(* POST /agent/approvals/{a}/execute *)

ExecutableMutUndecided(r, c, a) ==    \* whatever was not rejected or executed
    /\ agent[r] = NotServing /\ session[r] = Idle
    /\ Visible(c, a)
    /\ approvals[a].status \in {"pending", "approved"}

ExecutableMutRepeat(r, c, a) ==       \* an executed request runs again
    /\ agent[r] = NotServing /\ session[r] = Idle
    /\ Visible(c, a)
    /\ approvals[a].status \in {"approved", "executed"}

Executable(r, c, a) ==
    /\ agent[r] = NotServing /\ session[r] = Idle
    /\ Visible(c, a)
    /\ approvals[a].status = "approved"

\* transition_work_order up to its COMMIT, as the executor and on the view the
\* approval was read from.
BeginExecute(r, c, a) ==
    LET asked == approvals[a].asked
    IN  /\ Executable(r, c, a)
        /\ asked.tool = "work_orders.transition"
        /\ \/ /\ asked.action = "review_pass"
              /\ BeginReviewPass(r, "execute", c, asked.target)
           \/ \E t \in Transitions :
              /\ t[2] = asked.action
              /\ BeginTransition(r, "execute", c, asked.target, t)
        /\ Serve(r, Execution(a, "running"))
        /\ UNCHANGED <<approvals, effects>>

\* transition_work_order or create_work_order refused: the order is missing or
\* out of scope, the role or status does not fit, the payload lacks its image; the
\* target is no hazard, whatever the source, or the project is missing.
Refused(c, asked) ==
    \/ /\ asked.tool = "work_orders.transition"
       /\ \/ ~ ActionAllowed(c, orders[asked.target], asked.action)
          \/ ~ ValidPayload("execute", asked.action)
    \/ /\ asked.tool = "work_orders.create"
       /\ asked.target = None \/ asked.project \notin c.scope

RefuseExecute(r, c, a) ==
    /\ Executable(r, c, a)
    /\ Refused(c, approvals[a].asked)
    /\ Serve(r, Execution(a, "failed"))
    /\ UNCHANGED <<vars, approvals, effects>>

\* create_work_order commits at once; the order has no subcontractor.
ExecuteCreate(r, c, a, o) ==
    LET asked == approvals[a].asked
    IN  /\ Executable(r, c, a)
        /\ asked.tool = "work_orders.create" /\ asked.target # None /\ asked.project # None
        /\ CreateWorkOrder(c, o, CreateBody(asked))
        /\ Serve(r, Execution(a, "done"))
        /\ effects' = [effects EXCEPT ![a] = @ + 1]
        /\ UNCHANGED approvals

\* The COMMIT of transition_work_order.
CommitExecute(r) ==
    /\ Executing(r, "running")
    /\ CommitTransition(r) \/ CommitReviewPass(r)
    /\ Serve(r, [agent[r] EXCEPT !.phase = "done"])
    /\ effects' = [effects EXCEPT ![agent[r].approval] = @ + 1]
    /\ UNCHANGED approvals

FailExecuteMutNoRollback(r) ==        \* the changed row is committed with the mark
    /\ Executing(r, "running") /\ session[r].op = "transition"
    /\ orders' = [orders EXCEPT ![session[r].order].status = session[r].to]
    /\ session' = [session EXCEPT ![r] = Idle]
    /\ Serve(r, [agent[r] EXCEPT !.phase = "failed"])
    /\ UNCHANGED <<hazards, flowLog, profiles, approvals, effects>>

\* An exception before that COMMIT: db.rollback().
FailExecute(r) ==
    /\ Executing(r, "running")
    /\ Abort(r)
    /\ Serve(r, [agent[r] EXCEPT !.phase = "failed"])
    /\ UNCHANGED <<approvals, effects>>

\* The exception comes after it: the connection is lost before the refresh of
\* the committed order, inside the same try block.
LateFailure(r) ==
    /\ Faults
    /\ Executing(r, "done")
    /\ Serve(r, [agent[r] EXCEPT !.phase = "failed"])
    /\ UNCHANGED <<vars, approvals, effects>>

RecordExecutionMutAlways(r) ==        \* the failure is not told apart
    /\ Executing(r, "done") \/ Executing(r, "failed")
    /\ approvals' = [approvals EXCEPT ![agent[r].approval] = Marked(@, "executed")]
    /\ Serve(r, NotServing)
    /\ UNCHANGED <<vars, effects>>

\* The second transaction: the row is read again and overwritten whatever its
\* status.  Reading and writing are one step here: the other outcome of a
\* second writer in between is the one it gives before or after this step.
RecordExecution(r) ==
    /\ Executing(r, "done") \/ Executing(r, "failed")
    /\ approvals' = [approvals EXCEPT ![agent[r].approval] =
         Marked(@, IF Executing(r, "done") THEN "executed" ELSE "execution_failed")]
    /\ Serve(r, NotServing)
    /\ UNCHANGED <<vars, effects>>

\* A decision that fails before COMMIT, or a worker lost at any point: what is
\* not committed is rolled back and nobody resumes the request.
LoseRequest(r) ==
    /\ agent[r].op = "decide" \/ (Faults /\ agent[r].op = "execute")
    /\ Serve(r, NotServing)
    /\ session' = [session EXCEPT ![r] = Idle]
    /\ UNCHANGED <<orders, hazards, flowLog, profiles, approvals, effects>>
-----------------------------------------------------------------------------
WorkOrderStep ==
    /\ \E r \in Requests :
         /\ agent[r] = NotServing
         /\ \/ session[r] = Idle /\ Insert(Endpoints)
            \/ Begin(Endpoints, r) \/ Commit(r) \/ Abort(r)
    /\ UNCHANGED agentVars

ServeRequest(r) ==
    \/ \E c \in Approvers, a \in ApprovalIds :
         \/ \E d \in Decisions : BeginDecide(r, c, a, d)
         \/ BeginExecute(r, c, a)
         \/ RefuseExecute(r, c, a)
         \/ \E o \in OrderIds : ExecuteCreate(r, c, a, o)
    \/ CommitDecide(r)
    \/ CommitExecute(r)
    \/ FailExecute(r)
    \/ LateFailure(r)
    \/ RecordExecution(r)
    \/ LoseRequest(r)

AgentNext ==
    \/ WorkOrderStep
    \/ \E c \in Callers, a \in ApprovalIds, asked \in Asks : Ask(c, a, asked)
    \/ \E r \in Requests : ServeRequest(r)

AgentSpec == AgentInit /\ [][AgentNext]_allVars
=============================================================================
