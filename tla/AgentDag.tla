-------------------------------- MODULE AgentDag --------------------------------
(***************************************************************************)
(* One POST /agent/ask in a plan-executing mode: the router classifies the *)
(* message by keywords and plans a short chain of steps, the executor      *)
(* evaluates them one by one against the tool registry, and run, steps and *)
(* approval requests are committed together at the end.  Text is abstract: *)
(* a message is the set of keyword classes it hits.  AgentApproval takes   *)
(* over where this module ends, with the pending requests of the queue.    *)
(***************************************************************************)
EXTENDS Backend, Functions

CONSTANTS
    Users,      \* callers: [scoped, projects]; company users are not scoped
    Projects,   \* projects a context may name
    Hazards,    \* hazards a context may name
    OrderNames  \* work orders a context may name

ASSUME DagAssumption ==
    /\ None \notin Projects \cup Hazards \cup OrderNames
    /\ \A u \in Users : u.scoped \in BOOLEAN /\ u.projects \subseteq Projects

VARIABLES
    request,    \* the ask being served
    plan,       \* its planned_steps
    results,    \* statuses of the steps evaluated so far
    flushed,    \* approval requests inserted in the open transaction
    run,        \* the committed agent_dag_run with its steps
    queue       \* the committed agent_approval_request rows

dagVars == <<request, plan, results, flushed, run, queue>>

KeywordClasses == {"hazard", "order", "rule", "query", "profile", "create", "restricted"}
\* hazard and source: context.hazard_id, and context.source_id of a hazard;
\* action: whether context.action holds one of the workflow's verbs.
Asks == [mode : {"dry_run", "controlled_execute"}, user : Users, words : SUBSET KeywordClasses,
         project : Projects \cup {None}, hazard : Hazards \cup {None},
         source : Hazards \cup {None}, order : OrderNames \cup {None},
         action : BOOLEAN, propose : BOOLEAN]
NoAsk == [mode |-> "none"]
-----------------------------------------------------------------------------
(* The router *)

\* _classify_message: the first class that matches decides, except that a
\* hazard in the context comes before everything.
ClassOrder == <<"order", "rule", "hazard", "query", "profile">>
AgentOf == [order |-> "work_order_coordinator", rule |-> "rule_compliance_checker",
            hazard |-> "hazard_rectification_advisor", query |-> "nl2sql_analyst",
            profile |-> "risk_profile_analyst"]
Agent(a) ==
    LET Hit(i) == ClassOrder[i] \in a.words
    IN  IF a.hazard # None /\ "hazard" \in a.words THEN AgentOf["hazard"]
        ELSE IF \A i \in DOMAIN ClassOrder : ~ Hit(i) THEN "safety_supervisor"
        ELSE AgentOf[ClassOrder[CHOOSE i \in DOMAIN ClassOrder :
                                    Hit(i) /\ \A j \in 1..(i - 1) : ~ Hit(j)]]

Restricted(a) == "restricted" \in a.words

\* _planned_step; step i is what step_i of the plan depends on.
Step(kind, tool, deps, review) ==
    [kind |-> kind, tool |-> tool, deps |-> deps, review |-> review]

\* The steps of each agent after step_1, which routes.
Branch(agent, review) ==
    LET ReadThenExplain(tool) ==
            << Step("tool", tool, {1}, FALSE), Step("explain", None, {2}, review) >>
    IN  [nl2sql_analyst |->
            << Step("tool", "metrics.read_catalog", {1}, FALSE),
               Step("tool", "POST /api/v1/agent/nl2sql", {2}, review) >>,
         hazard_rectification_advisor |->
            << Step("tool", "hazards.read", {1}, FALSE),
               Step("tool", "knowledge.search", {2}, FALSE),
               Step("draft", None, {2, 3}, review) >>,
         work_order_coordinator |-> ReadThenExplain("work_orders.read"),
         rule_compliance_checker |-> ReadThenExplain("rules.read_triggers"),
         risk_profile_analyst |-> ReadThenExplain("profile.read"),
         safety_supervisor |-> << Step("explain", None, {1}, review) >>][agent]

\* _needs_hazard_work_order_proposal and _needs_work_order_transition_approval.
WriteTool(a) ==
    IF /\ Agent(a) = "hazard_rectification_advisor"
       /\ a.propose \/ a.words \cap {"create"} # {}
    THEN "work_orders.create"
    ELSE IF Agent(a) = "work_order_coordinator" /\ a.order # None /\ a.action
    THEN "work_orders.transition"
    ELSE None

WithWriteMutReview(a, steps) ==       \* nobody is asked to review the write
    IF WriteTool(a) = None THEN steps
    ELSE Append(steps, Step("tool", WriteTool(a), {Len(steps)}, FALSE))

WithWrite(a, steps) ==
    IF WriteTool(a) = None THEN steps
    ELSE Append(steps, Step("tool", WriteTool(a), {Len(steps)}, TRUE))

\* _build_planned_steps: a restricted ask ends in a review by a person.
Plan(a) ==
    LET steps == WithWrite(a, << Step("route", None, {}, FALSE) >>
                              \o Branch(Agent(a), Restricted(a)))
    IN  IF Restricted(a) /\ \A i \in DOMAIN steps : ~ steps[i].review
        THEN Append(steps, Step("explain", None, {Len(steps)}, TRUE))
        ELSE steps
-----------------------------------------------------------------------------
(* The tool registry *)

ReadTools == {"profile.read", "rules.read_triggers", "work_orders.read", "hazards.read",
              "metrics.read_catalog", "nl2sql.audit_only", "nl2sql.readonly_execute",
              "cases.read", "knowledge.search", "graph.read_neighbors", "memory.read_context"}
WriteTools == {"work_orders.create", "work_orders.dispatch", "work_orders.transition",
               "hazards.create"}

ToolNameMutSame(tool) == tool         \* the registry has no endpoint names

\* _tool_name
ToolName(tool) ==
    IF tool = "POST /api/v1/agent/nl2sql" THEN "nl2sql.audit_only" ELSE tool

\* assert_project_access and _project_access_reason
ProjectAllowed(a) ==
    a.project = None \/ ~ a.user.scoped \/ a.user.projects = {} \/ a.project \in a.user.projects

ToolStatusMutWrites(a, tool) ==       \* write tools are treated as reads
    IF tool \notin ReadTools \cup WriteTools \/ ~ ProjectAllowed(a) THEN "blocked"
    ELSE IF a.mode = "dry_run" THEN "dry_run_passed" ELSE "executed"

\* evaluate_tool_access, and what the executor makes of its answer: a tool that
\* is ready is executed in controlled_execute; an unknown tool and the restricted
\* ones (penalty.create, stop_work.issue, subcontractor.remove) are blocked.
ToolStatus(a, tool) ==
    IF tool \notin ReadTools \cup WriteTools \/ ~ ProjectAllowed(a) THEN "blocked"
    ELSE IF tool \in WriteTools THEN "approval_required"
    ELSE IF a.mode = "dry_run" THEN "dry_run_passed" ELSE "executed"
-----------------------------------------------------------------------------
(* The executor *)

\* _global_block_reason
GlobalBlock(a) == Restricted(a) \/ ~ ProjectAllowed(a)

\* The status of the next step of ask a when the earlier ones ended in rs.
StepStatus(a, step, rs) ==
    IF \E d \in step.deps : rs[d] \in {"blocked", "failed", "approval_required", "skipped"}
    THEN "skipped"
    ELSE IF GlobalBlock(a) THEN "blocked"
    ELSE CASE step.kind = "draft" ->
                IF a.mode = "controlled_execute" THEN "executed" ELSE "dry_run_passed"
           [] step.kind # "draft" /\ step.tool # None -> ToolStatus(a, ToolName(step.tool))
           [] OTHER -> "dry_run_passed"

\* _target_from_context.  proposal is the hazard of the drafted work order, if
\* the draft made one; a create request that no hazard is known for is queued
\* with a work-order target that its execution refuses.
Target(a, proposal) ==
    LET hazard == IF a.hazard # None THEN a.hazard
                  ELSE IF a.source # None THEN a.source ELSE proposal
    IN  IF WriteTool(a) = "work_orders.create" /\ hazard # None
        THEN <<"hazard", hazard>> ELSE <<"work_order", a.order>>

\* _run_status
RunStatus(a, rs) ==
    IF GlobalBlock(a) \/ "blocked" \in Range(rs) THEN "blocked"
    ELSE IF "approval_required" \in Range(rs) THEN "approval_required"
    ELSE IF a.mode = "dry_run" THEN "dry_run_passed"
    ELSE IF Range(rs) \subseteq {"executed", "dry_run_passed"} THEN "succeeded" ELSE "failed"
-----------------------------------------------------------------------------
NoRun == [status |-> "none"]

DagInit ==
    /\ request = NoAsk /\ plan = <<>> /\ results = <<>> /\ flushed = {}
    /\ run = NoRun /\ queue = {}

Receive ==
    /\ request = NoAsk /\ run = NoRun
    /\ request' \in Asks /\ plan' = Plan(request')
    /\ UNCHANGED <<results, flushed, run, queue>>

\* A hazard without an order, found in the caller's scope, may be drafted a
\* work order when the context proposes one.
Proposals(a) ==
    {None} \cup (IF ~ a.propose THEN {} ELSE IF a.hazard # None THEN {a.hazard} ELSE Hazards)

\* One iteration of _evaluate_steps.
EvaluateStep(proposal) ==
    LET step == plan[Len(results) + 1]
        status == StepStatus(request, step, results)
    IN  /\ request # NoAsk /\ Len(results) < Len(plan)
        /\ results' = Append(results, status)
        /\ flushed' = IF status = "approval_required" /\ request.mode = "controlled_execute"
                      THEN flushed \cup {[tool |-> step.tool, project |-> request.project,
                                          target |-> Target(request, proposal)]}
                      ELSE flushed
        /\ UNCHANGED <<request, plan, run, queue>>

\* The one COMMIT of execute_agent_dag.
CommitRun ==
    /\ request # NoAsk /\ Len(results) = Len(plan)
    /\ run' = [status |-> RunStatus(request, results), ask |-> request,
               plan |-> plan, steps |-> results,
               review |-> Restricted(request), blocked |-> GlobalBlock(request)]
    /\ queue' = queue \cup flushed
    /\ request' = NoAsk /\ plan' = <<>> /\ results' = <<>> /\ flushed' = {}

FailAskMutKeep ==                     \* the session is reused without a rollback
    /\ request # NoAsk
    /\ request' = NoAsk /\ plan' = <<>> /\ results' = <<>>
    /\ UNCHANGED <<flushed, run, queue>>

\* A tool raises, the worker or the connection is lost: nothing is committed.
FailAsk ==
    /\ request # NoAsk
    /\ request' = NoAsk /\ plan' = <<>> /\ results' = <<>> /\ flushed' = {}
    /\ UNCHANGED <<run, queue>>

DagNext ==
    \/ Receive
    \/ request # NoAsk /\ \E proposal \in Proposals(request) : EvaluateStep(proposal)
    \/ CommitRun
    \/ FailAsk

DagSpec == DagInit /\ [][DagNext]_dagVars
=============================================================================
