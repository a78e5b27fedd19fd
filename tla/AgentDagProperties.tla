--------------------------- MODULE AgentDagProperties ---------------------------
(***************************************************************************)
(* What an agent run may do, and what its record says afterwards.          *)
(***************************************************************************)
EXTENDS AgentDag

StepStatuses == {"dry_run_passed", "executed", "approval_required", "blocked", "skipped"}
\* A step of ask a ended in status s without doing what it may not.
Harmless(a, step, s) ==
    s = "executed" =>
        /\ a.mode = "controlled_execute"
        /\ ~ Restricted(a) /\ ProjectAllowed(a)
        /\ step.kind = "draft" \/ ToolName(step.tool) \in ReadTools

\* Nothing but read-only tools and drafts is ever executed, and not even those
\* in a dry run, for a restricted wish or outside the caller's projects.
OnlyReadsExecuted ==
    /\ request # NoAsk => \A i \in DOMAIN results : Harmless(request, plan[i], results[i])
    /\ run # NoRun => \A i \in DOMAIN run.steps : Harmless(run.ask, run.plan[i], run.steps[i])

\* Planner, registry and executor together keep the contract of the endpoint: for
\* every message and context the committed run has the status the ask deserves, and
\* the queue gets the write the run waits for in that same commit, or nothing.
Contract == INSTANCE AskContract WITH
    asked <- IF request = NoAsk THEN None
             ELSE [mode |-> request.mode, tool |-> WriteTool(request),
                   forbidden |-> Restricted(request) \/ ~ ProjectAllowed(request)],
    answer <- run.status,
    waiting <- {q.tool : q \in queue}
KeepsContract == Contract!ContractSpec

\* No ask is None.
ASSUME AskAssumption == None \notin Contract!AskKinds

\* A run that waits for a person, because of its words or of a write, has a step
\* marked for human review.
ReviewRequested ==
    run # NoRun /\ (run.review \/ run.status = "approval_required") =>
        \E i \in DOMAIN run.plan : run.plan[i].review
=============================================================================
