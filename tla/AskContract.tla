------------------------------- MODULE AskContract -------------------------------
(***************************************************************************)
(* What POST /agent/ask promises its caller in a plan-executing mode,      *)
(* whatever plan it makes: one answer, whose status follows from what was  *)
(* asked, and in the approval queue, in the same step, the write that the  *)
(* answer says is waiting, and nothing else.                               *)
(***************************************************************************)
CONSTANTS
    WriteTools,     \* tools that change data
    None            \* no write, or no ask

\* tool is the write that is asked for; forbidden covers a restricted wish and a
\* project outside the caller's scope.
AskKinds == [mode : {"dry_run", "controlled_execute"}, forbidden : BOOLEAN, tool : WriteTools \cup {None}]
NoAnswer == "none"

VARIABLES
    asked,          \* the ask being served
    answer,         \* the status the caller was given
    waiting         \* writes in the approval queue

contractVars == <<asked, answer, waiting>>

Deserved(a) ==
    IF a.forbidden THEN "blocked"
    ELSE IF a.tool # None THEN "approval_required"
    ELSE IF a.mode = "dry_run" THEN "dry_run_passed" ELSE "succeeded"
Queued(a) ==
    IF ~ a.forbidden /\ a.mode = "controlled_execute" THEN {a.tool} \ {None} ELSE {}

ContractInit == asked = None /\ answer = NoAnswer /\ waiting = {}

Ask(a) ==
    /\ asked = None /\ answer = NoAnswer
    /\ asked' = a
    /\ UNCHANGED <<answer, waiting>>

Answer ==
    /\ asked # None
    /\ asked' = None
    /\ answer' = Deserved(asked) /\ waiting' = Queued(asked)

\* The caller gets an error and nothing is queued.
GiveUp ==
    /\ asked # None
    /\ asked' = None
    /\ UNCHANGED <<answer, waiting>>

ContractNext == (\E a \in AskKinds : Ask(a)) \/ Answer \/ GiveUp
ContractSpec == ContractInit /\ [][ContractNext]_contractVars
=============================================================================
