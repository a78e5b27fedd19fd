---------------------------- MODULE AgentDag_proofs ----------------------------
(***************************************************************************)
(* For every message, context, caller and project: an agent run executes   *)
(* nothing but reads and drafts, the endpoint keeps its contract, and what *)
(* waits for a person has a step that says so.                             *)
(***************************************************************************)
EXTENDS AgentDagProperties, TLAPS

\* OnlyReadsExecuted is not inductive alone: the mode is one of the two, and an
\* ask starts without the results of an earlier one.
ReadsInv ==
    /\ request \in Asks \cup {NoAsk}
    /\ results \in Seq(StepStatuses)
    /\ request = NoAsk => results = <<>>
    /\ OnlyReadsExecuted

LEMMA StepStatusType ==
    ASSUME NEW a, NEW step, NEW rs
    PROVE  StepStatus(a, step, rs) \in StepStatuses
  <1>1. ToolStatus(a, ToolName(step.tool)) \in StepStatuses
    BY DEF ToolStatus, StepStatuses
  <1>. QED
    BY <1>1, Zenon DEF StepStatus, StepStatuses

\* A step is executed only behind the global check and, for a tool, behind the
\* registry.
LEMMA StepHarmless ==
    ASSUME NEW a \in Asks, NEW step, NEW rs
    PROVE  Harmless(a, step, StepStatus(a, step, rs))
  <1>. SUFFICES ASSUME StepStatus(a, step, rs) = "executed"
                PROVE  /\ a.mode = "controlled_execute"
                       /\ ~ Restricted(a) /\ ProjectAllowed(a)
                       /\ step.kind = "draft" \/ ToolName(step.tool) \in ReadTools
    BY DEF Harmless
  <1>1. ~ GlobalBlock(a)
    BY DEF StepStatus
  <1>2. a.mode \in {"dry_run", "controlled_execute"}
    BY DEF Asks
  <1>. QED
    BY <1>1, <1>2 DEF GlobalBlock, StepStatus, ToolStatus

LEMMA ReadsInit == DagInit => ReadsInv
  BY DEF DagInit, ReadsInv, OnlyReadsExecuted

LEMMA ReadsStep == ReadsInv /\ [DagNext]_dagVars => ReadsInv'
  <1>. SUFFICES ASSUME ReadsInv, [DagNext]_dagVars PROVE ReadsInv'
    OBVIOUS
  <1>1. CASE Receive
    BY <1>1 DEF Receive, ReadsInv, OnlyReadsExecuted, Asks, NoAsk
  <1>2. ASSUME NEW proposal, request # NoAsk, EvaluateStep(proposal) PROVE ReadsInv'
    <2>. DEFINE n == Len(results)
                status == StepStatus(request, plan[n + 1], results)
    <2>1. /\ results' = Append(results, status)
          /\ UNCHANGED <<request, plan, run>>
      BY <1>2 DEF EvaluateStep
    <2>2. results \in Seq(StepStatuses) /\ status \in StepStatuses /\ request \in Asks
      BY <1>2, StepStatusType DEF ReadsInv
    <2>3. results' \in Seq(StepStatuses)
      BY <2>1, <2>2
    <2>4. ASSUME NEW i \in DOMAIN results' PROVE Harmless(request, plan[i], results'[i])
      <3>1. CASE i \in DOMAIN results
        <4>1. results'[i] = results[i]
          BY <2>1, <2>2, <3>1
        <4>. QED
          BY <1>2, <3>1, <4>1 DEF ReadsInv, OnlyReadsExecuted
      <3>2. CASE i = n + 1
        <4>1. results'[i] = status
          BY <2>1, <2>2, <3>2
        <4>. QED
          BY <2>2, <3>2, <4>1, StepHarmless
      <3>. QED
        BY <2>1, <2>2, <2>4, <3>1, <3>2
    <2>5. OnlyReadsExecuted'
      BY <2>1, <2>4 DEF ReadsInv, OnlyReadsExecuted
    <2>. QED
      BY <1>2, <2>1, <2>2, <2>3, <2>5 DEF ReadsInv
  <1>3. CASE CommitRun
    <2>1. /\ request # NoAsk /\ request' = NoAsk /\ results' = <<>>
          /\ run'.ask = request /\ run'.plan = plan /\ run'.steps = results
      BY <1>3 DEF CommitRun
    <2>. QED
      BY <2>1 DEF ReadsInv, OnlyReadsExecuted
  <1>4. CASE FailAsk
    BY <1>4 DEF FailAsk, ReadsInv, OnlyReadsExecuted
  <1>5. CASE UNCHANGED dagVars
    BY <1>5 DEF dagVars, ReadsInv, OnlyReadsExecuted
  <1>. QED
    BY <1>1, <1>2, <1>3, <1>4, <1>5 DEF DagNext

\* No agent run executes a write or restricted tool, and a dry run, a run for a
\* restricted wish or one outside the caller's projects executes nothing.
THEOREM ExecutesOnlyReads == DagSpec => []OnlyReadsExecuted
  <1>1. ReadsInv => OnlyReadsExecuted
    BY DEF ReadsInv
  <1>. QED
    BY ReadsInit, ReadsStep, <1>1, PTL DEF DagSpec
-----------------------------------------------------------------------------
\* KeepsContract: what a plan that is not blocked looks like, what its steps end in,
\* and therefore what run and queue say.
AgentNames == {"nl2sql_analyst", "hazard_rectification_advisor", "work_order_coordinator",
               "rule_compliance_checker", "risk_profile_analyst", "safety_supervisor"}

\* A step that asks for no write, and steps that depend on earlier ones only.
Plain(step) == step.tool = None \/ ToolName(step.tool) \in ReadTools
Deps == SUBSET Nat
AnyTool == ReadTools \cup WriteTools \cup {"POST /api/v1/agent/nl2sql", None}
Steps == [kind : {"route", "tool", "explain", "draft"}, tool : AnyTool,
          deps : Deps, review : BOOLEAN]
PlainSteps(p) ==
    p \in Seq(Steps) /\ \A i \in 1..Len(p) : Plain(p[i]) /\ p[i].deps \subseteq 1..(i - 1)
PlainTail(t) ==
    t \in Seq(Steps) /\ \A i \in 1..Len(t) : Plain(t[i]) /\ t[i].deps \subseteq 1..i

\* The write, if any, is the last step.
WellFormed(a, p) ==
    /\ p \in Seq(Steps) /\ p # <<>>
    /\ \A i \in 1..Len(p) :
          /\ p[i].deps \subseteq 1..(i - 1)
          /\ IF WriteTool(a) # None /\ i = Len(p)
             THEN p[i].kind = "tool" /\ p[i].tool = WriteTool(a)
             ELSE Plain(p[i])

\* Some class decides, or none.
LEMMA AgentType == ASSUME NEW a PROVE Agent(a) \in AgentNames
<1> DEFINE Hit(i) == ClassOrder[i] \in a.words
           chosen == CHOOSE i \in DOMAIN ClassOrder : Hit(i) /\ \A j \in 1..(i - 1) : ~ Hit(j)
<1>1. DOMAIN ClassOrder = 1..5
  BY DEF ClassOrder
<1>2. CASE \A i \in DOMAIN ClassOrder : ~ Hit(i)
  BY <1>2 DEF Agent, AgentOf, AgentNames
<1>3. CASE \E i \in DOMAIN ClassOrder : Hit(i)
  <2>1. \E i \in 1..5 : Hit(i) /\ \A j \in 1..(i - 1) : ~ Hit(j)
    <3> HIDE DEF Hit
    <3> QED
      BY <1>1, <1>3
  <2>2. chosen \in 1..5
    BY <1>1, <2>1
  <2>3. \A c \in 1..5 : ClassOrder[c] \in {"order", "rule", "hazard", "query", "profile"}
    BY DEF ClassOrder
  <2>4. AgentOf[ClassOrder[chosen]] \in AgentNames
    <3> HIDE DEF chosen
    <3> QED
      BY <2>2, <2>3 DEF AgentOf, AgentNames
  <2>5. AgentOf["hazard"] \in AgentNames
    BY DEF AgentOf, AgentNames
  <2> QED
    BY <1>3, <2>4, <2>5 DEF Agent
<1> QED
  BY <1>2, <1>3

LEMMA OneStep ==
    ASSUME NEW x \in Steps, Plain(x), x.deps \subseteq {1}
    PROVE PlainTail(<< x >>)
BY DEF PlainTail

LEMMA TwoSteps ==
    ASSUME NEW x \in Steps, NEW y \in Steps, Plain(x), Plain(y), x.deps \subseteq {1}, y.deps \subseteq {1, 2}
    PROVE PlainTail(<< x, y >>)
<1> DEFINE t == << x, y >>
<1>1. t \in Seq(Steps) /\ Len(t) = 2 /\ t[1] = x /\ t[2] = y
  OBVIOUS
<1> HIDE DEF t
<1>2. \A i \in 1..Len(t) : i = 1 \/ i = 2
  BY <1>1
<1>3. PlainTail(t)
  BY <1>1, <1>2 DEF PlainTail
<1> QED
  BY <1>3 DEF t

LEMMA ThreeSteps ==
    ASSUME NEW x \in Steps, NEW y \in Steps, NEW z \in Steps, Plain(x), Plain(y), Plain(z),
           x.deps \subseteq {1}, y.deps \subseteq {1, 2}, z.deps \subseteq {1, 2, 3}
    PROVE PlainTail(<< x, y, z >>)
<1> DEFINE t == << x, y, z >>
<1>1. t \in Seq(Steps) /\ Len(t) = 3 /\ t[1] = x /\ t[2] = y /\ t[3] = z
  OBVIOUS
<1> HIDE DEF t
<1>2. \A i \in 1..Len(t) : i = 1 \/ i = 2 \/ i = 3
  BY <1>1
<1>3. PlainTail(t)
  BY <1>1, <1>2 DEF PlainTail
<1> QED
  BY <1>3 DEF t

\* The step that routes stands before the steps of the branch.
LEMMA RouteFirst ==
    ASSUME NEW t, PlainTail(t), NEW route \in Steps, Plain(route), route.deps = {},
           NEW p, p = << route >> \o t
    PROVE PlainSteps(p) /\ p # <<>>
<1>1. <<route>> \in Seq(Steps) /\ Len(<<route>>) = 1 /\ <<route>>[1] = route
  OBVIOUS
<1>2. t \in Seq(Steps) /\ Len(t) \in Nat
  BY DEF PlainTail
<1>3. p \in Seq(Steps) /\ Len(p) = Len(t) + 1
  BY <1>1, <1>2
<1>4. p[1] = route
  BY <1>1, <1>2
<1>5. \A i \in 1..Len(t) : p[i + 1] = t[i]
  BY <1>1, <1>2
<1>6. \A i \in 1..Len(p) : Plain(p[i]) /\ p[i].deps \subseteq 1..(i - 1)
  <2> TAKE i \in 1..Len(p)
  <2>1. CASE i = 1
    BY <1>4, <2>1
  <2>2. CASE i # 1
    <3>1. i - 1 \in 1..Len(t) /\ (i - 1) + 1 = i
      BY <1>2, <1>3, <2>2
    <3>2. p[i] = t[i - 1]
      BY <1>5, <3>1
    <3> QED
      BY <3>1, <3>2 DEF PlainTail
  <2> QED
    BY <2>1, <2>2
<1>7. p # <<>>
  BY <1>2, <1>3
<1> QED
  BY <1>3, <1>6, <1>7 DEF PlainSteps

LEMMA ReadStep ==
    ASSUME NEW tool \in ReadTools, NEW deps \in Deps
    PROVE /\ Step("tool", tool, deps, FALSE) \in Steps
          /\ Plain(Step("tool", tool, deps, FALSE))
          /\ Step("tool", tool, deps, FALSE).deps = deps
<1>1. tool \in AnyTool
  BY DEF AnyTool
<1>2. ToolName(tool) \in ReadTools
  BY DEF ToolName, ReadTools
<1> QED
  BY <1>1, <1>2 DEF Plain, Step, Steps

LEMMA FreeStep ==
    ASSUME NEW kind \in {"route", "explain", "draft"}, NEW deps \in Deps
    PROVE /\ Step(kind, None, deps, FALSE) \in Steps
          /\ Plain(Step(kind, None, deps, FALSE))
          /\ Step(kind, None, deps, FALSE).deps = deps
<1>1. None \in AnyTool
  BY DEF AnyTool
<1> QED
  BY <1>1 DEF Plain, Step, Steps

\* The steps before the write, by agent.
LEMMA DepsType == {1} \in Deps /\ {2} \in Deps /\ {2, 3} \in Deps /\ \A n \in Nat : {n} \in Deps
BY DEF Deps

LEMMA BranchShape ==
    ASSUME NEW agent \in AgentNames
    PROVE PlainTail(Branch(agent, FALSE))
<1>1. ASSUME NEW tool \in ReadTools
      PROVE PlainTail(<< Step("tool", tool, {1}, FALSE), Step("explain", None, {2}, FALSE) >>)
  <2> DEFINE x == Step("tool", tool, {1}, FALSE)
             y == Step("explain", None, {2}, FALSE)
  <2>1. x \in Steps /\ Plain(x) /\ x.deps = {1}
    BY ReadStep, DepsType
  <2>2. y \in Steps /\ Plain(y) /\ y.deps = {2}
    BY FreeStep, DepsType
  <2> HIDE DEF x, y
  <2>3. PlainTail(<< x, y >>)
    BY <2>1, <2>2, TwoSteps
  <2> QED
    BY <2>3 DEF x, y
<1>2. CASE agent = "work_order_coordinator"
  <2>1. "work_orders.read" \in ReadTools
    BY DEF ReadTools
  <2> QED
    BY <1>1, <1>2, <2>1 DEF Branch
<1>3. CASE agent = "rule_compliance_checker"
  <2>1. "rules.read_triggers" \in ReadTools
    BY DEF ReadTools
  <2> QED
    BY <1>1, <1>3, <2>1 DEF Branch
<1>4. CASE agent = "risk_profile_analyst"
  <2>1. "profile.read" \in ReadTools
    BY DEF ReadTools
  <2> QED
    BY <1>1, <1>4, <2>1 DEF Branch
<1>5. CASE agent = "nl2sql_analyst"
  <2> DEFINE x == Step("tool", "metrics.read_catalog", {1}, FALSE)
             y == Step("tool", "POST /api/v1/agent/nl2sql", {2}, FALSE)
  <2>1. "metrics.read_catalog" \in ReadTools
    BY DEF ReadTools
  <2>2. x \in Steps /\ Plain(x) /\ x.deps = {1}
    BY <2>1, ReadStep, DepsType
  <2>3. "POST /api/v1/agent/nl2sql" \in AnyTool /\ ToolName("POST /api/v1/agent/nl2sql") \in ReadTools
    BY DEF AnyTool, ToolName, ReadTools
  <2>4. y \in Steps /\ Plain(y) /\ y.deps = {2}
    BY <2>3, DepsType DEF Plain, Step, Steps
  <2>5. Branch(agent, FALSE) = << x, y >>
    BY <1>5 DEF Branch
  <2> HIDE DEF x, y
  <2> QED
    BY <2>2, <2>4, <2>5, TwoSteps
<1>6. CASE agent = "hazard_rectification_advisor"
  <2> DEFINE x == Step("tool", "hazards.read", {1}, FALSE)
             y == Step("tool", "knowledge.search", {2}, FALSE)
             z == Step("draft", None, {2, 3}, FALSE)
  <2>1. "hazards.read" \in ReadTools /\ "knowledge.search" \in ReadTools
    BY DEF ReadTools
  <2>2. x \in Steps /\ Plain(x) /\ x.deps = {1}
    BY <2>1, ReadStep, DepsType
  <2>3. y \in Steps /\ Plain(y) /\ y.deps = {2}
    BY <2>1, ReadStep, DepsType
  <2>4. z \in Steps /\ Plain(z) /\ z.deps = {2, 3}
    BY FreeStep, DepsType
  <2>5. Branch(agent, FALSE) = << x, y, z >>
    BY <1>6 DEF Branch
  <2> HIDE DEF x, y, z
  <2> QED
    BY <2>2, <2>3, <2>4, <2>5, ThreeSteps
<1>7. CASE agent = "safety_supervisor"
  <2> DEFINE x == Step("explain", None, {1}, FALSE)
  <2>1. x \in Steps /\ Plain(x) /\ x.deps = {1}
    BY FreeStep, DepsType
  <2>2. Branch(agent, FALSE) = << x >>
    BY <1>7 DEF Branch
  <2> HIDE DEF x
  <2> QED
    BY <2>1, <2>2, OneStep
<1> QED
  BY <1>2, <1>3, <1>4, <1>5, <1>6, <1>7 DEF AgentNames

LEMMA WriteToolType == ASSUME NEW a PROVE WriteTool(a) \in WriteTools \cup {None}
BY DEF WriteTool, WriteTools

\* The plan of an ask without a restricted wish.
LEMMA PlanShape ==
    ASSUME NEW a, ~ Restricted(a)
    PROVE WellFormed(a, Plan(a))
<1> DEFINE route == Step("route", None, {}, FALSE)
           base == << route >> \o Branch(Agent(a), FALSE)
           write == Step("tool", WriteTool(a), {Len(base)}, TRUE)
<1>1. route \in Steps /\ Plain(route) /\ route.deps = {}
  BY FreeStep DEF Deps
<1>2. PlainTail(Branch(Agent(a), FALSE))
  BY AgentType, BranchShape
<1>3. PlainSteps(base) /\ base # <<>>
  <2> HIDE DEF route
  <2> QED
    BY <1>1, <1>2, RouteFirst
<1>4. Restricted(a) = FALSE
  BY DEF Restricted
<1>5. Plan(a) = IF WriteTool(a) = None THEN base ELSE Append(base, write)
  BY <1>4 DEF Plan, WithWrite
<1> HIDE DEF base
<1>6. base \in Seq(Steps) /\ Len(base) \in Nat /\ Len(base) > 0
  BY <1>3 DEF PlainSteps
<1>7. write \in Steps /\ write.kind = "tool" /\ write.tool = WriteTool(a) /\ write.deps = {Len(base)}
  <2>1. WriteTool(a) \in AnyTool
    BY WriteToolType DEF AnyTool
  <2> QED
    BY <1>6, <2>1, DepsType DEF Step, Steps
<1> HIDE DEF write
<1>8. CASE WriteTool(a) = None
  BY <1>3, <1>5, <1>8 DEF WellFormed, PlainSteps
<1>9. CASE WriteTool(a) # None
  <2> DEFINE p == Append(base, write)
  <2>1. /\ p \in Seq(Steps) /\ Len(p) = Len(base) + 1 /\ p[Len(p)] = write
        /\ \A i \in 1..Len(base) : p[i] = base[i]
    BY <1>6, <1>7
  <2> HIDE DEF p
  <2>2. \A i \in 1..Len(p) : i = Len(p) \/ (i \in 1..Len(base) /\ i # Len(p))
    BY <1>6, <2>1
  <2>3. \A i \in 1..Len(base) : Plain(p[i]) /\ p[i].deps \subseteq 1..(i - 1)
    BY <1>3, <2>1 DEF PlainSteps
  <2>4. p[Len(p)].deps \subseteq 1..(Len(p) - 1)
    BY <1>6, <1>7, <2>1
  <2>5. Plan(a) = p
    BY <1>5, <1>9 DEF p
  <2>6. p # <<>>
    BY <1>6, <2>1
  <2>7. \A i \in 1..Len(p) :
          /\ p[i].deps \subseteq 1..(i - 1)
          /\ IF WriteTool(a) # None /\ i = Len(p)
             THEN p[i].kind = "tool" /\ p[i].tool = WriteTool(a) ELSE Plain(p[i])
    <3> TAKE i \in 1..Len(p)
    <3>1. CASE i = Len(p)
      BY <1>7, <1>9, <2>1, <2>4, <3>1
    <3>2. CASE i # Len(p)
      BY <2>2, <2>3, <3>2
    <3> QED
      BY <3>1, <3>2
  <2>8. WellFormed(a, p)
    BY <2>1, <2>6, <2>7 DEF WellFormed
  <2> QED
    BY <2>5, <2>8
<1> QED
  BY <1>8, <1>9

\* The statuses that let the next step go on.
Well == {"executed", "dry_run_passed"}

\* The executor lets a plain step of a plan that is not blocked pass ...
LEMMA PlainGoesWell ==
    ASSUME NEW a \in Asks, ~ GlobalBlock(a), NEW step, Plain(step),
           NEW rs, \A d \in step.deps : rs[d] \in Well
    PROVE StepStatus(a, step, rs) \in Well
<1>1. ~ \E d \in step.deps : rs[d] \in {"blocked", "failed", "approval_required", "skipped"}
  BY DEF Well
<1>2. ProjectAllowed(a)
  BY DEF GlobalBlock
<1>3. a.mode \in {"dry_run", "controlled_execute"}
  BY DEF Asks
<1>4. ASSUME step.tool # None PROVE ToolStatus(a, ToolName(step.tool)) \in Well
  <2>1. ToolName(step.tool) \in ReadTools /\ ToolName(step.tool) \notin WriteTools
    BY <1>4 DEF Plain, ReadTools, WriteTools
  <2> QED
    BY <1>2, <1>3, <2>1 DEF ToolStatus, Well
<1> QED
  BY <1>1, <1>3, <1>4, Zenon DEF StepStatus, Well

\* ... and stops at the write.
LEMMA WriteWaits ==
    ASSUME NEW a \in Asks, ~ GlobalBlock(a), NEW step, step.kind = "tool",
           step.tool \in WriteTools, step.tool # None,
           NEW rs, \A d \in step.deps : rs[d] \in Well
    PROVE StepStatus(a, step, rs) = "approval_required"
<1>1. ~ \E d \in step.deps : rs[d] \in {"blocked", "failed", "approval_required", "skipped"}
  BY DEF Well
<1>2. ProjectAllowed(a)
  BY DEF GlobalBlock
<1>3. ToolName(step.tool) \in WriteTools
  BY DEF ToolName, WriteTools
<1>4. ToolStatus(a, ToolName(step.tool)) = "approval_required"
  BY <1>2, <1>3 DEF ToolStatus
<1> QED
  BY <1>1, <1>4 DEF StepStatus

LEMMA BlockedStays ==
    ASSUME NEW a, GlobalBlock(a), NEW step, NEW rs
    PROVE StepStatus(a, step, rs) # "approval_required"
BY DEF StepStatus

\* How far the run of an ask that is not blocked has come.
EndsIn(i) ==
    IF WriteTool(request) # None /\ i = Len(plan)
    THEN results[i] = "approval_required" ELSE results[i] \in Well
QueuedSoFar ==
    IF request.mode = "controlled_execute" /\ WriteTool(request) # None /\ Len(results) = Len(plan)
    THEN {WriteTool(request)} ELSE {}
GoesOn ==
    /\ Len(results) <= Len(plan)
    /\ \A i \in 1..Len(results) : EndsIn(i)
    /\ {q.tool : q \in flushed} = QueuedSoFar

ContractInv ==
    /\ request = NoAsk => plan = <<>> /\ results = <<>> /\ flushed = {}
    /\ run = NoRun => queue = {}
    /\ request # NoAsk =>
         /\ run = NoRun /\ plan = Plan(request)
         /\ IF GlobalBlock(request) THEN flushed = {} ELSE GoesOn

LEMMA ReceiveKeeps == ReadsInv /\ ContractInv /\ Receive => ContractInv'
<1> SUFFICES ASSUME ReadsInv, ContractInv, Receive PROVE ContractInv'
  OBVIOUS
<1>1. /\ request' \in Asks /\ plan' = Plan(request') /\ results' = <<>> /\ flushed' = {}
      /\ run' = run /\ queue' = queue /\ run = NoRun
  BY DEF Receive, ContractInv
<1>2. request' # NoAsk
  BY <1>1 DEF Asks, NoAsk
<1>3. CASE GlobalBlock(request')
  BY <1>1, <1>2, <1>3 DEF ContractInv
<1>4. CASE ~ GlobalBlock(request')
  <2>1. WellFormed(request', plan')
    BY <1>1, <1>4, PlanShape DEF GlobalBlock
  <2>2. Len(plan') \in Nat /\ Len(plan') > 0 /\ Len(results') = 0
    BY <1>1, <2>1 DEF WellFormed
  <2>3. GoesOn'
    BY <1>1, <2>2 DEF GoesOn, QueuedSoFar
  <2> QED
    BY <1>1, <1>2, <1>4, <2>3 DEF ContractInv
<1> QED
  BY <1>3, <1>4

LEMMA EvaluateKeeps ==
    ASSUME ReadsInv, ContractInv, request # NoAsk, NEW proposal, EvaluateStep(proposal)
    PROVE ContractInv'
<1>0. PICK n \in Nat : n = Len(results)
  BY DEF ReadsInv
<1> DEFINE step == plan[n + 1]
           status == StepStatus(request, step, results)
<1>1. /\ UNCHANGED <<request, plan, run, queue>> /\ results' = Append(results, status)
      /\ n < Len(plan) /\ run = NoRun /\ plan = Plan(request) /\ request \in Asks
  BY <1>0 DEF EvaluateStep, ContractInv, ReadsInv
<1>2. results \in Seq(StepStatuses) /\ n = Len(results) /\ status \in StepStatuses
  BY <1>0, StepStatusType DEF ReadsInv
<1>3. CASE GlobalBlock(request)
  <2>1. flushed' = {}
    BY <1>0, <1>3, BlockedStays DEF EvaluateStep, ContractInv
  <2> QED
    BY <1>1, <1>3, <2>1 DEF ContractInv
<1>4. CASE ~ GlobalBlock(request)
  <2>1. GoesOn /\ WellFormed(request, plan) /\ Len(plan) \in Nat
    <3>1. WellFormed(request, plan)
      BY <1>1, <1>4, PlanShape DEF GlobalBlock
    <3> QED
      BY <1>4, <3>1 DEF ContractInv, WellFormed
  <2>2. n + 1 \in 1..Len(plan)
    BY <1>1, <1>2, <2>1
  <2>3. \A d \in step.deps : d \in 1..n
    BY <1>2, <2>1, <2>2 DEF WellFormed
  <2>4. \A d \in step.deps : results[d] \in Well
    <3> TAKE d \in step.deps
    <3>1. d \in 1..n /\ d # Len(plan)
      BY <1>1, <1>2, <2>1, <2>3
    <3> QED
      BY <1>2, <2>1, <3>1 DEF GoesOn, EndsIn
  <2>5. Len(results') = n + 1 /\ results'[n + 1] = status /\ \A i \in 1..n : results'[i] = results[i]
    BY <1>1, <1>2
  <2>6. \A i \in 1..n : EndsIn(i)'
    <3> TAKE i \in 1..n
    <3>1. EndsIn(i) /\ results'[i] = results[i]
      BY <1>2, <2>1, <2>5 DEF GoesOn
    <3> QED
      BY <1>1, <3>1 DEF EndsIn
  <2>7. CASE WriteTool(request) # None /\ n + 1 = Len(plan)
    <3>1. step.kind = "tool" /\ step.tool = WriteTool(request) /\ step.tool # None
      BY <2>1, <2>2, <2>7 DEF WellFormed
    <3>2. step.tool \in WriteTools
      BY <2>7, <3>1, WriteToolType
    <3>3. status = "approval_required"
      BY <1>1, <1>4, <2>4, <3>1, <3>2, WriteWaits
    <3>4. EndsIn(n + 1)'
      BY <1>1, <2>5, <2>7, <3>3 DEF EndsIn
    <3>5. {q.tool : q \in flushed} = {}
      BY <1>1, <1>2, <2>1 DEF GoesOn, QueuedSoFar
    <3>6. flushed = {}
      BY <3>5
    <3> DEFINE entry == [tool |-> step.tool, project |-> request.project,
                         target |-> Target(request, proposal)]
    <3>7. flushed' = IF request.mode = "controlled_execute" THEN {entry} ELSE {}
      BY <1>2, <3>3, <3>6 DEF EvaluateStep
    <3>8. {q.tool : q \in flushed'} = QueuedSoFar'
      <4>1. {q.tool : q \in flushed'} = IF request.mode = "controlled_execute" THEN {step.tool} ELSE {}
        <5>1. entry.tool = step.tool
          OBVIOUS
        <5> HIDE DEF entry
        <5> QED
          BY <3>7, <5>1
      <4>2. QueuedSoFar' = IF request.mode = "controlled_execute" THEN {WriteTool(request)} ELSE {}
        BY <1>1, <2>5, <2>7 DEF QueuedSoFar
      <4> QED
        BY <3>1, <4>1, <4>2
    <3>9. GoesOn'
      BY <1>1, <1>2, <2>1, <2>2, <2>5, <2>6, <3>4, <3>8 DEF GoesOn
    <3> QED
      BY <1>1, <1>4, <3>9 DEF ContractInv
  <2>8. CASE ~ (WriteTool(request) # None /\ n + 1 = Len(plan))
    <3>1. Plain(step)
      BY <2>1, <2>2, <2>8 DEF WellFormed
    <3>2. status \in Well
      BY <1>1, <1>4, <2>4, <3>1, PlainGoesWell
    <3>3. EndsIn(n + 1)'
      BY <1>1, <2>5, <2>8, <3>2 DEF EndsIn
    <3>4. flushed' = flushed
      BY <1>2, <3>2 DEF EvaluateStep, Well
    <3>5. QueuedSoFar' = QueuedSoFar
      BY <1>1, <1>2, <2>1, <2>5, <2>8 DEF QueuedSoFar
    <3>6. GoesOn'
      BY <1>1, <1>2, <2>1, <2>2, <2>5, <2>6, <3>3, <3>4, <3>5 DEF GoesOn
    <3> QED
      BY <1>1, <1>4, <3>6 DEF ContractInv
  <2> QED
    BY <2>7, <2>8
<1> QED
  BY <1>3, <1>4

LEMMA ContractInvStep == ReadsInv /\ ContractInv /\ [DagNext]_dagVars => ContractInv'
<1> SUFFICES ASSUME ReadsInv, ContractInv, [DagNext]_dagVars PROVE ContractInv'
  OBVIOUS
<1>1. CASE CommitRun
  BY <1>1 DEF CommitRun, ContractInv, NoRun
<1>2. CASE FailAsk
  BY <1>2 DEF FailAsk, ContractInv
<1>3. CASE UNCHANGED dagVars
  BY <1>3 DEF dagVars, ContractInv, GoesOn, EndsIn, QueuedSoFar
<1> QED
  BY <1>1, <1>2, <1>3, ReceiveKeeps, EvaluateKeeps DEF DagNext
-----------------------------------------------------------------------------
\* What the contract sees of an ask.
Seen(a) ==
    [mode |-> a.mode, tool |-> WriteTool(a), forbidden |-> Restricted(a) \/ ~ ProjectAllowed(a)]

LEMMA SeenType == ASSUME NEW a \in Asks PROVE Seen(a) \in Contract!AskKinds
BY WriteToolType DEF Seen, Asks, Contract!AskKinds, Restricted, ProjectAllowed

\* What the run of a finished ask says is what the ask deserves.
LEMMA DeservedStatus ==
    ASSUME ReadsInv, ContractInv, CommitRun
    PROVE /\ RunStatus(request, results) = Contract!Deserved(Seen(request))
          /\ {q.tool : q \in flushed} = Contract!Queued(Seen(request))
<1>1. request # NoAsk /\ request \in Asks /\ plan = Plan(request) /\ Len(results) = Len(plan)
  BY DEF CommitRun, ReadsInv, ContractInv
<1>2. request.mode \in {"dry_run", "controlled_execute"}
  BY <1>1 DEF Asks
<1>3. GlobalBlock(request) <=> Seen(request).forbidden
  BY DEF GlobalBlock, Seen
<1>4. Seen(request).mode = request.mode /\ Seen(request).tool = WriteTool(request)
  BY DEF Seen
<1>5. CASE GlobalBlock(request)
  <2>1. flushed = {}
    BY <1>1, <1>5 DEF ContractInv
  <2> QED
    BY <1>3, <1>5, <2>1 DEF RunStatus, Contract!Deserved, Contract!Queued
<1>6. CASE ~ GlobalBlock(request)
  <2>1. GoesOn /\ WellFormed(request, plan) /\ Len(plan) \in Nat /\ Len(plan) > 0
    <3>1. WellFormed(request, plan)
      BY <1>1, <1>6, PlanShape DEF GlobalBlock
    <3> QED
      BY <1>1, <1>6, <3>1 DEF ContractInv, WellFormed
  <2>2. DOMAIN results = 1..Len(plan) /\ \A i \in 1..Len(plan) : EndsIn(i)
    BY <1>1, <2>1 DEF GoesOn, ReadsInv
  <2>3. "blocked" \notin Range(results)
    BY <2>2 DEF Range, EndsIn, Well
  <2>4. CASE WriteTool(request) # None
    <3>1. Len(plan) \in DOMAIN results /\ results[Len(plan)] = "approval_required"
      BY <2>1, <2>2, <2>4 DEF EndsIn
    <3>2. "approval_required" \in Range(results)
      BY <3>1 DEF Range
    <3>3. RunStatus(request, results) = "approval_required"
      BY <1>6, <2>3, <3>2 DEF RunStatus
    <3>4. {q.tool : q \in flushed} = IF request.mode = "controlled_execute" THEN {WriteTool(request)} ELSE {}
      BY <1>1, <2>1, <2>4 DEF GoesOn, QueuedSoFar
    <3> QED
      BY <1>3, <1>4, <1>6, <2>4, <3>3, <3>4 DEF Contract!Deserved, Contract!Queued
  <2>5. CASE WriteTool(request) = None
    <3>1. Range(results) \subseteq Well
      BY <2>2, <2>5 DEF Range, EndsIn
    <3>2. RunStatus(request, results) = IF request.mode = "dry_run" THEN "dry_run_passed" ELSE "succeeded"
      BY <1>6, <3>1 DEF RunStatus, Well
    <3>3. {q.tool : q \in flushed} = {}
      BY <2>1, <2>5 DEF GoesOn, QueuedSoFar
    <3> QED
      BY <1>3, <1>4, <1>6, <2>5, <3>2, <3>3 DEF Contract!Deserved, Contract!Queued
  <2> QED
    BY <2>4, <2>5
<1> QED
  BY <1>5, <1>6

\* Every step is a step of the contract or invisible to it.
LEMMA ContractStep ==
    ReadsInv /\ ContractInv /\ [DagNext]_dagVars => [Contract!ContractNext]_(Contract!contractVars)
<1> SUFFICES ASSUME ReadsInv, ContractInv, [DagNext]_dagVars
             PROVE Contract!ContractNext \/ UNCHANGED Contract!contractVars
  OBVIOUS
<1> DEFINE asked == IF request = NoAsk THEN None
                    ELSE [mode |-> request.mode, tool |-> WriteTool(request),
                          forbidden |-> Restricted(request) \/ ~ ProjectAllowed(request)]
           waiting == {q.tool : q \in queue}
<1>1. asked = IF request = NoAsk THEN None ELSE Seen(request)
  BY DEF Seen
<1>2. asked' = IF request' = NoAsk THEN None ELSE Seen(request')
  BY DEF Seen, WriteTool, Agent, Restricted, ProjectAllowed
<1>3. request # NoAsk => asked # None
  BY <1>1, SeenType, AskAssumption DEF ReadsInv
<1> HIDE DEF asked
<1>4. CASE Receive
  <2>1. request' \in Asks /\ request' # NoAsk
    BY <1>4 DEF Receive, Asks, NoAsk
  <2>2. asked = None /\ asked' = Seen(request') /\ Seen(request') \in Contract!AskKinds
    BY <1>1, <1>2, <1>4, <2>1, SeenType DEF Receive
  <2>3. run.status = "none" /\ UNCHANGED <<run, queue>>
    BY <1>4 DEF Receive, NoRun
  <2>4. Contract!Ask(Seen(request'))
    BY <2>2, <2>3 DEF Contract!Ask, Contract!NoAnswer, asked
  <2> QED
    BY <2>2, <2>4 DEF Contract!ContractNext
<1>5. ASSUME NEW proposal, EvaluateStep(proposal) PROVE UNCHANGED Contract!contractVars
  <2>1. UNCHANGED <<request, run, queue>>
    BY <1>5 DEF EvaluateStep
  <2>2. asked' = asked
    BY <1>1, <1>2, <2>1
  <2> QED
    BY <2>1, <2>2 DEF Contract!contractVars, asked
<1>6. CASE CommitRun
  <2>1. /\ request # NoAsk /\ request' = NoAsk /\ queue' = queue \cup flushed
        /\ run'.status = RunStatus(request, results)
    BY <1>6 DEF CommitRun
  <2>2. queue = {}
    BY <2>1 DEF ContractInv
  <2>3. waiting' = Contract!Queued(Seen(request)) /\ run'.status = Contract!Deserved(Seen(request))
    BY <1>6, <2>1, <2>2, DeservedStatus
  <2>4. asked = Seen(request) /\ asked # None /\ asked' = None
    BY <1>1, <1>2, <1>3, <2>1
  <2>5. Contract!Answer
    BY <2>3, <2>4 DEF Contract!Answer, asked
  <2> QED
    BY <2>5 DEF Contract!ContractNext
<1>7. CASE FailAsk
  <2>1. request # NoAsk /\ request' = NoAsk /\ UNCHANGED <<run, queue>>
    BY <1>7 DEF FailAsk
  <2>2. asked # None /\ asked' = None
    BY <1>2, <1>3, <2>1
  <2>3. Contract!GiveUp
    BY <2>1, <2>2 DEF Contract!GiveUp, asked
  <2> QED
    BY <2>3 DEF Contract!ContractNext
<1>8. CASE UNCHANGED dagVars
  <2>1. UNCHANGED <<request, run, queue>>
    BY <1>8 DEF dagVars
  <2>2. asked' = asked
    BY <1>1, <1>2, <2>1
  <2> QED
    BY <2>1, <2>2 DEF Contract!contractVars, asked
<1> QED
  BY <1>4, <1>5, <1>6, <1>7, <1>8 DEF DagNext

\* Planner, registry, access check and executor keep the contract of the endpoint:
\* whatever is asked, one answer with the status the ask deserves, and exactly the
\* write it waits for in the approval queue.
THEOREM AgentKeepsContract == DagSpec => KeepsContract
<1>1. DagInit => Contract!ContractInit
  BY DEF DagInit, Contract!ContractInit, Contract!NoAnswer, NoRun
<1>2. DagInit => ContractInv
  BY DEF DagInit, ContractInv
<1> QED
  BY <1>1, <1>2, ReadsInit, ReadsStep, ContractInvStep, ContractStep, PTL
  DEF DagSpec, KeepsContract, Contract!ContractSpec

-----------------------------------------------------------------------------
(* ReviewRequested *)

LEMMA ReviewStep ==
    ASSUME NEW kind \in {"tool", "explain", "draft"}, NEW tool \in AnyTool, NEW deps \in Deps
    PROVE Step(kind, tool, deps, TRUE) \in Steps /\ Step(kind, tool, deps, TRUE).review
BY DEF Step, Steps

\* Under a restricted wish too, a branch is a sequence of steps.
LEMMA RestrictedBranch ==
    ASSUME NEW agent \in AgentNames
    PROVE Branch(agent, TRUE) \in Seq(Steps)
<1>1. \A tool \in ReadTools : Step("tool", tool, {1}, FALSE) \in Steps
  BY ReadStep, DepsType
<1>2. Step("explain", None, {1}, TRUE) \in Steps /\ Step("explain", None, {2}, TRUE) \in Steps
  BY ReviewStep, DepsType DEF AnyTool
<1>3. \A x, y \in Steps : << x >> \in Seq(Steps) /\ << x, y >> \in Seq(Steps)
  OBVIOUS
<1>4. ASSUME NEW tool \in ReadTools
      PROVE << Step("tool", tool, {1}, FALSE), Step("explain", None, {2}, TRUE) >> \in Seq(Steps)
  BY <1>1, <1>2, <1>3
<1>5. "work_orders.read" \in ReadTools /\ "rules.read_triggers" \in ReadTools
      /\ "profile.read" \in ReadTools /\ "metrics.read_catalog" \in ReadTools
      /\ "hazards.read" \in ReadTools /\ "knowledge.search" \in ReadTools
  BY DEF ReadTools
<1>6. CASE agent = "work_order_coordinator"
  BY <1>4, <1>5, <1>6 DEF Branch
<1>7. CASE agent = "rule_compliance_checker"
  BY <1>4, <1>5, <1>7 DEF Branch
<1>8. CASE agent = "risk_profile_analyst"
  BY <1>4, <1>5, <1>8 DEF Branch
<1>9. CASE agent = "safety_supervisor"
  BY <1>2, <1>3, <1>9 DEF Branch
<1>10. CASE agent = "nl2sql_analyst"
  <2> DEFINE audit == Step("tool", "POST /api/v1/agent/nl2sql", {2}, TRUE)
  <2>1. audit \in Steps
    BY ReviewStep, DepsType DEF AnyTool
  <2>2. Branch(agent, TRUE) = << Step("tool", "metrics.read_catalog", {1}, FALSE), audit >>
    BY <1>10 DEF Branch
  <2> HIDE DEF audit
  <2> QED
    BY <1>1, <1>3, <1>5, <2>1, <2>2
<1>11. CASE agent = "hazard_rectification_advisor"
  <2> DEFINE x == Step("tool", "hazards.read", {1}, FALSE)
             y == Step("tool", "knowledge.search", {2}, FALSE)
             z == Step("draft", None, {2, 3}, TRUE)
  <2>1. x \in Steps
    BY <1>1, <1>5
  <2>2. y \in Steps
    BY <1>5, ReadStep, DepsType
  <2>3. z \in Steps
    BY ReviewStep, DepsType DEF AnyTool
  <2>4. Branch(agent, TRUE) = << x, y, z >>
    BY <1>11 DEF Branch
  <2>5. \A u, v, w \in Steps : << u, v, w >> \in Seq(Steps)
    OBVIOUS
  <2> HIDE DEF x, y, z
  <2>6. << x, y, z >> \in Seq(Steps)
    BY <2>1, <2>2, <2>3, <2>5
  <2> QED
    BY <2>4, <2>6
<1> QED
  BY <1>6, <1>7, <1>8, <1>9, <1>10, <1>11 DEF AgentNames

\* The plan of a restricted wish has a step for a person.
LEMMA RestrictedPlan ==
    ASSUME NEW a, Restricted(a)
    PROVE \E i \in DOMAIN Plan(a) : Plan(a)[i].review
<1> DEFINE route == Step("route", None, {}, FALSE)
           branch == Branch(Agent(a), Restricted(a))
           base == << route >> \o branch
           steps == WithWrite(a, base)
<1>1. Restricted(a) = TRUE
  BY DEF Restricted
<1>2. branch \in Seq(Steps)
  BY <1>1, AgentType, RestrictedBranch
<1>3. route \in Steps
  BY FreeStep DEF Deps
<1> HIDE DEF branch, route
<1>4. base \in Seq(Steps)
  BY <1>2, <1>3
<1> HIDE DEF base
<1>5. steps \in Seq(Steps)
  <2>1. CASE WriteTool(a) = None
    BY <1>4, <2>1 DEF WithWrite
  <2>2. CASE WriteTool(a) # None
    <3> DEFINE write == Step("tool", WriteTool(a), {Len(base)}, TRUE)
    <3>1. WriteTool(a) \in AnyTool
      BY WriteToolType DEF AnyTool
    <3>2. {Len(base)} \in Deps
      BY <1>4 DEF Deps
    <3>3. write \in Steps
      BY <3>1, <3>2, ReviewStep
    <3>4. steps = Append(base, write)
      BY <2>2 DEF WithWrite
    <3> HIDE DEF write, steps
    <3> QED
      BY <1>4, <3>3, <3>4
  <2> QED
    BY <2>1, <2>2
<1>6. Plan(a) = IF \A i \in DOMAIN steps : ~ steps[i].review
                THEN Append(steps, Step("explain", None, {Len(steps)}, TRUE)) ELSE steps
  BY DEF Plan, route, branch, base
<1> HIDE DEF steps
<1>7. CASE \A i \in DOMAIN steps : ~ steps[i].review
  <2> DEFINE last == Step("explain", None, {Len(steps)}, TRUE)
  <2>1. last.review
    BY DEF Step
  <2> HIDE DEF last
  <2>2. Plan(a) = Append(steps, last)
    BY <1>6, <1>7 DEF last
  <2>3. Len(steps) + 1 \in DOMAIN Plan(a) /\ Plan(a)[Len(steps) + 1] = last
    BY <1>5, <2>2
  <2> QED
    BY <2>1, <2>3
<1>8. CASE \E i \in DOMAIN steps : steps[i].review
  BY <1>6, <1>8
<1> QED
  BY <1>7, <1>8

\* The write of a plan that is not restricted is to be reviewed.
LEMMA WritePlan ==
    ASSUME NEW a, ~ Restricted(a), WriteTool(a) # None
    PROVE \E i \in DOMAIN Plan(a) : Plan(a)[i].review
<1> DEFINE base == << Step("route", None, {}, FALSE) >> \o Branch(Agent(a), Restricted(a))
           write == Step("tool", WriteTool(a), {Len(base)}, TRUE)
<1>1. write.review
  BY DEF Step
<1>2. Plan(a) = Append(base, write)
  BY DEF Plan, WithWrite
<1>3. base \in Seq(Steps)
  <2> DEFINE route == Step("route", None, {}, FALSE)
             branch == Branch(Agent(a), Restricted(a))
  <2>1. Restricted(a) = FALSE
    BY DEF Restricted
  <2>2. branch \in Seq(Steps)
    BY <2>1, AgentType, BranchShape DEF PlainTail
  <2>3. route \in Steps
    BY FreeStep DEF Deps
  <2> HIDE DEF route, branch
  <2>4. << route >> \o branch \in Seq(Steps)
    BY <2>2, <2>3
  <2> QED
    BY <2>4 DEF route, branch
<1> HIDE DEF base, write
<1>4. Len(base) + 1 \in DOMAIN Plan(a) /\ Plan(a)[Len(base) + 1] = write
  BY <1>2, <1>3
<1> QED
  BY <1>1, <1>4

\* A run that waits for an approval had a write in its plan.
LEMMA ReviewStepOfRun == ReadsInv /\ ContractInv /\ ReviewRequested /\ [DagNext]_dagVars => ReviewRequested'
<1> SUFFICES ASSUME ReadsInv, ContractInv, ReviewRequested, [DagNext]_dagVars,
                    run' # run, run' # NoRun, run'.review \/ run'.status = "approval_required"
             PROVE \E i \in DOMAIN run'.plan : run'.plan[i].review
  BY DEF ReviewRequested
<1>1. CommitRun
  BY DEF DagNext, dagVars, Receive, EvaluateStep, FailAsk
<1>2. /\ request # NoAsk /\ request \in Asks /\ plan = Plan(request)
      /\ run'.plan = plan /\ run'.review = Restricted(request)
      /\ run'.status = RunStatus(request, results)
  BY <1>1 DEF CommitRun, ContractInv, ReadsInv
<1>3. CASE Restricted(request)
  BY <1>2, <1>3, RestrictedPlan
<1>4. CASE ~ Restricted(request)
  <2>1. Contract!Deserved(Seen(request)) = "approval_required"
    BY <1>1, <1>2, <1>4, DeservedStatus
  <2>2. WriteTool(request) # None
    BY <2>1 DEF Contract!Deserved, Seen
  <2> QED
    BY <1>2, <1>4, <2>2, WritePlan
<1> QED
  BY <1>3, <1>4

\* Whatever waits for a person carries a step that is marked for review.
THEOREM WaitingIsReviewed == DagSpec => []ReviewRequested
<1>1. DagInit => ReviewRequested
  BY DEF DagInit, ReviewRequested
<1>2. DagInit => ContractInv
  BY DEF DagInit, ContractInv
<1> QED
  BY ReadsInit, ReadsStep, <1>2, ContractInvStep, ReviewStepOfRun, <1>1, PTL DEF DagSpec
=============================================================================
