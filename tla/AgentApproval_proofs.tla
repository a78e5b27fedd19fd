-------------------------- MODULE AgentApproval_proofs --------------------------
(***************************************************************************)
(* Proofs about the approval queue, for any number of approvals, requests  *)
(* and orders, overlapping in any way and lost at any point.  The lemmas   *)
(* about one step of the work-order workflow hold for every set of         *)
(* endpoints, so they apply to the steps of the queue as soon as these are *)
(* known to be ordinary steps; so do the guarantees about explanations,    *)
(* rights and reviews.  What holds of an approval's single effect needs    *)
(* requests that do not overlap, and no fault: the last section assumes    *)
(* OneRequest and ~ Faults.                                                *)
(***************************************************************************)
EXTENDS AgentProperties, WorkOrder_proofs

LEMMA AskedType ==
    ASSUME AgentTypeOK, NEW a \in ApprovalIds, approvals[a].status # "absent"
    PROVE  /\ approvals[a] \in ApprovalRow
           /\ approvals[a].asked \in Asked
           /\ approvals[a].asked.project \in Projects \cup {None}
           /\ approvals[a].asked.tool = "work_orders.create" =>
                approvals[a].asked.target \in HazardIds \cup {None}
           /\ approvals[a].asked.tool = "work_orders.transition" =>
                approvals[a].asked.target \in OrderIds
  <1>1. approvals[a] \in ApprovalRow
    BY DEF AgentTypeOK, NoApproval
  <1>2. approvals[a].asked \in Asked
    BY <1>1 DEF ApprovalRow
  <1>. QED
    BY <1>1, <1>2 DEF Asked

LEMMA ServingType ==
    ASSUME AgentTypeOK, NEW r \in Requests
    PROVE  /\ agent[r].op = "decide" =>
                agent[r].approval \in ApprovalIds /\ agent[r].decision \in Decisions
           /\ agent[r].op = "execute" =>
                /\ agent[r].approval \in ApprovalIds
                /\ agent[r] = Execution(agent[r].approval, agent[r].phase)
  <1>1. agent[r] \in Serving
    BY DEF AgentTypeOK
  <1>. QED
    BY <1>1 DEF Serving, NotServing, Execution

-----------------------------------------------------------------------------
(* Every step is an ordinary step of the work-order workflow *)

LEMMA OrdinaryWorkOrderStep == WorkOrderStep => NextOver(QueueEndpoints)
  <1>1. Insert(Endpoints) => Insert(QueueEndpoints)
    BY DEF Insert, QueueEndpoints
  <1>2. ASSUME NEW r \in Requests, Begin(Endpoints, r) PROVE Begin(QueueEndpoints, r)
    BY <1>2 DEF Begin, QueueEndpoints
  <1>. QED
    BY <1>1, <1>2 DEF WorkOrderStep, NextOver

\* The execute endpoint opens the transaction that PATCH would have opened.
LEMMA OrdinaryBeginExecute ==
    ASSUME AgentTypeOK, NEW r \in Requests, NEW c \in Approvers, NEW a \in ApprovalIds,
           BeginExecute(r, c, a)
    PROVE  Begin(QueueEndpoints, r)
  <1>1. approvals[a].asked.target \in OrderIds
    BY AskedType DEF BeginExecute, Executable, Visible
  <1>2. c \in Callers /\ "execute" \in {"patch", "execute"} \cap QueueEndpoints
    BY ApprovalAssumption DEF QueueEndpoints
  <1>3. \/ BeginReviewPass(r, "execute", c, approvals[a].asked.target)
        \/ \E t \in Transitions : BeginTransition(r, "execute", c, approvals[a].asked.target, t)
    BY DEF BeginExecute
  <1>. QED
    BY <1>1, <1>2, <1>3 DEF Begin

LEMMA OrdinaryExecuteCreate ==
    ASSUME AgentTypeOK, NEW r \in Requests, NEW c \in Approvers, NEW a \in ApprovalIds,
           NEW o \in OrderIds, ExecuteCreate(r, c, a, o)
    PROVE  Insert(QueueEndpoints)
  <1>. DEFINE asked == approvals[a].asked
  <1>1. CreateBody(asked) \in Bodies
    <2>1. asked \in [tool : {"work_orders.create"}, target : HazardIds \cup {None}, action : {None},
                     project : Projects \cup {None}, rule : Rules \cup {None},
                     source : HazardIds \cup {"target", "project", "other"}]
      BY AskedType DEF ExecuteCreate, Executable, Visible, Asked
    <2>2. "project" \notin HazardIds
      BY ApprovalAssumption
    <2>. HIDE DEF asked
    <2>. QED
      BY <2>1, <2>2 DEF CreateBody, Bodies
  <1>2. c \in Callers /\ "work_orders" \in QueueEndpoints
    BY ApprovalAssumption DEF QueueEndpoints
  <1>3. CreateWorkOrder(c, o, CreateBody(asked))
    BY DEF ExecuteCreate
  <1>. QED
    BY <1>1, <1>2, <1>3 DEF Insert

LEMMA OrdinaryStep ==
    ASSUME AgentTypeOK, AgentNext
    PROVE  [NextOver(QueueEndpoints)]_vars
  <1>1. CASE WorkOrderStep
    BY <1>1, OrdinaryWorkOrderStep
  <1>2. CASE \E c \in Callers, a \in ApprovalIds, asked \in Asks : Ask(c, a, asked)
    BY <1>2 DEF Ask
  <1>3. ASSUME NEW r \in Requests, ServeRequest(r)
        PROVE  [NextOver(QueueEndpoints)]_vars
    <2>1. CASE \E c \in Approvers, a \in ApprovalIds, d \in Decisions : BeginDecide(r, c, a, d)
      BY <2>1 DEF BeginDecide
    <2>2. CASE \E c \in Approvers, a \in ApprovalIds : BeginExecute(r, c, a)
      BY <2>2, OrdinaryBeginExecute DEF NextOver
    <2>3. CASE \E c \in Approvers, a \in ApprovalIds : RefuseExecute(r, c, a)
      BY <2>3 DEF RefuseExecute
    <2>4. CASE \E c \in Approvers, a \in ApprovalIds, o \in OrderIds : ExecuteCreate(r, c, a, o)
      BY <2>4, OrdinaryExecuteCreate DEF NextOver, ExecuteCreate, Executable
    <2>5. CASE CommitDecide(r)
      BY <2>5 DEF CommitDecide
    <2>6. CASE CommitExecute(r)
      BY <2>6 DEF CommitExecute, Commit, NextOver
    <2>7. CASE FailExecute(r)
      BY <2>7 DEF FailExecute, NextOver
    <2>8. CASE LateFailure(r) \/ RecordExecution(r)
      BY <2>8 DEF LateFailure, RecordExecution
    <2>9. CASE LoseRequest(r)
      <3>1. CASE session[r] = Idle
        <4>1. session' = session
          BY <2>9, <3>1 DEF LoseRequest, AgentTypeOK, TypeOK
        <4>. QED
          BY <2>9, <4>1 DEF LoseRequest, vars
      <3>2. CASE session[r] # Idle
        BY <2>9, <3>2 DEF LoseRequest, Abort, NextOver
      <3>. QED
        BY <3>1, <3>2
    <2>. QED
      BY <1>3, <2>1, <2>2, <2>3, <2>4, <2>5, <2>6, <2>7, <2>8, <2>9 DEF ServeRequest
  <1>. QED
    BY <1>1, <1>2, <1>3 DEF AgentNext
-----------------------------------------------------------------------------
(* Types *)

LEMMA AgentInitType == AgentInit => AgentTypeOK
  BY InitType DEF AgentInit, AgentTypeOK, NoApproval, NotServing, Serving

\* A request that starts, goes on or stops serving.
LEMMA ServeType ==
    ASSUME AgentTypeOK, NEW r \in Requests, NEW s \in Serving, Serve(r, s)
    PROVE  agent' \in [Requests -> Serving]
  BY DEF AgentTypeOK, Serve

LEMMA MarkedType ==
    ASSUME NEW row \in ApprovalRow,
           NEW st \in {"executed", "execution_failed"} \cup Decisions
    PROVE  Marked(row, st) \in ApprovalRow
  BY DEF Marked, ApprovalRow
-----------------------------------------------------------------------------
(* Approved first *)

\* A step that changes only who serves what, and counts an effect if an
\* execution commits.
LEMMA ServeBacked ==
    ASSUME AgentTypeOK, ApprovalBacked, NEW r \in Requests, NEW s \in Serving, Serve(r, s),
           UNCHANGED approvals, TypeOK',
           s # NotServing => approvals[s.approval].status # "absent",
           s.op = "execute" => approvals[s.approval].approvedAt,
           \/ UNCHANGED effects
           \/ s.op = "execute" /\ effects' = [effects EXCEPT ![s.approval] = @ + 1]
    PROVE  AgentTypeOK' /\ ApprovalBacked'
  <1>1. agent' \in [Requests -> Serving] /\ agent' = [agent EXCEPT ![r] = s]
    BY ServeType DEF Serve
  <1>2. s.op = "execute" => s.approval \in ApprovalIds
    BY DEF Serving, NotServing
  <1>3. effects' \in [ApprovalIds -> Nat]
    BY <1>2 DEF AgentTypeOK
  <1>4. \A a \in ApprovalIds : effects'[a] > 0 =>
          effects[a] > 0 \/ (s.op = "execute" /\ a = s.approval)
    BY <1>2 DEF AgentTypeOK
  <1>5. s.op = "execute" => s # NotServing
    BY DEF NotServing
  <1>6. AgentTypeOK'
    BY <1>1, <1>3 DEF AgentTypeOK
  <1>7. \A q \in Requests : agent'[q] = IF q = r THEN s ELSE agent[q]
    BY <1>1 DEF AgentTypeOK
  <1>8. NoEffectUnapproved'
    BY <1>4 DEF ApprovalBacked, NoEffectUnapproved
  <1>9. \A a \in ApprovalIds : effects'[a] > 0 => approvals[a].status # "absent"
    BY <1>4, <1>5 DEF ApprovalBacked
  <1>. QED
    BY <1>6, <1>7, <1>8, <1>9 DEF ApprovalBacked

\* A step that overwrites the status of the request it serves.
LEMMA MarkBacked ==
    ASSUME AgentTypeOK, ApprovalBacked, NEW r \in Requests, agent[r] # NotServing,
           NEW st \in {"executed", "execution_failed"} \cup Decisions,
           approvals' = [approvals EXCEPT ![agent[r].approval] = Marked(@, st)],
           Serve(r, NotServing), UNCHANGED <<vars, effects>>
    PROVE  AgentTypeOK' /\ ApprovalBacked'
  <1>. DEFINE a == agent[r].approval
  <1>1. a \in ApprovalIds /\ approvals[a].status # "absent"
    <2>1. agent[r].op \in {"decide", "execute"}
      BY DEF AgentTypeOK, Serving
    <2>. QED
      BY <2>1, ServingType DEF ApprovalBacked
  <1>2. approvals[a] \in ApprovalRow /\ Marked(approvals[a], st) \in ApprovalRow
    BY <1>1, AskedType, MarkedType
  <1>3. /\ approvals' \in [ApprovalIds -> ApprovalRow \cup {NoApproval}]
        /\ approvals'[a] = Marked(approvals[a], st)
        /\ \A b \in ApprovalIds \ {a} : approvals'[b] = approvals[b]
    BY <1>1, <1>2 DEF AgentTypeOK
  <1>4. /\ Marked(approvals[a], st).status = st
        /\ st = "approved" => Marked(approvals[a], st).approvedAt
        /\ approvals[a].approvedAt => Marked(approvals[a], st).approvedAt
    BY DEF Marked
  <1>5. /\ agent' \in [Requests -> Serving]
        /\ agent'[r] = NotServing
        /\ \A q \in Requests \ {r} : agent'[q] = agent[q]
    BY DEF Serve, AgentTypeOK, Serving
  <1>6. AgentTypeOK'
    BY <1>3, <1>5, StepType DEF AgentTypeOK
  <1>7. st # "absent"
    BY DEF Decisions
  <1>8. NoEffectUnapproved'
    BY <1>3, <1>4 DEF ApprovalBacked, NoEffectUnapproved
  <1>9. \A b \in ApprovalIds :
          /\ approvals'[b].status = "approved" => approvals'[b].approvedAt
          /\ effects'[b] > 0 => approvals'[b].status # "absent"
    BY <1>3, <1>4, <1>7 DEF ApprovalBacked
  <1>10. \A b \in ApprovalIds :
          /\ approvals[b].status # "absent" => approvals'[b].status # "absent"
          /\ approvals[b].approvedAt => approvals'[b].approvedAt
    BY <1>3, <1>4, <1>7
  <1>11. \A q \in Requests : agent'[q] # NotServing =>
          /\ approvals'[agent'[q].approval].status # "absent"
          /\ agent'[q].op = "execute" => approvals'[agent'[q].approval].approvedAt
    <2>. SUFFICES ASSUME NEW q \in Requests, agent'[q] # NotServing
                  PROVE  /\ approvals'[agent[q].approval].status # "absent"
                         /\ agent[q].op = "execute" => approvals'[agent[q].approval].approvedAt
      BY <1>5
    <2>1. agent'[q] = agent[q] /\ agent[q] # NotServing
      BY <1>5
    <2>2. agent[q].op \in {"decide", "execute"}
      BY <2>1 DEF AgentTypeOK, Serving
    <2>3. agent[q].approval \in ApprovalIds
      BY <2>2, ServingType
    <2>. QED
      BY <1>10, <2>1, <2>3 DEF ApprovalBacked
  <1>. QED
    BY <1>6, <1>8, <1>9, <1>11 DEF ApprovalBacked

\* A fresh request: nobody serves it yet and it has no effect yet.
LEMMA AskBacked ==
    ASSUME AgentTypeOK, ApprovalBacked, NEW c \in Callers, NEW a \in ApprovalIds,
           NEW asked \in Asks, Ask(c, a, asked)
    PROVE  AgentTypeOK' /\ ApprovalBacked'
  <1>. DEFINE row == [status |-> "pending", asked |-> asked, approvedAt |-> FALSE]
  <1>1. row \in ApprovalRow
    BY AsksAssumption DEF ApprovalRow
  <1>2. approvals' = [approvals EXCEPT ![a] = row] /\ UNCHANGED <<vars, agent, effects>>
    BY DEF Ask
  <1>3. /\ approvals' \in [ApprovalIds -> ApprovalRow \cup {NoApproval}]
        /\ approvals'[a] = row
        /\ \A b \in ApprovalIds \ {a} : approvals'[b] = approvals[b]
    BY <1>1, <1>2 DEF AgentTypeOK
  <1>4. AgentTypeOK'
    BY <1>2, <1>3, StepType DEF AgentTypeOK
  <1>5. \A b \in ApprovalIds : effects[b] > 0 => b # a
    BY DEF ApprovalBacked, Ask
  <1>6. \A q \in Requests : agent[q] # NotServing =>
          agent[q].approval \in ApprovalIds \ {a}
    <2>. SUFFICES ASSUME NEW q \in Requests, agent[q] # NotServing
                  PROVE  agent[q].approval \in ApprovalIds \ {a}
      OBVIOUS
    <2>1. agent[q].op \in {"decide", "execute"}
      BY DEF AgentTypeOK, Serving
    <2>2. agent[q].approval \in ApprovalIds
      BY <2>1, ServingType
    <2>. QED
      BY <2>2 DEF ApprovalBacked, Ask
  <1>7. NoEffectUnapproved'
    BY <1>2, <1>3, <1>5 DEF ApprovalBacked, NoEffectUnapproved
  <1>. QED
    BY <1>2, <1>3, <1>4, <1>5, <1>6, <1>7 DEF ApprovalBacked

LEMMA ServeRequestBacked ==
    ASSUME AgentTypeOK, ApprovalBacked, TypeOK', NEW r \in Requests, ServeRequest(r)
    PROVE  AgentTypeOK' /\ ApprovalBacked'
  <1>0. NotServing \in Serving /\ NotServing.op = "none"
    BY DEF Serving, NotServing
  <1>1. ASSUME NEW c \in Approvers, NEW a \in ApprovalIds, NEW d \in Decisions,
               BeginDecide(r, c, a, d)
        PROVE  AgentTypeOK' /\ ApprovalBacked'
    <2>. DEFINE s == [op |-> "decide", approval |-> a, decision |-> d]
    <2>1. s \in Serving
      BY DEF Serving
    <2>2. /\ Serve(r, s) /\ UNCHANGED <<approvals, effects>>
          /\ approvals[a].status # "absent"
      BY <1>1 DEF BeginDecide
    <2>. QED
      BY <2>1, <2>2, ServeBacked
  <1>2. ASSUME NEW c \in Approvers, NEW a \in ApprovalIds,
               BeginExecute(r, c, a) \/ RefuseExecute(r, c, a)
        PROVE  AgentTypeOK' /\ ApprovalBacked'
    <2>1. PICK phase \in {"running", "failed"} : Serve(r, Execution(a, phase))
      BY <1>2 DEF BeginExecute, RefuseExecute
    <2>. DEFINE s == Execution(a, phase)
    <2>2. s \in Serving /\ s.approval = a /\ s.op = "execute"
      BY DEF Serving, Execution
    <2>3. /\ UNCHANGED <<approvals, effects>>
          /\ approvals[a].status = "approved"
      BY <1>2 DEF BeginExecute, RefuseExecute, Executable
    <2>4. approvals[a].approvedAt
      BY <2>3 DEF ApprovalBacked
    <2>. HIDE DEF s
    <2>5. Serve(r, s)
      BY <2>1 DEF s
    <2>. QED
      BY <2>2, <2>3, <2>4, <2>5, ServeBacked
  <1>3. ASSUME NEW c \in Approvers, NEW a \in ApprovalIds, NEW o \in OrderIds,
               ExecuteCreate(r, c, a, o)
        PROVE  AgentTypeOK' /\ ApprovalBacked'
    <2>. DEFINE s == Execution(a, "done")
    <2>1. s \in Serving /\ s.approval = a /\ s.op = "execute"
      BY DEF Serving, Execution
    <2>2. /\ Serve(r, s) /\ UNCHANGED approvals
          /\ effects' = [effects EXCEPT ![a] = @ + 1]
          /\ approvals[a].status = "approved"
      BY <1>3 DEF ExecuteCreate, Executable
    <2>3. approvals[a].approvedAt
      BY <2>2 DEF ApprovalBacked
    <2>. HIDE DEF s
    <2>. QED
      BY <2>1, <2>2, <2>3, ServeBacked
  <1>4. CASE CommitDecide(r)
    <2>1. agent[r] # NotServing /\ agent[r].decision \in Decisions
      BY <1>0, <1>4, ServingType DEF CommitDecide
    <2>. QED
      BY <1>4, <2>1, MarkBacked DEF CommitDecide
  <1>5. CASE RecordExecution(r)
    <2>. DEFINE st == IF Executing(r, "done") THEN "executed" ELSE "execution_failed"
    <2>1. agent[r] # NotServing
      BY <1>0, <1>5 DEF RecordExecution, Executing
    <2>2. st \in {"executed", "execution_failed"}
      OBVIOUS
    <2>. HIDE DEF st
    <2>3. /\ approvals' = [approvals EXCEPT ![agent[r].approval] = Marked(@, st)]
          /\ Serve(r, NotServing) /\ UNCHANGED <<vars, effects>>
      BY <1>5 DEF RecordExecution, st
    <2>. QED
      BY <2>1, <2>2, <2>3, MarkBacked
  <1>6. CASE CommitExecute(r) \/ FailExecute(r) \/ LateFailure(r)
    <2>. DEFINE a == agent[r].approval
    <2>1. agent[r].op = "execute" /\ agent[r] # NotServing
      BY <1>0, <1>6 DEF CommitExecute, FailExecute, LateFailure, Executing
    <2>2. a \in ApprovalIds /\ agent[r] = Execution(a, agent[r].phase)
      BY <2>1, ServingType
    <2>3. approvals[a].status # "absent" /\ approvals[a].approvedAt
      BY <2>1 DEF ApprovalBacked
    <2>4. ASSUME NEW phase \in {"done", "failed"}, Serve(r, [agent[r] EXCEPT !.phase = phase]),
                 UNCHANGED approvals,
                 UNCHANGED effects \/ effects' = [effects EXCEPT ![a] = @ + 1]
          PROVE  AgentTypeOK' /\ ApprovalBacked'
      <3>. DEFINE s == Execution(a, phase)
      <3>1. [agent[r] EXCEPT !.phase = phase] = s
        BY <2>2 DEF Execution
      <3>2. s \in Serving /\ s.approval = a /\ s.op = "execute"
        BY <2>2 DEF Serving, Execution
      <3>. HIDE DEF s
      <3>3. Serve(r, s)
        BY <2>4, <3>1
      <3>. QED
        BY <2>3, <2>4, <3>2, <3>3, ServeBacked
    <2>. QED
      BY <1>6, <2>4 DEF CommitExecute, FailExecute, LateFailure
  <1>7. CASE LoseRequest(r)
    BY <1>0, <1>7, ServeBacked DEF LoseRequest
  <1>. QED
    BY <1>1, <1>2, <1>3, <1>4, <1>5, <1>6, <1>7 DEF ServeRequest

LEMMA AgentStep ==
    AgentTypeOK /\ ApprovalBacked /\ [AgentNext]_allVars => AgentTypeOK' /\ ApprovalBacked'
  <1>. SUFFICES ASSUME AgentTypeOK, ApprovalBacked, [AgentNext]_allVars
                PROVE  AgentTypeOK' /\ ApprovalBacked'
    OBVIOUS
  <1>1. TypeOK'
    <2>1. [NextOver(QueueEndpoints)]_vars
      BY OrdinaryStep DEF allVars
    <2>. QED
      BY <2>1, StepType DEF AgentTypeOK
  <1>2. CASE UNCHANGED agentVars
    BY <1>1, <1>2 DEF agentVars, AgentTypeOK, ApprovalBacked, NoEffectUnapproved
  <1>3. CASE \E c \in Callers, a \in ApprovalIds, asked \in Asks : Ask(c, a, asked)
    BY <1>3, AskBacked
  <1>4. CASE \E r \in Requests : ServeRequest(r)
    BY <1>1, <1>4, ServeRequestBacked
  <1>. QED
    BY <1>2, <1>3, <1>4 DEF AgentNext, WorkOrderStep, allVars

LEMMA AgentInitBacked == AgentInit => ApprovalBacked
  BY DEF AgentInit, ApprovalBacked, NoEffectUnapproved, NoApproval, NotServing

LEMMA QueueInvariant == AgentSpec => [](AgentTypeOK /\ ApprovalBacked)
  BY AgentInitType, AgentInitBacked, AgentStep, PTL DEF AgentSpec

\* Type correctness of the queue and of the work orders under it.
THEOREM AgentTypeCorrect == AgentSpec => []AgentTypeOK
  BY QueueInvariant, PTL

\* Whatever overlaps and whatever is lost, no agent request changes a work order
\* that nobody approved.
THEOREM ApprovedFirst == AgentSpec => []NoEffectUnapproved
  <1>1. ApprovalBacked => NoEffectUnapproved
    BY DEF ApprovalBacked
  <1>. QED
    BY <1>1, QueueInvariant, PTL

\* The queue changes work orders only as the ordinary endpoints could.
THEOREM QueueIsOrdinary == AgentSpec => OnlyOrdinarySteps
  <1>1. AgentTypeOK /\ [AgentNext]_allVars => [NextOver(QueueEndpoints)]_vars
    BY OrdinaryStep DEF allVars
  <1>. QED
    BY <1>1, AgentTypeCorrect, PTL DEF AgentSpec, OnlyOrdinarySteps

\* So what was proved of the workflow holds with the queue on top of it: agents
\* skip no step of a rectification either.
THEOREM QueueAlwaysEarned == AgentSpec => []StatusEarned
  <1>1. AgentInit => StatusEarned
    BY InitEarned DEF AgentInit
  <1>2. AgentTypeOK /\ StatusEarned /\ [NextOver(QueueEndpoints)]_vars => StatusEarned'
    BY StepEarned DEF AgentTypeOK
  <1>3. AgentTypeOK /\ StatusEarned /\ [AgentNext]_allVars => StatusEarned'
    BY <1>2, OrdinaryStep DEF allVars
  <1>. QED
    BY <1>1, <1>3, AgentTypeCorrect, PTL DEF AgentSpec

LEMMA QueueEarned == AgentSpec => [](StatusEarned /\ RowsStand)
  <1>1. AgentInit => StatusEarned /\ RowsStand
    BY InitEarned, InitStands DEF AgentInit
  <1>2. AgentTypeOK /\ StatusEarned /\ RowsStand /\ [AgentNext]_allVars => StatusEarned' /\ RowsStand'
    <2>. SUFFICES ASSUME AgentTypeOK, StatusEarned, RowsStand, [AgentNext]_allVars
                  PROVE  StatusEarned' /\ RowsStand'
      OBVIOUS
    <2>1. [NextOver(QueueEndpoints)]_vars /\ TypeOK
      BY OrdinaryStep DEF allVars, AgentTypeOK
    <2>. QED
      BY <2>1, StepEarned, StepStands
  <1>. QED
    BY <1>1, <1>2, AgentTypeCorrect, PTL DEF AgentSpec

\* What a step of the queue does to the tables is an ordinary effect.
LEMMA QueueEffects ==
    ASSUME AgentTypeOK, StatusEarned, RowsStand, [AgentNext]_allVars
    PROVE  Effects /\ TypeOK /\ TypeOK'
  <1>1. [NextOver(QueueEndpoints)]_vars /\ TypeOK
    BY OrdinaryStep DEF allVars, AgentTypeOK
  <1>. QED
    BY <1>1, StepEffects, StepType

\* Everything proved of overlapping requests holds with the agents' requests
\* among them.
THEOREM QueueKeepsGuarantees ==
    AgentSpec => [](StatusExplained /\ ActorsEntitled /\ HazardClosedByReview
                    /\ ClosedOrderClosesHazard)
  <1>. DEFINE Guarantees == StatusExplained /\ ActorsEntitled /\ HazardClosedByReview
                            /\ ClosedOrderClosesHazard
  <1>1. AgentInit => Guarantees
    BY DEF AgentInit, Init, StatusExplained, ActorsEntitled, HazardClosedByReview,
           ClosedOrderClosesHazard, Logged, NoOrder, NoHazard
  <1>2. AgentTypeOK /\ StatusEarned /\ RowsStand /\ Guarantees /\ [AgentNext]_allVars => Guarantees'
    <2>. SUFFICES ASSUME AgentTypeOK, StatusEarned, RowsStand, Guarantees, [AgentNext]_allVars
                  PROVE  Guarantees'
      OBVIOUS
    <2>1. Effects /\ TypeOK /\ TypeOK'
      BY QueueEffects
    <2>. QED
      BY <2>1, StepExplained, StepEntitled, StepHazardClosed, StepClosedCloses
  <1>. QED
    BY <1>1, <1>2, AgentTypeCorrect, QueueEarned, PTL DEF AgentSpec

\* With the agents' requests among the others, the tables are still a record of
\* the rectification.
THEOREM QueueKeepsRecord == AgentSpec => KeepsRecord
  <1>1. AgentInit => Record!RecordInit
    BY RecordStarts DEF AgentInit
  <1>2. AgentTypeOK /\ StatusEarned /\ RowsStand /\ [AgentNext]_allVars
        => [Record!RecordNext]_Record!recordVars
    <2>. SUFFICES ASSUME AgentTypeOK, StatusEarned, RowsStand, [AgentNext]_allVars
                  PROVE  [Record!RecordNext]_Record!recordVars
      OBVIOUS
    <2>1. [NextOver(QueueEndpoints)]_vars /\ TypeOK
      BY OrdinaryStep DEF allVars, AgentTypeOK
    <2>. QED
      BY <2>1, StepRecorded
  <1>. QED
    BY <1>1, <1>2, AgentTypeCorrect, QueueEarned, PTL
    DEF AgentSpec, KeepsRecord, Record!RecordSpec
-----------------------------------------------------------------------------
(* Executed means done *)

\* The transaction a running execution owns is the one its approval asked for.
Running(r) ==
    LET asked == approvals[agent[r].approval].asked
    IN  /\ asked.tool = "work_orders.transition"
        /\ session[r].op \in {"transition", "review"}
        /\ session[r].order = asked.target
        /\ asked.action = IF session[r].op = "review" THEN "review_pass" ELSE session[r].action

ExecutionBacked ==
    /\ \A r \in Requests :
         /\ Executing(r, "running") => Running(r)
         /\ Executing(r, "done") => effects[agent[r].approval] > 0 /\ Shown(agent[r].approval)
    /\ ExecutedMeansEffect

\* What the tables show, they go on showing: logs grow, and orders keep their
\* project, source and rule.
LEMMA ShownStays ==
    ASSUME AgentTypeOK, Effects, NEW a \in ApprovalIds, approvals[a].status # "absent", Shown(a),
           approvals'[a].asked = approvals[a].asked
    PROVE  Shown(a)'
  <1>1. /\ TypeOK
        /\ IsTransition(a) => AskedOf(a).target \in OrderIds
    BY AskedType DEF AgentTypeOK, IsTransition, AskedOf
  <1>2. CASE IsTransition(a)
    <2>1. PICK o \in OrderIds : o = AskedOf(a).target
      BY <1>1, <1>2
    <2>2. AskedOf(a).action \in Done(o) /\ Done(o) \subseteq Done(o)'
      BY <1>1, <1>2, <2>1, RowsKept DEF Shown
    <2>3. AskedOf(a)' = AskedOf(a)
      BY DEF AskedOf
    <2>4. (AskedOf(a).action \in Done(o))'
      BY <2>2, <2>3
    <2>5. (o = AskedOf(a).target)'
      BY <2>1, <2>3
    <2>. QED
      BY <1>2, <2>3, <2>4, <2>5 DEF Shown, IsTransition
  <1>3. CASE ~ IsTransition(a)
    <2>1. PICK o \in OrderIds : /\ orders[o].status # "absent"
                                /\ SameColumns(CreateBody(AskedOf(a)), orders[o])
      BY <1>3 DEF Shown
    <2>2. orders'[o].status # "absent" /\ SameColumns(orders[o], orders'[o])
      BY <1>1, <2>1, RowsKept
    <2>3. AskedOf(a)' = AskedOf(a)
      BY DEF AskedOf
    <2>4. SameColumns(CreateBody(AskedOf(a)), orders'[o])
      BY <2>1, <2>2 DEF SameColumns
    <2>. QED
      BY <1>3, <2>2, <2>3, <2>4 DEF Shown, IsTransition
  <1>. QED
    BY <1>2, <1>3

\* A served approval exists.
LEMMA ServedExists ==
    ASSUME AgentTypeOK, ApprovalBacked, NEW r \in Requests, agent[r].op = "execute"
    PROVE  agent[r].approval \in ApprovalIds /\ approvals[agent[r].approval].status # "absent"
  <1>1. agent[r] # NotServing
    BY DEF NotServing
  <1>. QED
    BY <1>1, ServingType DEF ApprovalBacked

\* A step keeps what requests ask for and never takes an effect back.
Kept == \A a \in ApprovalIds :
    /\ approvals[a].status # "absent" =>
         approvals'[a].asked = approvals[a].asked /\ approvals'[a].status # "absent"
    /\ effects[a] > 0 => effects'[a] > 0

Backed(r) ==
    /\ Executing(r, "running") => Running(r)
    /\ Executing(r, "done") => effects[agent[r].approval] > 0 /\ Shown(agent[r].approval)

\* A request that the step leaves alone stays backed.
LEMMA OthersBacked ==
    ASSUME AgentTypeOK, ApprovalBacked, Effects, Kept, NEW r \in Requests, Backed(r),
           agent'[r] = agent[r], Executing(r, "running") => session'[r] = session[r]
    PROVE  Backed(r)'
  <1>1. CASE agent[r].op = "execute"
    <2>1. PICK a \in ApprovalIds : a = agent[r].approval /\ approvals[a].status # "absent"
      BY <1>1, ServedExists
    <2>2. approvals'[a].asked = approvals[a].asked /\ a = agent'[r].approval
      BY <2>1 DEF Kept
    <2>3. Executing(r, "running")' => Running(r)'
      BY <2>1, <2>2 DEF Backed, Executing, Running
    <2>4. ASSUME Executing(r, "done")' PROVE effects'[a] > 0 /\ Shown(a)'
      <3>1. effects[a] > 0 /\ Shown(a)
        BY <2>1, <2>4 DEF Backed, Executing
      <3>. QED
        BY <2>1, <2>2, <3>1, ShownStays DEF Kept
    <2>5. Executing(r, "done")' =>
            (effects[agent[r].approval] > 0 /\ Shown(agent[r].approval))'
      BY <2>2, <2>4 DEF Shown, IsTransition, AskedOf
    <2>. QED
      BY <2>3, <2>5 DEF Backed
  <1>2. CASE agent[r].op # "execute"
    BY <1>2 DEF Backed, Executing
  <1>. QED
    BY <1>1, <1>2

\* An approval becomes executed only when an execution that is done records it.
LEMMA ExecutedBacked ==
    ASSUME AgentTypeOK, ApprovalBacked, ExecutionBacked, Effects, Kept,
           \A a \in ApprovalIds : approvals'[a].status = "executed" =>
              \/ approvals[a].status = "executed"
              \/ \E r \in Requests : Executing(r, "done") /\ agent[r].approval = a
    PROVE  ExecutedMeansEffect'
  <1>. SUFFICES ASSUME NEW a \in ApprovalIds, approvals'[a].status = "executed"
               PROVE  effects'[a] > 0 /\ Shown(a)'
    BY DEF ExecutedMeansEffect
  <1>1. effects[a] > 0 /\ Shown(a)
    BY DEF ExecutionBacked, ExecutedMeansEffect
  <1>2. approvals[a].status # "absent"
    BY <1>1 DEF ApprovalBacked
  <1>. QED
    BY <1>1, <1>2, ShownStays DEF Kept

\* A step that only serves: it leaves the approvals and the other requests alone.
LEMMA ServeStepBacked ==
    ASSUME AgentTypeOK, ApprovalBacked, ExecutionBacked, Effects, Kept,
           \A a \in ApprovalIds : approvals'[a].status = "executed" =>
              \/ approvals[a].status = "executed"
              \/ \E q \in Requests : Executing(q, "done") /\ agent[q].approval = a,
           NEW r \in Requests, Backed(r)',
           \A q \in Requests \ {r} : agent'[q] = agent[q] /\ session'[q] = session[q]
    PROVE  ExecutionBacked'
  <1>1. ExecutedMeansEffect'
    BY ExecutedBacked
  <1>2. \A q \in Requests : Backed(q)
    BY DEF ExecutionBacked, Backed
  <1>3. \A q \in Requests : Backed(q)'
    BY <1>2, OthersBacked
  <1>. QED
    BY <1>1, <1>3 DEF ExecutionBacked, Backed

LEMMA ServeOnly ==
    ASSUME AgentTypeOK, NEW r \in Requests, NEW s, Serve(r, s)
    PROVE  agent'[r] = s /\ \A q \in Requests \ {r} : agent'[q] = agent[q]
  BY DEF Serve, AgentTypeOK

LEMMA SessionOnly ==
    ASSUME AgentTypeOK, NEW r \in Requests, NEW s, session' = [session EXCEPT ![r] = s]
    PROVE  session'[r] = s /\ \A q \in Requests \ {r} : session'[q] = session[q]
  BY DEF AgentTypeOK, TypeOK

\* What the COMMIT of an execution writes is what was asked for.
LEMMA CommitShows ==
    ASSUME AgentTypeOK, ApprovalBacked, NEW r \in Requests, Running(r), CommitExecute(r),
           NEW a \in ApprovalIds, a = agent[r].approval
    PROVE  Shown(a)'
  <1>. DEFINE s == session[r]
  <1>1. /\ approvals' = approvals /\ AskedOf(a).tool = "work_orders.transition" /\ TypeOK
        /\ s.order = AskedOf(a).target
        /\ AskedOf(a).action = IF s.op = "review" THEN "review_pass" ELSE s.action
    BY DEF Running, CommitExecute, AskedOf, AgentTypeOK
  <1>2. PICK o \in OrderIds : o = s.order
    <2>1. s.op \in {"transition", "review"}
      BY DEF Running
    <2>. QED
      BY <1>1, <2>1, SessionTypes DEF TransitionSession, ReviewSession
  <1>3. PICK e : Log(o, e) /\ e.action = AskedOf(a).action
    <2>1. CASE CommitTransition(r)
      <3>1. Log(o, LogEntry(s.row.status, s.action, s.to, s.caller)) /\ s.op = "transition"
        BY <1>2, <2>1 DEF CommitTransition
      <3>. QED
        BY <1>1, <3>1 DEF LogEntry
    <2>2. CASE CommitReviewPass(r)
      <3>1. /\ Log(o, LogEntry(s.view.orders[o].status, "review_pass", "closed", s.caller))
            /\ s.op = "review"
        BY <1>2, <2>2 DEF CommitReviewPass
      <3>. QED
        BY <1>1, <3>1 DEF LogEntry
    <2>. QED
      BY <2>1, <2>2 DEF CommitExecute
  <1>4. Done(o)' = Done(o) \cup {e.action}
    BY <1>1, <1>3, DoneAfterLog
  <1>5. AskedOf(a)' = AskedOf(a)
    BY <1>1 DEF AskedOf
  <1>6. (o = AskedOf(a).target /\ AskedOf(a).action \in Done(o))'
    BY <1>1, <1>2, <1>3, <1>4, <1>5
  <1>. QED
    BY <1>1, <1>5, <1>6 DEF Shown, IsTransition

LEMMA CreateShows ==
    ASSUME AgentTypeOK, NEW r \in Requests, NEW c \in Approvers, NEW a \in ApprovalIds,
           NEW o \in OrderIds, ExecuteCreate(r, c, a, o)
    PROVE  Shown(a)'
  <1>. DEFINE body == CreateBody(AskedOf(a))
  <1>1. /\ AskedOf(a).tool = "work_orders.create" /\ AskedOf(a)' = AskedOf(a)
        /\ orders'[o] = NewOrder(body.project, body.sub, body.hazard, body.rule, body.own)
    BY DEF ExecuteCreate, CreateWorkOrder, AskedOf, AgentTypeOK, TypeOK
  <1>2. SameColumns(body, orders'[o]) /\ orders'[o].status # "absent"
    <2>. HIDE DEF body
    <2>. QED
      BY <1>1 DEF SameColumns, NewOrder
  <1>. QED
    BY <1>1, <1>2 DEF Shown, IsTransition

LEMMA AskKeeps ==
    ASSUME AgentTypeOK, ApprovalBacked, NEW c \in Callers, NEW a \in ApprovalIds,
           NEW asked \in Asks, Ask(c, a, asked)
    PROVE  /\ Kept
           /\ \A b \in ApprovalIds : approvals'[b].status = "executed" =>
                 approvals[b].status = "executed"
  BY DEF Ask, Kept, AgentTypeOK

LEMMA MarkKeeps ==
    ASSUME AgentTypeOK, ApprovalBacked, NEW a \in ApprovalIds, NEW st, st # "absent",
           approvals' = [approvals EXCEPT ![a] = Marked(@, st)], UNCHANGED effects
    PROVE  /\ Kept
           /\ \A b \in ApprovalIds : approvals'[b].status = "executed" =>
                 approvals[b].status = "executed" \/ (b = a /\ st = "executed")
  BY DEF Kept, AgentTypeOK, Marked

LEMMA EffectKeeps ==
    ASSUME AgentTypeOK, NEW a \in ApprovalIds, UNCHANGED approvals,
           UNCHANGED effects \/ effects' = [effects EXCEPT ![a] = @ + 1]
    PROVE  Kept
  BY DEF Kept, AgentTypeOK

LEMMA EffectCounted ==
    ASSUME AgentTypeOK, NEW a \in ApprovalIds, effects' = [effects EXCEPT ![a] = @ + 1]
    PROVE  effects'[a] > 0
  BY DEF AgentTypeOK

LEMMA ServeRequestExecution ==
    ASSUME AgentTypeOK, ApprovalBacked, ExecutionBacked, Effects, NEW r \in Requests, ServeRequest(r)
    PROVE  ExecutionBacked'
  <1>0. /\ NotServing.op = "none"
        /\ \A a, phase : /\ Execution(a, phase).op = "execute"
                            /\ Execution(a, phase).approval = a
                            /\ Execution(a, phase).phase = phase
    BY DEF NotServing, Execution
  <1>1. ASSUME NEW c \in Approvers, NEW a \in ApprovalIds, NEW d \in Decisions,
               BeginDecide(r, c, a, d)
        PROVE  ExecutionBacked'
    <2>1. Kept /\ UNCHANGED approvals
      BY <1>1, EffectKeeps DEF BeginDecide
    <2>2. agent'[r].op = "decide" /\ \A q \in Requests \ {r} : agent'[q] = agent[q]
      BY <1>1, ServeOnly DEF BeginDecide
    <2>3. Backed(r)' /\ session' = session
      BY <1>1, <2>2 DEF Backed, Executing, BeginDecide, vars
    <2>. QED
      BY <2>1, <2>2, <2>3, ServeStepBacked
  <1>2. ASSUME NEW c \in Approvers, NEW a \in ApprovalIds, BeginExecute(r, c, a)
        PROVE  ExecutionBacked'
    <2>1. Kept /\ UNCHANGED approvals
      BY <1>2, EffectKeeps DEF BeginExecute
    <2>2. agent'[r] = Execution(a, "running") /\ \A q \in Requests \ {r} : agent'[q] = agent[q]
      BY <1>2, ServeOnly DEF BeginExecute
    <2>3. PICK s : /\ session' = [session EXCEPT ![r] = s] /\ s.op \in {"transition", "review"}
                   /\ s.order = approvals[a].asked.target
                   /\ approvals[a].asked.action = IF s.op = "review" THEN "review_pass" ELSE s.action
      BY <1>2 DEF BeginExecute, BeginReviewPass, BeginTransition
    <2>4. session'[r] = s /\ \A q \in Requests \ {r} : session'[q] = session[q]
      BY <2>3, SessionOnly
    <2>5. agent'[r].approval = a /\ agent'[r].phase = "running"
      BY <1>0, <2>2
    <2>6. Backed(r)'
      BY <1>2, <2>1, <2>3, <2>4, <2>5 DEF Backed, Executing, Running, BeginExecute
    <2>. QED
      BY <2>1, <2>2, <2>4, <2>6, ServeStepBacked
  <1>3. ASSUME NEW c \in Approvers, NEW a \in ApprovalIds, RefuseExecute(r, c, a)
        PROVE  ExecutionBacked'
    <2>1. Kept /\ UNCHANGED approvals /\ session' = session
      BY <1>3, EffectKeeps DEF RefuseExecute, vars
    <2>2. agent'[r] = Execution(a, "failed") /\ \A q \in Requests \ {r} : agent'[q] = agent[q]
      BY <1>3, ServeOnly DEF RefuseExecute
    <2>3. Backed(r)'
      BY <1>0, <2>2 DEF Backed, Executing
    <2>. QED
      BY <2>1, <2>2, <2>3, ServeStepBacked
  <1>4. ASSUME NEW c \in Approvers, NEW a \in ApprovalIds, NEW o \in OrderIds,
               ExecuteCreate(r, c, a, o)
        PROVE  ExecutionBacked'
    <2>1. Kept /\ UNCHANGED approvals /\ session' = session
      BY <1>4, EffectKeeps DEF ExecuteCreate, CreateWorkOrder
    <2>2. agent'[r] = Execution(a, "done") /\ \A q \in Requests \ {r} : agent'[q] = agent[q]
      BY <1>4, ServeOnly DEF ExecuteCreate
    <2>3. effects'[a] > 0 /\ Shown(a)'
      BY <1>4, EffectCounted, CreateShows DEF ExecuteCreate
    <2>4. (a = agent[r].approval)'
      BY <1>0, <2>2
    <2>5. Backed(r)'
      BY <1>0, <2>2, <2>3, <2>4 DEF Backed, Executing, Shown, IsTransition, AskedOf
    <2>. QED
      BY <2>1, <2>2, <2>5, ServeStepBacked
  <1>5. CASE CommitDecide(r)
    <2>1. agent[r].approval \in ApprovalIds /\ agent[r].decision \in Decisions
      BY <1>5, ServingType DEF CommitDecide
    <2>2. /\ Kept
          /\ \A b \in ApprovalIds : approvals'[b].status = "executed" =>
                approvals[b].status = "executed"
      BY <1>5, <2>1, MarkKeeps DEF CommitDecide, Decisions
    <2>3. agent'[r] = NotServing /\ \A q \in Requests \ {r} : agent'[q] = agent[q]
      BY <1>5, ServeOnly DEF CommitDecide
    <2>4. Backed(r)' /\ session' = session
      BY <1>0, <1>5, <2>3 DEF Backed, Executing, CommitDecide, vars
    <2>. QED
      BY <2>2, <2>3, <2>4, ServeStepBacked
  <1>6. CASE CommitExecute(r)
    <2>1. PICK a \in ApprovalIds : a = agent[r].approval /\ agent[r] = Execution(a, "running")
      BY <1>6, ServingType DEF CommitExecute, Executing
    <2>2. Kept /\ UNCHANGED approvals
      BY <1>6, <2>1, EffectKeeps DEF CommitExecute
    <2>3. [agent[r] EXCEPT !.phase = "done"] = Execution(a, "done")
      BY <2>1 DEF Execution
    <2>4. agent'[r] = Execution(a, "done") /\ \A q \in Requests \ {r} : agent'[q] = agent[q]
      BY <1>6, <2>3, ServeOnly DEF CommitExecute
    <2>5. session' = [session EXCEPT ![r] = Idle]
      BY <1>6 DEF CommitExecute, CommitTransition, CommitReviewPass
    <2>6. Running(r)
      BY <1>6 DEF CommitExecute, ExecutionBacked
    <2>7. effects'[a] > 0 /\ Shown(a)'
      BY <1>6, <2>1, <2>6, EffectCounted, CommitShows DEF CommitExecute
    <2>8. (a = agent[r].approval)'
      BY <1>0, <2>4
    <2>9. Backed(r)'
      BY <1>0, <2>4, <2>7, <2>8 DEF Backed, Executing, Shown, IsTransition, AskedOf
    <2>. QED
      BY <2>2, <2>4, <2>5, <2>9, SessionOnly, ServeStepBacked
  <1>7. CASE FailExecute(r) \/ LateFailure(r)
    <2>1. PICK a \in ApprovalIds : agent[r] = Execution(a, agent[r].phase)
      BY <1>7, ServingType DEF FailExecute, LateFailure, Executing
    <2>2. Kept /\ UNCHANGED approvals
      BY <1>7, <2>1, EffectKeeps DEF FailExecute, LateFailure
    <2>3. [agent[r] EXCEPT !.phase = "failed"] = Execution(a, "failed")
      BY <2>1 DEF Execution
    <2>4. agent'[r] = Execution(a, "failed") /\ \A q \in Requests \ {r} : agent'[q] = agent[q]
      BY <1>7, <2>3, ServeOnly DEF FailExecute, LateFailure
    <2>5. \A q \in Requests \ {r} : session'[q] = session[q]
      BY <1>7, SessionOnly DEF FailExecute, Abort, LateFailure, vars
    <2>6. Backed(r)'
      BY <1>0, <2>4 DEF Backed, Executing
    <2>. QED
      BY <2>2, <2>4, <2>5, <2>6, ServeStepBacked
  <1>8. CASE RecordExecution(r)
    <2>1. PICK a \in ApprovalIds : a = agent[r].approval
      BY <1>8, ServingType DEF RecordExecution, Executing
    <2>2. PICK st \in {"executed", "execution_failed"} :
            /\ approvals' = [approvals EXCEPT ![a] = Marked(@, st)]
            /\ st = "executed" => Executing(r, "done")
      BY <1>8, <2>1 DEF RecordExecution
    <2>3. /\ Kept
          /\ \A b \in ApprovalIds : approvals'[b].status = "executed" =>
                approvals[b].status = "executed" \/ (b = a /\ st = "executed")
      BY <1>8, <2>2, MarkKeeps DEF RecordExecution
    <2>4. agent'[r] = NotServing /\ \A q \in Requests \ {r} : agent'[q] = agent[q]
      BY <1>8, ServeOnly DEF RecordExecution
    <2>5. Backed(r)' /\ session' = session
      BY <1>0, <1>8, <2>4 DEF Backed, Executing, RecordExecution, vars
    <2>. QED
      BY <2>1, <2>2, <2>3, <2>4, <2>5, ServeStepBacked
  <1>9. CASE LoseRequest(r)
    <2>1. Kept /\ UNCHANGED approvals
      BY <1>9 DEF LoseRequest, Kept
    <2>2. agent'[r] = NotServing /\ \A q \in Requests \ {r} : agent'[q] = agent[q]
      BY <1>9, ServeOnly DEF LoseRequest
    <2>3. Backed(r)'
      BY <1>0, <2>2 DEF Backed, Executing
    <2>4. \A q \in Requests \ {r} : session'[q] = session[q]
      BY <1>9, SessionOnly DEF LoseRequest
    <2>. QED
      BY <2>1, <2>2, <2>3, <2>4, ServeStepBacked
  <1>. QED
    BY <1>1, <1>2, <1>3, <1>4, <1>5, <1>6, <1>7, <1>8, <1>9 DEF ServeRequest

\* The ordinary endpoints leave a request that serves an approval alone.
LEMMA WorkOrderStepExecution ==
    ASSUME AgentTypeOK, ApprovalBacked, ExecutionBacked, Effects, WorkOrderStep
    PROVE  ExecutionBacked'
  <1>1. Kept /\ UNCHANGED <<approvals, agent, effects>>
    BY DEF WorkOrderStep, agentVars, Kept
  <1>2. ExecutedMeansEffect'
    BY <1>1, ExecutedBacked
  <1>3. ASSUME NEW q \in Requests PROVE Backed(q)'
    <2>1. Executing(q, "running") => session'[q] = session[q]
      <3>1. CASE Insert(Endpoints)
        BY <3>1 DEF Insert, CreateHazard, CreateWorkOrder
      <3>2. ASSUME NEW r \in Requests, agent[r] = NotServing,
                   Begin(Endpoints, r) \/ Commit(r) \/ Abort(r)
            PROVE  Executing(q, "running") => session'[q] = session[q]
        <4>1. \E s : session' = [session EXCEPT ![r] = s]
          BY <3>2 DEF Begin, BeginTransition, BeginReviewPass, BeginEscalate, BeginRecalculate,
                      Commit, CommitTransition, CommitReviewPass, CommitEscalate,
                      CommitRecalculate, Abort
        <4>2. Executing(q, "running") => q # r
          BY <3>2 DEF Executing, NotServing
        <4>. QED
          BY <4>1, <4>2, SessionOnly
      <3>. QED
        BY <3>1, <3>2 DEF WorkOrderStep
    <2>2. Backed(q)
      BY DEF ExecutionBacked, Backed
    <2>. QED
      BY <1>1, <2>1, <2>2, OthersBacked
  <1>. QED
    BY <1>2, <1>3 DEF ExecutionBacked, Backed

LEMMA ExecutionStep ==
    AgentTypeOK /\ ApprovalBacked /\ StatusEarned /\ RowsStand /\ ExecutionBacked
      /\ [AgentNext]_allVars => ExecutionBacked'
  <1>. SUFFICES ASSUME AgentTypeOK, ApprovalBacked, StatusEarned, RowsStand, ExecutionBacked,
                      [AgentNext]_allVars
               PROVE  ExecutionBacked'
    OBVIOUS
  <1>1. Effects
    BY QueueEffects
  <1>2. CASE WorkOrderStep
    BY <1>1, <1>2, WorkOrderStepExecution
  <1>3. ASSUME Kept, UNCHANGED <<agent, session>>,
               \A b \in ApprovalIds : approvals'[b].status = "executed" =>
                 approvals[b].status = "executed"
        PROVE  ExecutionBacked'
    <2>1. ExecutedMeansEffect'
      BY <1>1, <1>3, ExecutedBacked
    <2>2. \A q \in Requests : Backed(q)
      BY DEF ExecutionBacked, Backed
    <2>3. \A q \in Requests : Backed(q)'
      BY <1>1, <1>3, <2>2, OthersBacked
    <2>. QED
      BY <2>1, <2>3 DEF ExecutionBacked, Backed
  <1>4. ASSUME NEW c \in Callers, NEW a \in ApprovalIds, NEW asked \in Asks, Ask(c, a, asked)
        PROVE  ExecutionBacked'
    BY <1>3, <1>4, AskKeeps DEF Ask, vars
  <1>5. ASSUME NEW r \in Requests, ServeRequest(r) PROVE ExecutionBacked'
    BY <1>1, <1>5, ServeRequestExecution
  <1>6. CASE UNCHANGED allVars
    BY <1>3, <1>6 DEF allVars, vars, agentVars, Kept
  <1>. QED
    BY <1>2, <1>4, <1>5, <1>6 DEF AgentNext

\* However executions overlap and wherever a worker is lost, a request marked
\* executed did change a work order, and the tables still show how.
THEOREM ExecutedIsDone == AgentSpec => []ExecutedMeansEffect
  <1>1. AgentInit => ExecutionBacked
    BY DEF AgentInit, ExecutionBacked, ExecutedMeansEffect, NoApproval, NotServing, Executing
  <1>2. ExecutionBacked => ExecutedMeansEffect
    BY DEF ExecutionBacked
  <1>. QED
    BY <1>1, <1>2, ExecutionStep, QueueInvariant, QueueEarned, PTL DEF AgentSpec

-----------------------------------------------------------------------------
(* One request at a time, no faults *)

Finished(a) ==
    \/ approvals[a].status = "executed"
    \/ \E r \in Requests : Executing(r, "done") /\ agent[r].approval = a

\* An effect is counted exactly when the approval is executed or about to be
\* recorded so; who serves an approval finds it as it was.
Sole ==
    /\ \A a \in ApprovalIds : effects[a] = IF Finished(a) THEN 1 ELSE 0
    /\ \A r \in Requests :
         /\ agent[r].op = "decide" => approvals[agent[r].approval].status = "pending"
         /\ agent[r].op = "execute" => approvals[agent[r].approval].status = "approved"

LegalApproval == \A a \in ApprovalIds : approvals'[a].status # approvals[a].status =>
    <<approvals[a].status, approvals'[a].status>> \in
        { <<"absent", "pending">>, <<"pending", "approved">>,
          <<"pending", "rejected">>, <<"approved", "executed">>,
          <<"approved", "execution_failed">> }

LEMMA ServedAlone ==
    ASSUME OneRequest, AgentTypeOK, NEW r \in Requests, NEW s, Serve(r, s)
    PROVE  /\ agent'[r] = s
           /\ \A q \in Requests : q = r
  BY ServeOnly DEF OneRequest

\* A step of the request r that leaves the approvals alone.
LEMMA ServeSole ==
    ASSUME OneRequest, AgentTypeOK, Sole, NEW r \in Requests, NEW s, Serve(r, s),
           UNCHANGED approvals,
           s.op = "decide" => approvals[s.approval].status = "pending",
           s.op = "execute" => approvals[s.approval].status = "approved",
           \A a \in ApprovalIds : effects'[a] =
              IF approvals[a].status = "executed"
                 \/ (s.op = "execute" /\ s.phase = "done" /\ s.approval = a)
              THEN 1 ELSE 0
    PROVE  Sole' /\ LegalApproval
  <1>1. agent'[r] = s /\ \A q \in Requests : q = r
    BY ServedAlone
  <1>2. \A a \in ApprovalIds : Finished(a)' <=>
          \/ approvals[a].status = "executed"
          \/ s.op = "execute" /\ s.phase = "done" /\ s.approval = a
    BY <1>1 DEF Finished, Executing
  <1>. QED
    BY <1>1, <1>2 DEF Sole, LegalApproval

\* A step of the request r that marks the approval it serves, and is then free.
LEMMA MarkSole ==
    ASSUME OneRequest, AgentTypeOK, Sole, NEW r \in Requests, Serve(r, NotServing),
           UNCHANGED effects, NEW a \in ApprovalIds, a = agent[r].approval, NEW st,
           approvals' = [approvals EXCEPT ![a] = Marked(@, st)],
           <<approvals[a].status, st>> \in
              { <<"pending", "approved">>, <<"pending", "rejected">>,
                <<"approved", "executed">>, <<"approved", "execution_failed">> },
           st = "executed" <=> Executing(r, "done")
    PROVE  Sole' /\ LegalApproval
  <1>1. agent'[r] = NotServing /\ NotServing.op = "none" /\ \A q \in Requests : q = r
    BY ServedAlone DEF NotServing
  <1>2. /\ approvals'[a].status = st
        /\ \A b \in ApprovalIds \ {a} : approvals'[b] = approvals[b]
    BY DEF AgentTypeOK, Marked
  <1>3. approvals[a].status # "executed"
    OBVIOUS
  <1>4. \A b \in ApprovalIds : Finished(b)' <=> Finished(b)
    BY <1>1, <1>2, <1>3 DEF Finished, Executing
  <1>5. LegalApproval
    BY <1>2 DEF LegalApproval
  <1>. QED
    BY <1>1, <1>4, <1>5 DEF Sole

\* Nobody else is done when a request starts to serve.
LEMMA NotYetFinished ==
    ASSUME OneRequest, NEW r \in Requests, agent[r] = NotServing, NEW a \in ApprovalIds
    PROVE  Finished(a) <=> approvals[a].status = "executed"
  BY DEF OneRequest, Finished, Executing, NotServing

LEMMA ServeRequestSole ==
    ASSUME OneRequest, ~ Faults, AgentTypeOK, Sole, NEW r \in Requests, ServeRequest(r)
    PROVE  Sole' /\ LegalApproval
  <1>0. /\ NotServing.op = "none"
        /\ \A a, phase : /\ Execution(a, phase).op = "execute"
                            /\ Execution(a, phase).approval = a
                            /\ Execution(a, phase).phase = phase
    BY DEF NotServing, Execution
  <1>1. ASSUME NEW c \in Approvers, NEW a \in ApprovalIds, NEW d \in Decisions,
               BeginDecide(r, c, a, d)
        PROVE  Sole' /\ LegalApproval
    <2>1. \A b \in ApprovalIds : effects'[b] = IF approvals[b].status = "executed" THEN 1 ELSE 0
      BY <1>1, NotYetFinished DEF BeginDecide, Sole
    <2>. DEFINE s == [op |-> "decide", approval |-> a, decision |-> d]
    <2>2. s.op = "decide" /\ s.approval = a
      OBVIOUS
    <2>. HIDE DEF s
    <2>3. Serve(r, s) /\ UNCHANGED approvals /\ approvals[a].status = "pending"
      BY <1>1 DEF BeginDecide, s
    <2>. QED
      BY <2>1, <2>2, <2>3, ServeSole
  <1>2. ASSUME NEW c \in Approvers, NEW a \in ApprovalIds,
               BeginExecute(r, c, a) \/ RefuseExecute(r, c, a)
        PROVE  Sole' /\ LegalApproval
    <2>1. PICK phase \in {"running", "failed"} : Serve(r, Execution(a, phase))
      BY <1>2 DEF BeginExecute, RefuseExecute
    <2>2. /\ agent[r] = NotServing /\ UNCHANGED <<approvals, effects>>
          /\ approvals[a].status = "approved"
      BY <1>2 DEF BeginExecute, RefuseExecute, Executable
    <2>3. \A b \in ApprovalIds : effects'[b] = IF approvals[b].status = "executed" THEN 1 ELSE 0
      BY <2>2, NotYetFinished DEF Sole
    <2>. DEFINE s == Execution(a, phase)
    <2>4. s.op = "execute" /\ s.approval = a /\ s.phase # "done"
      BY <1>0
    <2>. HIDE DEF s
    <2>5. Serve(r, s)
      BY <2>1 DEF s
    <2>. QED
      BY <2>2, <2>3, <2>4, <2>5, ServeSole
  <1>3. ASSUME NEW c \in Approvers, NEW a \in ApprovalIds, NEW o \in OrderIds,
               ExecuteCreate(r, c, a, o)
        PROVE  Sole' /\ LegalApproval
    <2>1. /\ agent[r] = NotServing /\ UNCHANGED approvals
          /\ effects' = [effects EXCEPT ![a] = @ + 1]
          /\ approvals[a].status = "approved"
      BY <1>3 DEF ExecuteCreate, Executable
    <2>2. \A b \in ApprovalIds : effects[b] = IF approvals[b].status = "executed" THEN 1 ELSE 0
      BY <2>1, NotYetFinished DEF Sole
    <2>3. \A b \in ApprovalIds : effects'[b] =
            IF approvals[b].status = "executed" \/ b = a THEN 1 ELSE 0
      BY <2>1, <2>2 DEF AgentTypeOK
    <2>. DEFINE s == Execution(a, "done")
    <2>4. s.op = "execute" /\ s.approval = a /\ s.phase = "done"
      BY <1>0
    <2>. HIDE DEF s
    <2>5. Serve(r, s)
      BY <1>3 DEF s, ExecuteCreate
    <2>. QED
      BY <2>1, <2>3, <2>4, <2>5, ServeSole
  <1>4. CASE CommitDecide(r)
    <2>1. PICK a \in ApprovalIds : a = agent[r].approval /\ agent[r].decision \in Decisions
      BY <1>4, ServingType DEF CommitDecide
    <2>2. approvals[a].status = "pending" /\ ~ Executing(r, "done")
      BY <1>4, <2>1 DEF CommitDecide, Sole, Executing
    <2>. QED
      BY <1>4, <2>1, <2>2, MarkSole DEF CommitDecide, Decisions
  <1>5. CASE CommitExecute(r)
    <2>1. PICK a \in ApprovalIds : a = agent[r].approval /\ agent[r] = Execution(a, "running")
      BY <1>5, ServingType DEF CommitExecute, Executing
    <2>0. agent[r].op = "execute" /\ agent[r].approval = a /\ agent[r].phase = "running"
      BY <1>0, <2>1
    <2>e. [agent[r] EXCEPT !.phase = "done"] = Execution(a, "done")
      BY <2>1 DEF Execution
    <2>2. /\ approvals[a].status = "approved" /\ UNCHANGED approvals
          /\ effects' = [effects EXCEPT ![a] = @ + 1]
      BY <1>5, <2>0 DEF Sole, CommitExecute
    <2>3. \A b \in ApprovalIds : Finished(b) <=> approvals[b].status = "executed"
      BY <2>0 DEF Finished, Executing, OneRequest
    <2>4. \A b \in ApprovalIds : effects'[b] =
            IF approvals[b].status = "executed" \/ b = a THEN 1 ELSE 0
      BY <2>2, <2>3 DEF AgentTypeOK, Sole
    <2>. DEFINE s == Execution(a, "done")
    <2>5. s.op = "execute" /\ s.approval = a /\ s.phase = "done"
      BY <1>0
    <2>6. Serve(r, s)
      BY <1>5, <2>e DEF CommitExecute
    <2>. HIDE DEF s
    <2>. QED
      BY <2>2, <2>4, <2>5, <2>6, ServeSole
  <1>6. CASE FailExecute(r)
    <2>1. PICK a \in ApprovalIds : a = agent[r].approval /\ agent[r] = Execution(a, "running")
      BY <1>6, ServingType DEF FailExecute, Executing
    <2>0. agent[r].op = "execute" /\ agent[r].approval = a /\ agent[r].phase = "running"
      BY <1>0, <2>1
    <2>e. [agent[r] EXCEPT !.phase = "failed"] = Execution(a, "failed")
      BY <2>1 DEF Execution
    <2>2. approvals[a].status = "approved" /\ UNCHANGED <<approvals, effects>>
      BY <1>6, <2>0 DEF Sole, FailExecute
    <2>3. \A b \in ApprovalIds : Finished(b) <=> approvals[b].status = "executed"
      BY <2>0 DEF Finished, Executing, OneRequest
    <2>. DEFINE s == Execution(a, "failed")
    <2>4. s.op = "execute" /\ s.approval = a /\ s.phase = "failed"
      BY <1>0
    <2>5. Serve(r, s)
      BY <1>6, <2>e DEF FailExecute
    <2>. HIDE DEF s
    <2>. QED
      BY <2>2, <2>3, <2>4, <2>5, ServeSole DEF Sole
  <1>7. CASE RecordExecution(r)
    <2>1. PICK a \in ApprovalIds : a = agent[r].approval
      BY <1>7, ServingType DEF RecordExecution, Executing
    <2>2. approvals[a].status = "approved"
      BY <1>7, <2>1 DEF RecordExecution, Executing, Sole
    <2>3. PICK st \in {"executed", "execution_failed"} :
            /\ approvals' = [approvals EXCEPT ![a] = Marked(@, st)]
            /\ st = "executed" <=> Executing(r, "done")
      BY <1>7, <2>1 DEF RecordExecution
    <2>. QED
      BY <1>7, <2>1, <2>2, <2>3, MarkSole DEF RecordExecution
  <1>8. CASE LoseRequest(r)
    <2>1. agent[r].op = "decide" /\ Serve(r, NotServing) /\ UNCHANGED <<approvals, effects>>
      BY <1>8 DEF LoseRequest
    <2>2. \A b \in ApprovalIds : Finished(b) <=> approvals[b].status = "executed"
      BY <2>1 DEF Finished, Executing, OneRequest
    <2>. QED
      BY <1>0, <2>1, <2>2, ServeSole DEF Sole
  <1>. QED
    BY <1>1, <1>2, <1>3, <1>4, <1>5, <1>6, <1>7, <1>8 DEF ServeRequest, LateFailure

LEMMA SoleStep ==
    ASSUME OneRequest, ~ Faults
    PROVE  AgentTypeOK /\ ApprovalBacked /\ Sole /\ [AgentNext]_allVars
             => Sole' /\ [LegalApproval]_approvals
  <1>. SUFFICES ASSUME AgentTypeOK, ApprovalBacked, Sole, [AgentNext]_allVars
               PROVE  Sole' /\ [LegalApproval]_approvals
    OBVIOUS
  <1>1. CASE UNCHANGED agentVars
    BY <1>1 DEF agentVars, Sole, Finished, Executing
  <1>2. ASSUME NEW c \in Callers, NEW a \in ApprovalIds, NEW asked \in Asks, Ask(c, a, asked)
        PROVE  Sole' /\ LegalApproval
    <2>1. /\ approvals[a].status = "absent" /\ approvals'[a].status = "pending"
          /\ \A b \in ApprovalIds \ {a} : approvals'[b] = approvals[b]
          /\ UNCHANGED <<agent, effects>>
      BY <1>2 DEF Ask, AgentTypeOK
    <2>2. \A b \in ApprovalIds : Finished(b)' <=> Finished(b)
      BY <2>1 DEF Finished, Executing
    <2>3. ASSUME NEW r \in Requests, agent[r].op \in {"decide", "execute"}
          PROVE  agent[r].approval \in ApprovalIds \ {a}
      <3>1. agent[r] # NotServing
        BY <2>3 DEF NotServing
      <3>. QED
        BY <2>1, <2>3, <3>1, ServingType DEF ApprovalBacked
    <2>. QED
      BY <2>1, <2>2, <2>3 DEF Sole, LegalApproval
  <1>3. ASSUME NEW r \in Requests, ServeRequest(r) PROVE Sole' /\ LegalApproval
    BY <1>3, ServeRequestSole
  <1>. QED
    BY <1>1, <1>2, <1>3 DEF AgentNext, WorkOrderStep, allVars

LEMMA AlwaysSole ==
    ASSUME OneRequest, ~ Faults
    PROVE  AgentSpec => []Sole
  <1>1. AgentInit => Sole
    BY DEF AgentInit, Sole, Finished, Executing, NoApproval, NotServing
  <1>2. AgentTypeOK /\ ApprovalBacked /\ Sole /\ [AgentNext]_allVars => Sole'
    BY SoleStep
  <1>. QED
    BY <1>1, <1>2, QueueInvariant, PTL DEF AgentSpec

\* Without overlap and faults, an approval changes a work order at most once.
THEOREM OnceEach == ASSUME OneRequest, ~ Faults PROVE AgentSpec => []ExecutedAtMostOnce
  <1>1. Sole => ExecutedAtMostOnce
    BY DEF Sole, ExecutedAtMostOnce
  <1>. QED
    BY <1>1, AlwaysSole, PTL

\* Without overlap and faults, what was rejected or failed changed nothing.
THEOREM RefusedIsUndone == ASSUME OneRequest, ~ Faults PROVE AgentSpec => []RefusedMeansNoEffect
  <1>1. Sole => RefusedMeansNoEffect
    BY DEF Sole, RefusedMeansNoEffect, Finished, Executing
  <1>. QED
    BY <1>1, AlwaysSole, PTL

\* Without overlap and faults, a request is decided once and executed once.
THEOREM LegalDecisions == ASSUME OneRequest, ~ Faults PROVE AgentSpec => LegalApprovalChanges
  <1>1. AgentTypeOK /\ ApprovalBacked /\ Sole /\ [AgentNext]_allVars => [LegalApproval]_approvals
    BY SoleStep
  <1>2. LegalApproval => \A a \in ApprovalIds : approvals'[a].status # approvals[a].status =>
          <<approvals[a].status, approvals'[a].status>> \in
             { <<"absent", "pending">>, <<"pending", "approved">>,
               <<"pending", "rejected">>, <<"approved", "executed">>,
               <<"approved", "execution_failed">> }
    BY DEF LegalApproval
  <1>. QED
    BY <1>1, <1>2, QueueInvariant, AlwaysSole, PTL DEF AgentSpec, LegalApprovalChanges
=============================================================================
