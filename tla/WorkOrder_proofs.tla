---------------------------- MODULE WorkOrder_proofs ----------------------------
(***************************************************************************)
(* Proofs, for any number of requests, orders, hazards and projects, of    *)
(* what holds of the work-order workflow however requests overlap, that it *)
(* implements the record of the rectification, and, in the last part, of   *)
(* what holds when there is one request at a time.                         *)
(***************************************************************************)
EXTENDS WorkOrderProperties, FiniteSetTheorems, TLAPS

LEMMA TransitionTypes ==
    ASSUME NEW t \in Transitions
    PROVE  t[1] \in Status /\ t[2] \in Actions /\ t[3] \in Status
  BY DEF Transitions, Status, Actions

LEMMA InitType == Init => TypeOK
  BY DEF Init, TypeOK, OrderRow, HazardRow, NoOrder, NoHazard, Session, Idle

LEMMA SessionTypes ==
    ASSUME TypeOK, NEW r \in Requests
    PROVE  /\ session[r] # Idle => session[r].op # "idle"
           /\ session[r].op = "transition" => session[r] \in TransitionSession
           /\ session[r].op = "review" => session[r] \in ReviewSession
           /\ session[r].op = "escalate" => session[r] \in EscalateSession
           /\ session[r].op = "recalculate" => session[r] \in RecalculateSession
  <1>1. session[r] \in Session
    BY DEF TypeOK
  <1>. QED
    BY <1>1 DEF Session, Idle, TransitionSession, ReviewSession, EscalateSession,
                RecalculateSession

LEMMA LogType ==
    ASSUME TypeOK, NEW o \in OrderIds, NEW entry \in LogRow, Log(o, entry)
    PROVE  flowLog' \in [OrderIds -> Seq(LogRow)]
  BY DEF TypeOK, Log

LEMMA SessionType ==
    ASSUME TypeOK, NEW r \in Requests, NEW s \in Session,
           session' = [session EXCEPT ![r] = s]
    PROVE  session' \in [Requests -> Session]
  BY DEF TypeOK

LEMMA CurrentType == ASSUME TypeOK PROVE Current \in View
  BY DEF TypeOK, Current, View

LEMMA CreateHazardType ==
    ASSUME TypeOK, NEW c \in Callers, NEW p \in Projects, NEW s \in Subs,
           NEW h \in HazardIds, NEW o \in OrderIds, CreateHazard(c, p, s, h, o)
    PROVE  TypeOK'
  <1>1. LogEntry(None, "create", "pending_confirm", c) \in LogRow
    BY DEF LogEntry, LogRow, Status
  <1>2. flowLog' \in [OrderIds -> Seq(LogRow)]
    BY <1>1, LogType DEF CreateHazard
  <1>3. hazards' \in [HazardIds -> HazardRow]
    BY DEF CreateHazard, TypeOK, HazardRow
  <1>4. orders' \in [OrderIds -> OrderRow]
    BY DEF CreateHazard, TypeOK, OrderRow, NewOrder, Status
  <1>. QED
    BY <1>2, <1>3, <1>4 DEF CreateHazard, TypeOK

LEMMA CreateWorkOrderType ==
    ASSUME TypeOK, NEW c \in Callers, NEW o \in OrderIds, NEW b \in Bodies, CreateWorkOrder(c, o, b)
    PROVE  TypeOK'
  <1>1. orders' \in [OrderIds -> OrderRow]
    BY DEF CreateWorkOrder, TypeOK, OrderRow, NewOrder, Status, Bodies
  <1>. QED
    BY <1>1 DEF CreateWorkOrder, TypeOK

\* Every Begin only fills the session, with a well-typed request.
LEMMA BeginType ==
    ASSUME TypeOK, NEW es, NEW r \in Requests, Begin(es, r)
    PROVE  TypeOK'
  <1>0. orders \in [OrderIds -> OrderRow]
    BY DEF TypeOK
  <1>1. ASSUME NEW by \in {"patch", "execute"}, NEW c \in Callers, NEW o \in OrderIds,
               NEW t \in Transitions, BeginTransition(r, by, c, o, t)
        PROVE  TypeOK'
    <2>. DEFINE new == [op |-> "transition", caller |-> c, order |-> o,
                        action |-> t[2], to |-> t[3], row |-> orders[o]]
    <2>1. new \in Session
      BY <1>0, <1>1, TransitionTypes
         DEF BeginTransition, Session, TransitionSession
    <2>. QED
      BY <1>1, <2>1, SessionType DEF BeginTransition, TypeOK
  <1>2. ASSUME NEW by \in {"patch", "execute"}, NEW c \in Callers, NEW o \in OrderIds,
               BeginReviewPass(r, by, c, o)
        PROVE  TypeOK'
    <2>. DEFINE new == [op |-> "review", caller |-> c, order |-> o, view |-> Current]
    <2>1. new \in Session
      BY <1>2, CurrentType, TransitionTypes
         DEF BeginReviewPass, Session, ReviewSession, Current, Status, Transitions
    <2>. QED
      BY <1>2, <2>1, SessionType DEF BeginReviewPass, TypeOK
  <1>3. ASSUME NEW c \in Callers, NEW late \in SUBSET OrderIds, BeginEscalate(r, c, late)
        PROVE  TypeOK'
    <2>. DEFINE new == [op |-> "escalate", late |-> late,
                        level |-> [o \in OrderIds |-> IF o \in late THEN orders[o].level ELSE 0]]
    <2>1. \A o \in OrderIds : orders[o].level \in Nat
      BY <1>0 DEF OrderRow
    <2>2. new \in Session
      BY <2>1 DEF Session, EscalateSession
    <2>. QED
      BY <1>3, <2>2, SessionType DEF BeginEscalate, TypeOK
  <1>4. ASSUME NEW ps \in SUBSET Projects, BeginRecalculate(r, ps)
        PROVE  TypeOK'
    <2>. DEFINE new == [op |-> "recalculate", projects |-> ps, view |-> Current]
    <2>1. new \in Session
      BY CurrentType DEF Session, RecalculateSession
    <2>. QED
      BY <1>4, <2>1, SessionType DEF BeginRecalculate, TypeOK
  <1>. QED
    BY <1>1, <1>2, <1>3, <1>4 DEF Begin

LEMMA CommitTransitionType ==
    ASSUME TypeOK, NEW r \in Requests, CommitTransition(r)
    PROVE  TypeOK'
  <1>. DEFINE s == session[r]
              entry == LogEntry(s.row.status, s.action, s.to, s.caller)
  <1>1. s \in TransitionSession
    BY SessionTypes DEF CommitTransition
  <1>2. /\ s.order \in OrderIds /\ s.action \in Actions /\ s.to \in Status
        /\ s.caller \in Callers /\ s.row.status \in Status
        /\ s.row.evidence \in Nat
    BY <1>1 DEF TransitionSession, OrderRow
  <1>3. orders' \in [OrderIds -> OrderRow]
    BY <1>2 DEF CommitTransition, TypeOK, OrderRow, Updated, Evidence
  <1>. QED
    <2>1. entry \in LogRow
      BY <1>2 DEF LogEntry, LogRow
    <2>2. flowLog' \in [OrderIds -> Seq(LogRow)]
      BY <1>2, <2>1, LogType DEF CommitTransition
    <2>. QED
      BY <1>3, <2>2, SessionType DEF CommitTransition, TypeOK, Session

LEMMA CommitEscalateType ==
    ASSUME TypeOK, NEW r \in Requests, CommitEscalate(r)
    PROVE  TypeOK'
  <1>1. session[r] \in EscalateSession
    BY SessionTypes DEF CommitEscalate
  <1>2. \A o \in OrderIds : session[r].level[o] + 1 \in Nat
    BY <1>1 DEF EscalateSession
  <1>3. orders' \in [OrderIds -> OrderRow]
    BY <1>2 DEF CommitEscalate, TypeOK, OrderRow, Updated, Status
  <1>. QED
    BY <1>3, SessionType DEF CommitEscalate, TypeOK, Session

\* What ProfileOf counts is finite whichever hazard table it reads.
LEMMA ProfileRowType ==
    ASSUME NEW hs, NEW p
    PROVE  ProfileOf(hs, p) \in ProfileRow
  <1>1. /\ Overdue(hs, p) \subseteq HazardIds
        /\ Overdue(hs, p) \cap Major \subseteq HazardIds
        /\ IsFiniteSet(HazardIds)
    BY FlowAssumption DEF Overdue
  <1>2. /\ Cardinality(Overdue(hs, p)) \in Nat
        /\ Cardinality(Overdue(hs, p) \cap Major) \in Nat
    BY <1>1, FS_Subset, FS_CardinalityType
  <1>. QED
    BY <1>2 DEF ProfileOf, ProfileRow

LEMMA SaveProfilesType ==
    ASSUME TypeOK, NEW view, NEW v, NEW ps, SaveProfiles(view, v, ps)
    PROVE  profiles' \in [Projects -> SUBSET ProfileRow]
  <1>1. \A p \in Projects : {ProfileOf(v.hazards, p)} \in SUBSET ProfileRow
    BY ProfileRowType
  <1>. QED
    BY <1>1 DEF SaveProfiles, TypeOK

LEMMA RuleOrdersType ==
    ASSUME NEW os \in [OrderIds -> OrderRow], NEW new \in SUBSET ((Projects \cup {None}) \X Rules),
           NEW f \in FreshKeys(new)
    PROVE  WithRuleOrders(os, f) \in [OrderIds -> OrderRow]
  <1>1. DOMAIN f = new
    BY DEF FreshKeys
  <1>2. ASSUME NEW pr \in new PROVE RuleOrder(pr) \in OrderRow
    BY DEF RuleOrder, NewOrder, OrderRow, Status
  <1>3. ASSUME NEW o \in OrderIds, \E pr \in DOMAIN f : f[pr] = o
        PROVE  RuleOrder(CHOOSE pr \in DOMAIN f : f[pr] = o) \in OrderRow
    BY <1>1, <1>2, <1>3
  <1>. QED
    BY <1>3 DEF WithRuleOrders

LEMMA CloseOrdersType ==
    ASSUME NEW os \in [OrderIds -> OrderRow], NEW ids
    PROVE  Close(os, ids) \in [OrderIds -> OrderRow]
  BY DEF Close, OrderRow, Status

LEMMA CloseHazardsType ==
    ASSUME NEW hs \in [HazardIds -> HazardRow], NEW ids
    PROVE  Close(hs, ids) \in [HazardIds -> HazardRow]
  BY DEF Close, HazardRow

LEMMA CommitRecalculateType ==
    ASSUME TypeOK, NEW r \in Requests, CommitRecalculate(r)
    PROVE  TypeOK'
  <1>. DEFINE s == session[r]
              new == ToCreate(s.view, s.projects)
  <1>1. s.projects \subseteq Projects
    BY SessionTypes DEF CommitRecalculate, RecalculateSession
  <1>2. new \in SUBSET ((Projects \cup {None}) \X Rules)
    BY <1>1 DEF ToCreate
  <1>3. PICK f \in FreshKeys(new) : orders' = WithRuleOrders(orders, f)
    BY DEF CommitRecalculate
  <1>4. orders' \in [OrderIds -> OrderRow]
    BY <1>2, <1>3, RuleOrdersType DEF TypeOK
  <1>5. profiles' \in [Projects -> SUBSET ProfileRow]
    BY SaveProfilesType DEF CommitRecalculate
  <1>. QED
    BY <1>4, <1>5, SessionType DEF CommitRecalculate, TypeOK, Session

LEMMA CommitReviewPassType ==
    ASSUME TypeOK, NEW r \in Requests, CommitReviewPass(r)
    PROVE  TypeOK'
  <1>. DEFINE s == session[r]
              viewed == s.view.orders[s.order]
              ps == {viewed.project}
              new == ToCreate(Flushed(s), ps)
              entry == LogEntry(viewed.status, "review_pass", "closed", s.caller)
  <1>1. s \in ReviewSession
    BY SessionTypes DEF CommitReviewPass
  <1>2. /\ s.order \in OrderIds /\ s.caller \in Callers
        /\ viewed \in OrderRow /\ viewed.status \in Status
    BY <1>1 DEF ReviewSession, View
  <1>3. new \in SUBSET ((Projects \cup {None}) \X Rules)
    BY <1>2 DEF ToCreate, OrderRow
  <1>4. PICK f \in FreshKeys(new) : orders' = WithRuleOrders(Close(orders, {s.order}), f)
    BY DEF CommitReviewPass
  <1>5. orders' \in [OrderIds -> OrderRow]
    <2>1. Close(orders, {s.order}) \in [OrderIds -> OrderRow]
      BY CloseOrdersType DEF TypeOK
    <2>. QED
      BY <1>3, <1>4, <2>1, RuleOrdersType
  <1>6. hazards' \in [HazardIds -> HazardRow]
    BY CloseHazardsType DEF CommitReviewPass, TypeOK
  <1>7. profiles' \in [Projects -> SUBSET ProfileRow]
    BY SaveProfilesType DEF CommitReviewPass
  <1>8. flowLog' \in [OrderIds -> Seq(LogRow)]
    <2>1. entry \in LogRow
      BY <1>2 DEF LogEntry, LogRow, Actions, Status
    <2>. QED
      BY <1>2, <2>1, LogType DEF CommitReviewPass
  <1>9. session' \in [Requests -> Session]
    BY SessionType DEF CommitReviewPass, Session
  <1>. QED
    BY <1>5, <1>6, <1>7, <1>8, <1>9 DEF TypeOK

LEMMA StepType ==
    ASSUME NEW es
    PROVE  TypeOK /\ [NextOver(es)]_vars => TypeOK'
  <1>. SUFFICES ASSUME TypeOK, [NextOver(es)]_vars PROVE TypeOK'
    OBVIOUS
  <1>1. CASE Insert(es)
    BY <1>1, CreateHazardType, CreateWorkOrderType DEF Insert
  <1>2. ASSUME NEW r \in Requests, Begin(es, r) PROVE TypeOK'
    BY <1>2, BeginType
  <1>3. ASSUME NEW r \in Requests, Commit(r) PROVE TypeOK'
    BY <1>3, CommitTransitionType, CommitReviewPassType, CommitEscalateType,
       CommitRecalculateType DEF Commit
  <1>4. ASSUME NEW r \in Requests, Abort(r) PROVE TypeOK'
    BY <1>4, SessionType DEF Abort, TypeOK, Session
  <1>5. CASE UNCHANGED vars
    BY <1>5 DEF vars, TypeOK
  <1>. QED
    BY <1>1, <1>2, <1>3, <1>4, <1>5 DEF NextOver

\* Type correctness of every reachable state: whatever overlaps, no column ever
\* gets a value outside its domain and every open request holds a real row.
THEOREM TypeCorrect == Spec => []TypeOK
  <1>1. TypeOK /\ [Next]_vars => TypeOK'
    BY StepType DEF Next
  <1>. QED
    BY <1>1, InitType, PTL DEF Spec
-----------------------------------------------------------------------------
(* The order of the rectification steps *)

\* Each line of the transition table leads to a status that stands for no more
\* than the status it starts from and its own action, and an action with a prior
\* step starts from a status that stands for that step.
LEMMA TransitionNeeds ==
    ASSUME NEW t \in Transitions
    PROVE  /\ Needs[t[3]] \subseteq Needs[t[1]] \cup {t[2]}
           /\ t[2] \in DOMAIN Prior => Prior[t[2]] \in Needs[t[1]]
  BY DEF Transitions, Needs, Prior

LEMMA DoneAfterLog ==
    ASSUME TypeOK, NEW o \in OrderIds, NEW entry, Log(o, entry)
    PROVE  /\ Done(o)' = Done(o) \cup {entry.action}
           /\ \A q \in OrderIds : Done(q) \subseteq Done(q)'
  <1>1. flowLog' = [flowLog EXCEPT ![o] = Append(flowLog[o], entry)]
    BY DEF Log
  <1>2. \A q \in OrderIds : flowLog[q] \in Seq(LogRow)
    BY DEF TypeOK
  <1>3. flowLog'[o] = Append(flowLog[o], entry)
    BY <1>1 DEF TypeOK
  <1>4. \A q \in OrderIds \ {o} : flowLog'[q] = flowLog[q]
    BY <1>1 DEF TypeOK
  <1>5. /\ DOMAIN flowLog'[o] = DOMAIN flowLog[o] \cup {Len(flowLog[o]) + 1}
        /\ \A i \in DOMAIN flowLog[o] : flowLog'[o][i] = flowLog[o][i]
        /\ flowLog'[o][Len(flowLog[o]) + 1] = entry
    BY <1>2, <1>3
  <1>6. Done(o)' = Done(o) \cup {entry.action}
    BY <1>5 DEF Done, Logged
  <1>7. \A q \in OrderIds \ {o} : Done(q)' = Done(q)
    BY <1>4 DEF Done, Logged
  <1>. QED
    BY <1>6, <1>7

\* Appending an action whose prior step is in the log skips nothing.
LEMMA LogInOrder ==
    ASSUME TypeOK, NoStepSkipped, NEW o \in OrderIds, NEW entry, Log(o, entry),
           entry.action \in DOMAIN Prior => Prior[entry.action] \in Done(o)
    PROVE  NoStepSkipped'
  <1>1. flowLog' = [flowLog EXCEPT ![o] = Append(flowLog[o], entry)]
    BY DEF Log
  <1>2. /\ flowLog[o] \in Seq(LogRow)
        /\ flowLog'[o] = Append(flowLog[o], entry)
        /\ \A q \in OrderIds \ {o} : flowLog'[q] = flowLog[q]
    BY <1>1 DEF TypeOK
  <1>. DEFINE n == Len(flowLog[o])
  <1>3. /\ n \in Nat /\ DOMAIN flowLog[o] = 1..n /\ DOMAIN flowLog'[o] = 1..(n + 1)
        /\ \A i \in 1..n : flowLog'[o][i] = flowLog[o][i]
        /\ flowLog'[o][n + 1] = entry
    BY <1>2
  <1>. SUFFICES ASSUME NEW q \in OrderIds, NEW i \in DOMAIN flowLog'[q],
                      flowLog'[q][i].action \in DOMAIN Prior
               PROVE  \E j \in 1..(i - 1) :
                        flowLog'[q][j].action = Prior[flowLog'[q][i].action]
    BY DEF NoStepSkipped, Logged
  <1>4. CASE q # o
    BY <1>2, <1>4 DEF NoStepSkipped, Logged
  <1>5. CASE q = o /\ i \in 1..n
    <2>1. PICK j \in 1..(i - 1) : flowLog[o][j].action = Prior[flowLog[o][i].action]
      BY <1>3, <1>5 DEF NoStepSkipped, Logged
    <2>2. j \in 1..n
      BY <1>3, <1>5, <2>1
    <2>. QED
      BY <1>3, <1>5, <2>1, <2>2
  <1>6. CASE q = o /\ i = n + 1
    <2>1. PICK j \in 1..n : flowLog[o][j].action = Prior[entry.action]
      BY <1>3, <1>6 DEF Done, Logged
    <2>2. j \in 1..(i - 1)
      BY <1>3, <1>6, <2>1
    <2>. QED
      BY <1>3, <1>6, <2>1, <2>2
  <1>. QED
    BY <1>3, <1>4, <1>5, <1>6

\* Open requests stay earned while logs only grow, if the one that changes does.
LEMMA SessionsStayEarned ==
    ASSUME TypeOK, StatusEarned, \A o \in OrderIds : Done(o) \subseteq Done(o)',
           NEW r \in Requests, NEW s \in Session, SessionEarned(s),
           session' = [session EXCEPT ![r] = s]
    PROVE  (\A q \in Requests : SessionEarned(session[q]))'
  <1>. SUFFICES ASSUME NEW q \in Requests PROVE SessionEarned(session[q])'
    OBVIOUS
  <1>1. SessionEarned(session'[q]) /\ session'[q] \in Session
    BY DEF StatusEarned, TypeOK
  <1>2. \A o \in OrderIds : \A st : Earned(o, st) => Earned(o, st)'
    BY DEF Earned
  <1>. QED
    BY <1>1, <1>2 DEF SessionEarned, Session, Idle, TransitionSession, ReviewSession,
                      EscalateSession, RecalculateSession

\* A session that ends is earned trivially.
LEMMA IdleEarned == Idle \in Session /\ SessionEarned(Idle)
  BY DEF Idle, Session, SessionEarned

\* Inserted orders wait for confirmation, which stands for nothing yet.
LEMMA InsertEarned ==
    ASSUME TypeOK, StatusEarned, NEW es, Insert(es)
    PROVE  StatusEarned'
  <1>1. \A o \in OrderIds : Done(o) \subseteq Done(o)'
    <2>1. CASE UNCHANGED flowLog
      BY <2>1 DEF Done, Logged
    <2>2. ASSUME NEW o \in OrderIds, NEW c \in Callers,
                 Log(o, LogEntry(None, "create", "pending_confirm", c))
          PROVE  \A q \in OrderIds : Done(q) \subseteq Done(q)'
      BY <2>2, DoneAfterLog
    <2>. QED
      BY <2>1, <2>2 DEF Insert, CreateHazard, CreateWorkOrder
  <1>2. NoStepSkipped'
    <2>1. CASE UNCHANGED flowLog
      BY <2>1 DEF StatusEarned, NoStepSkipped, Logged
    <2>2. ASSUME NEW o \in OrderIds, NEW c \in Callers,
                 Log(o, LogEntry(None, "create", "pending_confirm", c))
          PROVE  NoStepSkipped'
      <3>1. LogEntry(None, "create", "pending_confirm", c).action \notin DOMAIN Prior
        BY DEF LogEntry, Prior
      <3>. QED
        BY <2>2, <3>1, LogInOrder DEF StatusEarned
    <2>. QED
      BY <2>1, <2>2 DEF Insert, CreateHazard, CreateWorkOrder
  <1>3. \A o \in OrderIds : orders'[o].status \in {orders[o].status, "pending_confirm"}
    <2>1. ASSUME NEW o \in OrderIds, NEW p, NEW s, NEW h, NEW rule, NEW own,
                 orders' = [orders EXCEPT ![o] = NewOrder(p, s, h, rule, own)]
          PROVE  \A q \in OrderIds : orders'[q].status \in {orders[q].status, "pending_confirm"}
      BY <2>1 DEF NewOrder, TypeOK
    <2>2. ASSUME NEW c, NEW p, NEW s, NEW h, NEW o \in OrderIds, CreateHazard(c, p, s, h, o)
          PROVE  \A q \in OrderIds : orders'[q].status \in {orders[q].status, "pending_confirm"}
      BY <2>1, <2>2 DEF CreateHazard
    <2>3. ASSUME NEW c, NEW o \in OrderIds, NEW b, CreateWorkOrder(c, o, b)
          PROVE  \A q \in OrderIds : orders'[q].status \in {orders[q].status, "pending_confirm"}
      BY <2>1, <2>3 DEF CreateWorkOrder
    <2>. QED
      BY <2>2, <2>3 DEF Insert
  <1>4. \A o \in OrderIds : Earned(o, orders[o].status)'
    BY <1>1, <1>3 DEF StatusEarned, Earned, Needs
  <1>5. (\A r \in Requests : SessionEarned(session[r]))'
    <2>1. UNCHANGED session
      BY DEF Insert, CreateHazard, CreateWorkOrder
    <2>2. \A o \in OrderIds : \A st : Earned(o, st) => Earned(o, st)'
      BY <1>1 DEF Earned
    <2>3. \A r \in Requests : session[r] \in Session
      BY DEF TypeOK
    <2>. QED
      BY <2>1, <2>2, <2>3
         DEF StatusEarned, SessionEarned, Session, Idle, TransitionSession, ReviewSession,
             EscalateSession, RecalculateSession
  <1>. QED
    BY <1>2, <1>4, <1>5 DEF StatusEarned

\* A step that only opens or drops a request.
LEMMA SessionOnlyEarned ==
    ASSUME TypeOK, StatusEarned, NEW r \in Requests, NEW s \in Session, SessionEarned(s),
           session' = [session EXCEPT ![r] = s], UNCHANGED <<orders, flowLog>>
    PROVE  StatusEarned'
  <1>1. \A o \in OrderIds : Done(o)' = Done(o)
    BY DEF Done, Logged
  <1>2. (\A q \in Requests : SessionEarned(session[q]))'
    BY <1>1, SessionsStayEarned
  <1>3. NoStepSkipped'
    BY DEF StatusEarned, NoStepSkipped, Logged
  <1>4. \A o \in OrderIds : Earned(o, orders[o].status)'
    BY <1>1 DEF StatusEarned, Earned
  <1>. QED
    BY <1>2, <1>3, <1>4 DEF StatusEarned

LEMMA BeginEarned ==
    ASSUME TypeOK, StatusEarned, NEW es, NEW r \in Requests, Begin(es, r)
    PROVE  StatusEarned'
  <1>1. \A o \in OrderIds : orders[o] \in OrderRow /\ Earned(o, orders[o].status)
    BY DEF TypeOK, StatusEarned
  <1>2. ASSUME NEW by \in {"patch", "execute"}, NEW c \in Callers, NEW o \in OrderIds,
               NEW t \in Transitions, BeginTransition(r, by, c, o, t)
        PROVE  StatusEarned'
    <2>. DEFINE s == [op |-> "transition", caller |-> c, order |-> o,
                      action |-> t[2], to |-> t[3], row |-> orders[o]]
    <2>1. s \in Session
      BY <1>1, <1>2, TransitionTypes DEF BeginTransition, Session, TransitionSession
    <2>2. t = <<t[1], t[2], t[3]>>
      BY DEF Transitions
    <2>3. SessionEarned(s)
      BY <1>1, <1>2, <2>2 DEF BeginTransition, SessionEarned
    <2>. QED
      BY <1>2, <2>1, <2>3, SessionOnlyEarned DEF BeginTransition
  <1>3. ASSUME NEW by \in {"patch", "execute"}, NEW c \in Callers, NEW o \in OrderIds,
               BeginReviewPass(r, by, c, o)
        PROVE  StatusEarned'
    <2>. DEFINE s == [op |-> "review", caller |-> c, order |-> o, view |-> Current]
    <2>1. orders[o].status = "waiting_review"
      BY <1>3 DEF BeginReviewPass, Transitions
    <2>2. s \in Session
      BY <2>1, CurrentType DEF Session, ReviewSession, Current, Status
    <2>3. SessionEarned(s)
      BY <1>1, <2>1 DEF SessionEarned, Current
    <2>. QED
      BY <1>3, <2>2, <2>3, SessionOnlyEarned DEF BeginReviewPass
  <1>4. ASSUME NEW c \in Callers, NEW late \in SUBSET OrderIds, BeginEscalate(r, c, late)
        PROVE  StatusEarned'
    <2>. DEFINE s == [op |-> "escalate", late |-> late,
                      level |-> [o \in OrderIds |-> IF o \in late THEN orders[o].level ELSE 0]]
    <2>1. \A o \in OrderIds : orders[o].level \in Nat
      BY <1>1 DEF OrderRow
    <2>2. s \in Session
      BY <2>1 DEF Session, EscalateSession
    <2>3. \A o \in late : Earned(o, "processing")
      BY <1>1, <1>4 DEF BeginEscalate
    <2>4. SessionEarned(s)
      BY <2>3 DEF SessionEarned
    <2>. QED
      BY <1>4, <2>2, <2>4, SessionOnlyEarned DEF BeginEscalate
  <1>5. ASSUME NEW ps \in SUBSET Projects, BeginRecalculate(r, ps)
        PROVE  StatusEarned'
    <2>. DEFINE s == [op |-> "recalculate", projects |-> ps, view |-> Current]
    <2>1. s \in Session /\ SessionEarned(s)
      BY CurrentType DEF Session, RecalculateSession, SessionEarned
    <2>. QED
      BY <1>5, <2>1, SessionOnlyEarned DEF BeginRecalculate
  <1>. QED
    BY <1>2, <1>3, <1>4, <1>5 DEF Begin

\* Rule orders are inserted under keys no order has, and wait for confirmation.
LEMMA RuleOrderStatus ==
    ASSUME TypeOK, NEW os, NEW new, NEW f \in FreshKeys(new), NEW o \in OrderIds
    PROVE  \/ WithRuleOrders(os, f)[o] = os[o]
           \/ /\ orders[o].status = "absent"
              /\ WithRuleOrders(os, f)[o].status = "pending_confirm"
  <1>1. /\ DOMAIN f = new
        /\ \A pr \in new : f[pr] \in {q \in OrderIds : orders[q].status = "absent"}
    BY DEF FreshKeys
  <1>2. CASE \E pr \in DOMAIN f : f[pr] = o
    <2>1. orders[o].status = "absent"
      BY <1>1, <1>2
    <2>. QED
      BY <1>2, <2>1 DEF WithRuleOrders, RuleOrder, NewOrder
  <1>3. CASE ~ \E pr \in DOMAIN f : f[pr] = o
    BY <1>3 DEF WithRuleOrders
  <1>. QED
    BY <1>2, <1>3

\* A committed transition logs its action on top of what its view had earned.
LEMMA LoggedEarned ==
    ASSUME TypeOK, StatusEarned, NEW r \in Requests, NEW o \in OrderIds,
           NEW from, NEW a, NEW to, NEW c, <<from, a, to>> \in Transitions, Earned(o, from),
           Log(o, LogEntry(from, a, to, c)), session' = [session EXCEPT ![r] = Idle],
           \A q \in OrderIds : \/ orders'[q].status = orders[q].status
                               \/ q = o /\ orders'[q].status = to
                               \/ orders'[q].status = "pending_confirm"
    PROVE  StatusEarned'
  <1>. DEFINE entry == LogEntry(from, a, to, c)
  <1>1. entry.action = a
    BY DEF LogEntry
  <1>2. /\ Needs[to] \subseteq Needs[from] \cup {a}
        /\ a \in DOMAIN Prior => Prior[a] \in Needs[from]
    <2>1. <<from, a, to>>[1] = from /\ <<from, a, to>>[2] = a /\ <<from, a, to>>[3] = to
      OBVIOUS
    <2>. QED
      BY <2>1, TransitionNeeds
  <1>3. Done(o)' = Done(o) \cup {a} /\ \A q \in OrderIds : Done(q) \subseteq Done(q)'
    BY <1>1, DoneAfterLog
  <1>4. NoStepSkipped'
    <2>1. a \in DOMAIN Prior => Prior[a] \in Done(o)
      BY <1>2 DEF Earned
    <2>. QED
      BY <1>1, <2>1, LogInOrder DEF StatusEarned
  <1>5. (\A q \in Requests : SessionEarned(session[q]))'
    BY <1>3, IdleEarned, SessionsStayEarned
  <1>6. \A q \in OrderIds : Earned(q, orders[q].status)'
    <2>. SUFFICES ASSUME NEW q \in OrderIds PROVE Needs[orders'[q].status] \subseteq Done(q)'
      BY DEF Earned
    <2>1. CASE orders'[q].status = orders[q].status
      BY <1>3, <2>1 DEF StatusEarned, Earned
    <2>2. CASE q = o /\ orders'[q].status = to
      BY <1>2, <1>3, <2>2 DEF Earned
    <2>3. CASE orders'[q].status = "pending_confirm"
      BY <2>3 DEF Needs
    <2>. QED
      BY <2>1, <2>2, <2>3
  <1>. QED
    BY <1>4, <1>5, <1>6 DEF StatusEarned

LEMMA CommitTransitionEarned ==
    ASSUME TypeOK, StatusEarned, NEW r \in Requests, CommitTransition(r)
    PROVE  StatusEarned'
  <1>. DEFINE s == session[r]
  <1>1. s \in TransitionSession
    BY SessionTypes DEF CommitTransition
  <1>2. s.order \in OrderIds
    BY <1>1 DEF TransitionSession
  <1>3. <<s.row.status, s.action, s.to>> \in Transitions /\ Earned(s.order, s.row.status)
    BY DEF StatusEarned, SessionEarned, CommitTransition
  <1>4. \A q \in OrderIds : \/ orders'[q].status = orders[q].status
                            \/ q = s.order /\ orders'[q].status = s.to
    BY <1>2 DEF CommitTransition, Updated, TypeOK
  <1>5. /\ Log(s.order, LogEntry(s.row.status, s.action, s.to, s.caller))
        /\ session' = [session EXCEPT ![r] = Idle]
    BY DEF CommitTransition
  <1>. QED
    BY <1>2, <1>3, <1>4, <1>5, LoggedEarned

LEMMA CommitReviewPassEarned ==
    ASSUME TypeOK, StatusEarned, NEW r \in Requests, CommitReviewPass(r)
    PROVE  StatusEarned'
  <1>. DEFINE s == session[r]
              viewed == s.view.orders[s.order]
              new == ToCreate(Flushed(s), {viewed.project})
  <1>1. s.order \in OrderIds
    BY SessionTypes DEF CommitReviewPass, ReviewSession
  <1>2. viewed.status = "waiting_review" /\ Earned(s.order, "waiting_review")
    BY DEF StatusEarned, SessionEarned, CommitReviewPass
  <1>3. <<viewed.status, "review_pass", "closed">> \in Transitions
    BY <1>2 DEF Transitions
  <1>4. PICK f \in FreshKeys(new) : orders' = WithRuleOrders(Close(orders, {s.order}), f)
    BY DEF CommitReviewPass
  <1>5. \A q \in OrderIds : \/ Close(orders, {s.order})[q].status = orders[q].status
                            \/ q = s.order /\ Close(orders, {s.order})[q].status = "closed"
    BY DEF Close, TypeOK, OrderRow
  <1>6. \A q \in OrderIds : \/ orders'[q].status = orders[q].status
                            \/ q = s.order /\ orders'[q].status = "closed"
                            \/ orders'[q].status = "pending_confirm"
    <2>. DEFINE os == Close(orders, {s.order})
    <2>1. \A q \in OrderIds : \/ WithRuleOrders(os, f)[q] = os[q]
                              \/ WithRuleOrders(os, f)[q].status = "pending_confirm"
      BY RuleOrderStatus
    <2>. HIDE DEF os
    <2>. QED
      BY <1>4, <1>5, <2>1 DEF os
  <1>7. /\ Log(s.order, LogEntry(viewed.status, "review_pass", "closed", s.caller))
        /\ session' = [session EXCEPT ![r] = Idle]
    BY DEF CommitReviewPass
  <1>. QED
    BY <1>1, <1>2, <1>3, <1>6, <1>7, LoggedEarned

LEMMA CommitEscalateEarned ==
    ASSUME TypeOK, StatusEarned, NEW r \in Requests, CommitEscalate(r)
    PROVE  StatusEarned'
  <1>. DEFINE s == session[r]
  <1>1. \A o \in s.late : Earned(o, "processing")
    BY DEF StatusEarned, SessionEarned, CommitEscalate
  <1>2. \A o \in OrderIds : Done(o)' = Done(o)
    BY DEF CommitEscalate, Done, Logged
  <1>3. \A o \in OrderIds : \/ orders'[o].status = orders[o].status
                            \/ o \in s.late /\ orders'[o].status = "overdue_escalated"
    BY DEF CommitEscalate, Updated
  <1>4. \A o \in OrderIds : Earned(o, orders[o].status)'
    BY <1>1, <1>2, <1>3 DEF StatusEarned, Earned, Needs
  <1>5. (\A q \in Requests : SessionEarned(session[q]))'
    BY <1>2, IdleEarned, SessionsStayEarned DEF CommitEscalate
  <1>6. NoStepSkipped'
    BY DEF StatusEarned, NoStepSkipped, Logged, CommitEscalate
  <1>. QED
    BY <1>4, <1>5, <1>6 DEF StatusEarned

LEMMA CommitRecalculateEarned ==
    ASSUME TypeOK, StatusEarned, NEW r \in Requests, CommitRecalculate(r)
    PROVE  StatusEarned'
  <1>. DEFINE s == session[r]
              new == ToCreate(s.view, s.projects)
  <1>1. PICK f \in FreshKeys(new) : orders' = WithRuleOrders(orders, f)
    BY DEF CommitRecalculate
  <1>2. \A o \in OrderIds : orders'[o].status \in {orders[o].status, "pending_confirm"}
    BY <1>1, RuleOrderStatus
  <1>3. \A o \in OrderIds : Done(o)' = Done(o)
    BY DEF CommitRecalculate, Done, Logged
  <1>4. \A o \in OrderIds : Earned(o, orders[o].status)'
    BY <1>2, <1>3 DEF StatusEarned, Earned, Needs
  <1>5. (\A q \in Requests : SessionEarned(session[q]))'
    BY <1>3, IdleEarned, SessionsStayEarned DEF CommitRecalculate
  <1>6. NoStepSkipped'
    BY DEF StatusEarned, NoStepSkipped, Logged, CommitRecalculate
  <1>. QED
    BY <1>4, <1>5, <1>6 DEF StatusEarned

LEMMA InitEarned == Init => StatusEarned
  BY DEF Init, StatusEarned, Earned, Needs, NoStepSkipped, Logged, Done, SessionEarned, Idle,
         NoOrder

LEMMA StepEarned ==
    ASSUME NEW es
    PROVE  TypeOK /\ StatusEarned /\ [NextOver(es)]_vars => StatusEarned'
  <1>. SUFFICES ASSUME TypeOK, StatusEarned, [NextOver(es)]_vars PROVE StatusEarned'
    OBVIOUS
  <1>1. CASE Insert(es)
    BY <1>1, InsertEarned
  <1>2. ASSUME NEW r \in Requests, Begin(es, r) PROVE StatusEarned'
    BY <1>2, BeginEarned
  <1>3. ASSUME NEW r \in Requests, Commit(r) PROVE StatusEarned'
    BY <1>3, CommitTransitionEarned, CommitReviewPassEarned, CommitEscalateEarned,
       CommitRecalculateEarned DEF Commit
  <1>4. ASSUME NEW r \in Requests, Abort(r) PROVE StatusEarned'
    BY <1>4, IdleEarned, SessionOnlyEarned DEF Abort
  <1>5. CASE UNCHANGED vars
    BY <1>5 DEF vars, StatusEarned, Earned, NoStepSkipped, Logged, Done, SessionEarned
  <1>. QED
    BY <1>1, <1>2, <1>3, <1>4, <1>5 DEF NextOver

\* However the requests overlap, an order's status is always one its logged
\* actions account for: a stale commit can move it back, never ahead.
THEOREM AlwaysEarned == Spec => []StatusEarned
  <1>1. TypeOK /\ [Next]_vars => TypeOK'
    BY StepType DEF Next
  <1>2. TypeOK /\ StatusEarned /\ [Next]_vars => StatusEarned'
    BY StepEarned DEF Next
  <1>. QED
    BY <1>1, <1>2, InitType, InitEarned, PTL DEF Spec

\* No acceptance without dispatch, no evidence without acceptance, no review
\* without evidence, in the log of any order, for any number of requests.
THEOREM NeverSkips == Spec => []NoStepSkipped
  <1>1. StatusEarned => NoStepSkipped
    BY DEF StatusEarned
  <1>. QED
    BY <1>1, AlwaysEarned, PTL
-----------------------------------------------------------------------------
(* What one step does to an order and to a hazard, whoever takes it *)

OrderUntouched(o) == orders'[o] = orders[o] /\ flowLog'[o] = flowLog[o]
OrderInserted(o) ==
    /\ orders[o].status = "absent" /\ orders'[o].status = "pending_confirm"
    /\ orders'[o].hazard # None => hazards'[orders'[o].hazard].status # "absent"
    /\ \/ flowLog'[o] = flowLog[o]
       \/ \E e \in LogRow :
            /\ flowLog'[o] = Append(flowLog[o], e)
            /\ e.to = "pending_confirm" /\ e.action = "create"
            /\ Entitled(e.caller, "create", orders'[o])
OrderMoved(o) ==
    /\ orders[o].status # "absent" /\ SameColumns(orders[o], orders'[o])
    /\ \E e \in LogRow :
         /\ flowLog'[o] = Append(flowLog[o], e)
         /\ orders'[o].status = e.to
         /\ Entitled(e.caller, e.action, orders'[o])
         /\ e.to = "closed" =>
              /\ e.action = "review_pass"
              /\ orders'[o].hazard # None => hazards'[orders'[o].hazard].status = "closed"
OrderEscalated(o) ==
    /\ orders[o].status # "absent" /\ SameColumns(orders[o], orders'[o])
    /\ orders'[o].status = "overdue_escalated" /\ orders'[o].level > 0
    /\ flowLog'[o] = flowLog[o]
OrderEffect(o) == OrderUntouched(o) \/ OrderInserted(o) \/ OrderMoved(o) \/ OrderEscalated(o)

HazardInserted(h) ==
    /\ hazards[h].status = "absent" /\ hazards'[h].status = "open"
    /\ \E o \in OrderIds :
         /\ hazards'[h].order = o /\ orders'[o].hazard = h
         /\ orders'[o].project = hazards'[h].project
HazardClosed(h) ==
    /\ hazards[h].status # "absent" /\ hazards'[h].status = "closed"
    /\ hazards'[h].project = hazards[h].project /\ hazards'[h].order = hazards[h].order
    /\ \E o \in OrderIds :
         orders'[o].hazard = h /\ orders'[o].status = "closed" /\ "review_pass" \in Done(o)'
HazardEffect(h) == hazards'[h] = hazards[h] \/ HazardInserted(h) \/ HazardClosed(h)

Effects == (\A o \in OrderIds : OrderEffect(o)) /\ (\A h \in HazardIds : HazardEffect(h))

\* The checks made on an order depend on the columns no step changes.
LEMMA EntitledWhenAllowed ==
    ASSUME NEW c \in Callers, NEW row, NEW new, NEW a \in Actions, row.sub \in Subs \cup {None},
           SameColumns(row, new), ActionAllowed(c, row, a)
    PROVE  Entitled(c, a, new)
  <1>1. PICK m \in ProjectRole(c, row.project) :
          AllowedAction(m.role, row.status, a, IF m.sub # None THEN m.sub ELSE c.sub, row.sub)
    BY DEF ActionAllowed
  <1>2. m.role = c.role
    BY DEF ProjectRole
  <1>3. new.project = row.project /\ new.sub = row.sub
    BY DEF SameColumns
  <1>4. \E rule \in {"same_project", "same_subcontractor", "system"} :
          /\ <<row.status, a, m.role, rule>> \in RoleActionMatrix
          /\ rule = "same_subcontractor" =>
               /\ (IF m.sub # None THEN m.sub ELSE c.sub) # None
               /\ (IF m.sub # None THEN m.sub ELSE c.sub) = row.sub
    BY <1>1 DEF AllowedAction
  <1>5. CASE a \in {"accept", "submit_result"}
    <2>1. /\ (IF m.sub # None THEN m.sub ELSE c.sub) # None
          /\ (IF m.sub # None THEN m.sub ELSE c.sub) = row.sub
      BY <1>4, <1>5 DEF RoleActionMatrix
    <2>. QED
      BY <1>1, <1>3, <1>5, <2>1 DEF Entitled
  <1>6. CASE a = "confirm"
    BY <1>1, <1>2, <1>3, <1>4, <1>6 DEF RoleActionMatrix, Entitled
  <1>7. CASE a = "timeout"
    BY <1>1, <1>2, <1>3, <1>4, <1>7 DEF RoleActionMatrix, Entitled
  <1>8. CASE a \in {"review_pass", "review_reject"}
    BY <1>1, <1>2, <1>3, <1>4, <1>8 DEF RoleActionMatrix, Entitled
  <1>. QED
    BY <1>5, <1>6, <1>7, <1>8 DEF Actions

\* _close_related_hazard finds the hazard the order names, and no other: the
\* hazard that names the order is the one it was created with.
LEMMA RelatedIsNamed ==
    ASSUME NEW v, Linked(v), NEW o \in OrderIds
    PROVE  RelatedHazard(v, o) = {h \in HazardIds : h = v.orders[o].hazard}
  <1>. DEFINE owners == {h \in HazardIds : /\ v.hazards[h].order = o
                                           /\ v.hazards[h].project = v.orders[o].project}
  <1>1. o # None
    BY FlowAssumption
  <1>2. \A h \in owners : v.orders[o].hazard = h
    BY <1>1 DEF Linked
  <1>3. CASE owners = {}
    BY <1>3 DEF RelatedHazard
  <1>4. CASE owners # {}
    <2>1. PICK h \in owners : TRUE
      BY <1>4
    <2>2. owners = {h}
      BY <1>2, <2>1
    <2>. QED
      BY <1>2, <1>4, <2>1, <2>2 DEF RelatedHazard
  <1>. QED
    BY <1>3, <1>4

LEMMA CreateHazardEffects ==
    ASSUME TypeOK, RowsStand, NEW c \in Callers, NEW p \in Projects, NEW s \in Subs,
           NEW h \in HazardIds, NEW o \in OrderIds, CreateHazard(c, p, s, h, o)
    PROVE  Effects
  <1>. DEFINE e == LogEntry(None, "create", "pending_confirm", c)
  <1>1. /\ orders' = [orders EXCEPT ![o] = NewOrder(p, s, h, None, FALSE)]
        /\ hazards' = [hazards EXCEPT ![h] = [status |-> "open", project |-> p, order |-> o]]
        /\ flowLog' = [flowLog EXCEPT ![o] = Append(@, e)]
        /\ orders[o].status = "absent" /\ hazards[h].status = "absent"
    BY DEF CreateHazard, Log
  <1>2. /\ orders'[o] = NewOrder(p, s, h, None, FALSE)
        /\ hazards'[h] = [status |-> "open", project |-> p, order |-> o]
        /\ flowLog'[o] = Append(flowLog[o], e)
        /\ \A q \in OrderIds \ {o} : orders'[q] = orders[q] /\ flowLog'[q] = flowLog[q]
        /\ \A g \in HazardIds \ {h} : hazards'[g] = hazards[g]
    BY <1>1 DEF TypeOK
  <1>3. e \in LogRow /\ e.to = "pending_confirm" /\ e.action = "create" /\ e.caller = c
    BY DEF LogEntry, LogRow, Status
  <1>4. Entitled(c, "create", orders'[o])
    <2>1. orders'[o].project = p
      BY <1>2 DEF NewOrder
    <2>. QED
      BY <2>1 DEF Entitled, CreateHazard, HasMembership
  <1>5. OrderInserted(o)
    BY <1>1, <1>2, <1>3, <1>4 DEF OrderInserted, NewOrder
  <1>6. HazardInserted(h)
    BY <1>1, <1>2 DEF HazardInserted, NewOrder
  <1>. QED
    BY <1>2, <1>5, <1>6 DEF Effects, OrderEffect, OrderUntouched, HazardEffect

LEMMA CreateWorkOrderEffects ==
    ASSUME TypeOK, RowsStand, NEW c \in Callers, NEW o \in OrderIds, NEW b \in Bodies, CreateWorkOrder(c, o, b)
    PROVE  Effects
  <1>1. /\ orders'[o] = NewOrder(b.project, b.sub, b.hazard, b.rule, b.own)
        /\ \A q \in OrderIds \ {o} : orders'[q] = orders[q]
        /\ orders[o].status = "absent"
        /\ hazards' = hazards /\ flowLog' = flowLog
    BY DEF CreateWorkOrder, TypeOK
  <1>2. OrderInserted(o)
    BY <1>1 DEF OrderInserted, NewOrder, CreateWorkOrder
  <1>. QED
    BY <1>1, <1>2 DEF Effects, OrderEffect, OrderUntouched, HazardEffect

LEMMA CommitTransitionEffects ==
    ASSUME TypeOK, StatusEarned, RowsStand, NEW r \in Requests, CommitTransition(r)
    PROVE  Effects
  <1>. DEFINE s == session[r]
              e == LogEntry(s.row.status, s.action, s.to, s.caller)
  <1>1. /\ s \in TransitionSession
        /\ s.order \in OrderIds /\ s.action \in Actions \ {"review_pass"} /\ s.to \in Status
        /\ s.caller \in Callers /\ s.row.status \in Status /\ s.row \in OrderRow
    BY SessionTypes DEF CommitTransition, TransitionSession
  <1>2. /\ orders[s.order].status # "absent" /\ SameColumns(s.row, orders[s.order])
        /\ ActionAllowed(s.caller, s.row, s.action)
    BY DEF RowsStand, SessionStands, CommitTransition
  <1>3. PICK level, evidence : orders' = [orders EXCEPT ![s.order] = Updated(@, s.to, level, evidence)]
    BY DEF CommitTransition
  <1>4. /\ orders'[s.order] = Updated(orders[s.order], s.to, level, evidence)
        /\ flowLog'[s.order] = Append(flowLog[s.order], e)
        /\ \A q \in OrderIds \ {s.order} : orders'[q] = orders[q] /\ flowLog'[q] = flowLog[q]
        /\ hazards' = hazards
    BY <1>1, <1>3 DEF CommitTransition, Log, TypeOK
  <1>5. e \in LogRow /\ e.to = s.to /\ e.action = s.action /\ e.caller = s.caller
    BY <1>1 DEF LogEntry, LogRow
  <1>6. SameColumns(orders[s.order], orders'[s.order]) /\ orders'[s.order].status = s.to
    BY <1>4 DEF SameColumns, Updated
  <1>7. Entitled(s.caller, s.action, orders'[s.order])
    <2>1. SameColumns(s.row, orders'[s.order])
      BY <1>2, <1>6 DEF SameColumns
    <2>2. s.row.sub \in Subs \cup {None}
      BY <1>1 DEF OrderRow
    <2>. QED
      BY <1>1, <1>2, <2>1, <2>2, EntitledWhenAllowed
  <1>8. s.to # "closed"
    BY <1>1 DEF StatusEarned, SessionEarned, CommitTransition, Transitions
  <1>9. OrderMoved(s.order)
    BY <1>2, <1>4, <1>5, <1>6, <1>7, <1>8 DEF OrderMoved
  <1>. QED
    BY <1>4, <1>9 DEF Effects, OrderEffect, OrderUntouched, HazardEffect

LEMMA CommitEscalateEffects ==
    ASSUME TypeOK, RowsStand, NEW r \in Requests, CommitEscalate(r)
    PROVE  Effects
  <1>. DEFINE s == session[r]
  <1>1. s \in EscalateSession /\ \A o \in OrderIds : s.level[o] \in Nat
    BY SessionTypes DEF CommitEscalate, EscalateSession
  <1>2. \A o \in s.late : orders[o].status # "absent"
    BY DEF RowsStand, SessionStands, CommitEscalate
  <1>3. ASSUME NEW o \in OrderIds PROVE OrderEffect(o)
    <2>1. CASE o \in s.late
      <3>1. /\ orders'[o] = Updated(orders[o], "overdue_escalated", s.level[o] + 1, orders[o].evidence)
            /\ flowLog'[o] = flowLog[o]
        BY <2>1 DEF CommitEscalate
      <3>. QED
        BY <1>1, <1>2, <2>1, <3>1 DEF OrderEffect, OrderEscalated, Updated, SameColumns
    <2>2. CASE o \notin s.late
      BY <2>2 DEF CommitEscalate, OrderEffect, OrderUntouched
    <2>. QED
      BY <2>1, <2>2
  <1>. QED
    BY <1>3 DEF Effects, HazardEffect, CommitEscalate

\* Rule orders, in the terms above.
LEMMA RuleOrderEffect ==
    ASSUME TypeOK, NEW os, NEW new, NEW f \in FreshKeys(new), NEW o \in OrderIds
    PROVE  \/ WithRuleOrders(os, f)[o] = os[o]
           \/ /\ orders[o].status = "absent"
              /\ WithRuleOrders(os, f)[o].status = "pending_confirm"
              /\ WithRuleOrders(os, f)[o].hazard = None
  <1>1. /\ DOMAIN f = new
        /\ \A pr \in new : f[pr] \in {q \in OrderIds : orders[q].status = "absent"}
    BY DEF FreshKeys
  <1>2. CASE \E pr \in DOMAIN f : f[pr] = o
    BY <1>1, <1>2 DEF WithRuleOrders, RuleOrder, NewOrder
  <1>3. CASE ~ \E pr \in DOMAIN f : f[pr] = o
    BY <1>3 DEF WithRuleOrders
  <1>. QED
    BY <1>2, <1>3

LEMMA CommitRecalculateEffects ==
    ASSUME TypeOK, RowsStand, NEW r \in Requests, CommitRecalculate(r)
    PROVE  Effects
  <1>. DEFINE s == session[r]
              new == ToCreate(s.view, s.projects)
  <1>1. PICK f \in FreshKeys(new) : orders' = WithRuleOrders(orders, f)
    BY DEF CommitRecalculate
  <1>2. hazards' = hazards /\ flowLog' = flowLog
    BY DEF CommitRecalculate
  <1>3. ASSUME NEW o \in OrderIds PROVE OrderEffect(o)
    <2>1. \/ orders'[o] = orders[o]
          \/ /\ orders[o].status = "absent" /\ orders'[o].status = "pending_confirm"
             /\ orders'[o].hazard = None
      BY <1>1, RuleOrderEffect
    <2>. QED
      BY <1>2, <2>1 DEF OrderEffect, OrderUntouched, OrderInserted
  <1>. QED
    BY <1>2, <1>3 DEF Effects, HazardEffect

LEMMA CommitReviewPassEffects ==
    ASSUME TypeOK, StatusEarned, RowsStand, NEW r \in Requests, CommitReviewPass(r)
    PROVE  Effects
  <1>. DEFINE s == session[r]
              viewed == s.view.orders[s.order]
              os == Close(orders, {s.order})
              new == ToCreate(Flushed(s), {viewed.project})
              e == LogEntry(viewed.status, "review_pass", "closed", s.caller)
  <1>1. /\ s.order \in OrderIds /\ s.caller \in Callers
        /\ viewed \in OrderRow /\ viewed.status \in Status
    BY SessionTypes DEF CommitReviewPass, ReviewSession, View
  <1>2. /\ Linked(s.view) /\ StillTrue(s.view)
        /\ ActionAllowed(s.caller, viewed, "review_pass")
    BY DEF RowsStand, SessionStands, CommitReviewPass
  <1>3. orders[s.order].status # "absent" /\ SameColumns(viewed, orders[s.order])
    BY <1>1, <1>2 DEF StillTrue, Status
  <1>4. PICK f \in FreshKeys(new) : orders' = WithRuleOrders(os, f)
    BY DEF CommitReviewPass
  <1>5. /\ hazards' = Close(hazards, {h \in HazardIds : h = viewed.hazard})
        /\ flowLog' = [flowLog EXCEPT ![s.order] = Append(flowLog[s.order], e)]
    BY <1>1, <1>2, RelatedIsNamed DEF CommitReviewPass, Log
  <1>6. /\ os[s.order].status = "closed" /\ SameColumns(orders[s.order], os[s.order])
        /\ \A q \in OrderIds \ {s.order} : os[q] = orders[q]
    BY <1>1 DEF Close, TypeOK, OrderRow, SameColumns
  <1>7. ASSUME NEW q \in OrderIds
        PROVE  \/ orders'[q] = os[q]
               \/ /\ orders[q].status = "absent" /\ orders'[q].status = "pending_confirm"
                  /\ orders'[q].hazard = None
    BY <1>4, RuleOrderEffect
  <1>8. orders'[s.order] = os[s.order]
    BY <1>1, <1>3, <1>7
  <1>9. /\ flowLog'[s.order] = Append(flowLog[s.order], e)
        /\ \A q \in OrderIds \ {s.order} : flowLog'[q] = flowLog[q]
    BY <1>1, <1>5 DEF TypeOK
  <1>10. e \in LogRow /\ e.to = "closed" /\ e.action = "review_pass" /\ e.caller = s.caller
    BY <1>1 DEF LogEntry, LogRow, Actions, Status
  <1>11. SameColumns(orders[s.order], orders'[s.order]) /\ orders'[s.order].status = "closed"
    BY <1>6, <1>8
  <1>12. Entitled(s.caller, "review_pass", orders'[s.order])
    <2>1. SameColumns(viewed, orders'[s.order])
      BY <1>3, <1>11 DEF SameColumns
    <2>2. viewed.sub \in Subs \cup {None} /\ "review_pass" \in Actions
      BY <1>1 DEF OrderRow, Actions
    <2>. QED
      BY <1>1, <1>2, <2>1, <2>2, EntitledWhenAllowed
  <1>13. orders'[s.order].hazard = viewed.hazard
    BY <1>3, <1>11 DEF SameColumns
  <1>14. viewed.hazard # None => hazards'[viewed.hazard].status = "closed"
    <2>1. viewed.hazard \in HazardIds \cup {None}
      BY <1>1 DEF OrderRow
    <2>. QED
      BY <1>5, <2>1 DEF Close, TypeOK, HazardRow
  <1>15. OrderMoved(s.order)
    BY <1>3, <1>9, <1>10, <1>11, <1>12, <1>13, <1>14 DEF OrderMoved
  <1>16. ASSUME NEW q \in OrderIds \ {s.order} PROVE OrderEffect(q)
    BY <1>6, <1>7, <1>9 DEF OrderEffect, OrderUntouched, OrderInserted
  <1>17. ASSUME NEW h \in HazardIds PROVE HazardEffect(h)
    <2>1. CASE h # viewed.hazard
      BY <1>5, <2>1 DEF Close, TypeOK, HazardEffect
    <2>2. CASE h = viewed.hazard
      <3>1. hazards'[h] = [hazards[h] EXCEPT !.status = "closed"]
        BY <1>5, <2>2 DEF Close, TypeOK
      <3>2. hazards[h].status # "absent"
        <4>1. h # None
          BY FlowAssumption
        <4>2. s.view.hazards[h].status # "absent"
          BY <1>1, <1>2, <2>2, <4>1 DEF Linked
        <4>. QED
          BY <1>2, <4>2 DEF StillTrue
      <3>3. PICK o \in OrderIds : o = s.order
        BY <1>1
      <3>5. "review_pass" \in Done(o)'
        <4>1. Log(o, e)
          BY <3>3 DEF CommitReviewPass
        <4>2. Done(o)' = Done(o) \cup {e.action}
          BY <4>1, DoneAfterLog
        <4>. QED
          BY <1>10, <4>2
      <3>4. hazards[h] \in HazardRow
        BY DEF TypeOK
      <3>6. HazardClosed(h)
        <4>1. /\ hazards'[h].status = "closed" /\ hazards'[h].project = hazards[h].project
              /\ hazards'[h].order = hazards[h].order
          BY <3>1, <3>4 DEF HazardRow
        <4>2. orders'[o].hazard = h /\ orders'[o].status = "closed"
          BY <1>11, <1>13, <2>2, <3>3
        <4>. QED
          BY <3>2, <3>5, <4>1, <4>2 DEF HazardClosed
      <3>. QED
        BY <3>6 DEF HazardEffect
    <2>. QED
      BY <2>1, <2>2
  <1>. QED
    BY <1>15, <1>16, <1>17 DEF Effects, OrderEffect
LEMMA StepEffects ==
    ASSUME NEW es, TypeOK, StatusEarned, RowsStand, [NextOver(es)]_vars
    PROVE  Effects
  <1>1. CASE Insert(es)
    BY <1>1, CreateHazardEffects, CreateWorkOrderEffects DEF Insert
  <1>2. CASE UNCHANGED <<orders, hazards, flowLog>>
    BY <1>2 DEF Effects, OrderEffect, OrderUntouched, HazardEffect
  <1>3. ASSUME NEW r \in Requests, Begin(es, r) PROVE UNCHANGED <<orders, hazards, flowLog>>
    BY <1>3 DEF Begin, BeginTransition, BeginReviewPass, BeginEscalate, BeginRecalculate
  <1>4. ASSUME NEW r \in Requests, Commit(r) PROVE Effects
    BY <1>4, CommitTransitionEffects, CommitReviewPassEffects, CommitEscalateEffects,
       CommitRecalculateEffects DEF Commit
  <1>5. ASSUME NEW r \in Requests, Abort(r) PROVE UNCHANGED <<orders, hazards, flowLog>>
    BY <1>5 DEF Abort
  <1>6. CASE UNCHANGED vars
    BY <1>2, <1>6 DEF vars
  <1>. QED
    BY <1>1, <1>2, <1>3, <1>4, <1>5, <1>6 DEF NextOver

\* Rows stay, and stay about what they were about; a closed hazard stays closed.
LEMMA RowsKept ==
    ASSUME TypeOK, Effects
    PROVE  /\ \A o \in OrderIds : orders[o].status # "absent" =>
                orders'[o].status # "absent" /\ SameColumns(orders[o], orders'[o])
           /\ \A h \in HazardIds : hazards[h].status # "absent" =>
                /\ hazards'[h].status # "absent"
                /\ hazards'[h].project = hazards[h].project
                /\ hazards'[h].order = hazards[h].order
                /\ hazards[h].status = "closed" => hazards'[h].status = "closed"
           /\ \A o \in OrderIds : Done(o) \subseteq Done(o)'
  <1>1. ASSUME NEW o \in OrderIds, orders[o].status # "absent"
        PROVE  orders'[o].status # "absent" /\ SameColumns(orders[o], orders'[o])
    <2>1. OrderEffect(o)
      BY DEF Effects
    <2>. QED
      BY <1>1, <2>1 DEF OrderEffect, OrderUntouched, OrderInserted, OrderMoved, OrderEscalated,
                        SameColumns, LogRow, Status
  <1>2. ASSUME NEW h \in HazardIds, hazards[h].status # "absent"
        PROVE  /\ hazards'[h].status # "absent"
               /\ hazards'[h].project = hazards[h].project
               /\ hazards'[h].order = hazards[h].order
               /\ hazards[h].status = "closed" => hazards'[h].status = "closed"
    <2>1. HazardEffect(h)
      BY DEF Effects
    <2>. QED
      BY <1>2, <2>1 DEF HazardEffect, HazardInserted, HazardClosed
  <1>3. ASSUME NEW o \in OrderIds PROVE Done(o) \subseteq Done(o)'
    <2>1. flowLog[o] \in Seq(LogRow)
      BY DEF TypeOK
    <2>2. flowLog'[o] = flowLog[o] \/ \E e \in LogRow : flowLog'[o] = Append(flowLog[o], e)
      BY DEF Effects, OrderEffect, OrderUntouched, OrderInserted, OrderMoved, OrderEscalated
    <2>3. /\ DOMAIN flowLog[o] \subseteq DOMAIN flowLog'[o]
          /\ \A i \in DOMAIN flowLog[o] : flowLog'[o][i] = flowLog[o][i]
      BY <2>1, <2>2
    <2>. QED
      BY <2>3 DEF Done, Logged
  <1>. QED
    BY <1>1, <1>2, <1>3

LEMMA ViewsStayTrue ==
    ASSUME TypeOK, Effects, NEW v, StillTrue(v)
    PROVE  StillTrue(v)'
  BY RowsKept DEF StillTrue, SameColumns

LEMMA TablesStayLinked ==
    ASSUME TypeOK, TypeOK', RowsStand, Effects
    PROVE  /\ Linked(Current)'
           /\ \A o \in OrderIds : orders'[o].status = "absent" => flowLog'[o] = <<>>
  <1>0. /\ \A o \in OrderIds : OrderEffect(o) /\ orders[o] \in OrderRow /\ orders'[o] \in OrderRow
        /\ \A h \in HazardIds : HazardEffect(h) /\ hazards[h] \in HazardRow /\ hazards'[h] \in HazardRow
    BY DEF Effects, TypeOK
  <1>1. ASSUME NEW o \in OrderIds, orders'[o].status = "absent"
        PROVE  orders'[o] = orders[o] /\ orders[o].status = "absent" /\ flowLog'[o] = flowLog[o]
    BY <1>0, <1>1 DEF OrderEffect, OrderUntouched, OrderInserted, OrderMoved, OrderEscalated,
                      LogRow, Status
  <1>2. ASSUME NEW h \in HazardIds, hazards'[h].status = "absent"
        PROVE  hazards'[h] = hazards[h] /\ hazards[h].status = "absent"
    BY <1>0, <1>2 DEF HazardEffect, HazardInserted, HazardClosed
  <1>3. ASSUME NEW o \in OrderIds, orders'[o].hazard # None
        PROVE  hazards'[orders'[o].hazard].status # "absent"
    <2>1. CASE OrderInserted(o)
      BY <1>3, <2>1 DEF OrderInserted
    <2>2. CASE ~ OrderInserted(o)
      <3>1. orders'[o].hazard = orders[o].hazard
        BY <1>0, <2>2 DEF OrderEffect, OrderUntouched, OrderMoved, OrderEscalated, SameColumns
      <3>2. orders[o].hazard \in HazardIds
        BY <1>0, <1>3, <3>1 DEF OrderRow
      <3>3. hazards[orders[o].hazard].status # "absent"
        BY <1>3, <3>1 DEF RowsStand, Linked, Current
      <3>. QED
        BY <3>1, <3>2, <3>3, RowsKept
    <2>. QED
      BY <2>1, <2>2
  <1>4. ASSUME NEW h \in HazardIds, hazards'[h].order # None
        PROVE  /\ orders'[hazards'[h].order].hazard = h
               /\ orders'[hazards'[h].order].project = hazards'[h].project
    <2>1. CASE HazardInserted(h)
      BY <2>1 DEF HazardInserted
    <2>2. CASE ~ HazardInserted(h)
      <3>1. hazards'[h].order = hazards[h].order /\ hazards'[h].project = hazards[h].project
        BY <1>0, <2>2 DEF HazardEffect, HazardClosed
      <3>2. PICK o \in OrderIds : o = hazards[h].order
        BY <1>0, <1>4, <3>1 DEF HazardRow
      <3>3. orders[o].hazard = h /\ orders[o].project = hazards[h].project
        BY <1>4, <3>1, <3>2 DEF RowsStand, Linked, Current
      <3>4. orders[o].status # "absent"
        <4>1. h # None
          BY FlowAssumption
        <4>. QED
          BY <3>3, <4>1 DEF RowsStand, Linked, Current, NoOrder
      <3>. QED
        BY <3>1, <3>2, <3>3, <3>4, RowsKept DEF SameColumns
    <2>. QED
      BY <2>1, <2>2
  <1>. QED
    BY <1>1, <1>2, <1>3, <1>4 DEF RowsStand, Linked, Current

LEMMA SessionStaysTrue ==
    ASSUME TypeOK, Effects, NEW s \in Session, SessionStands(s)
    PROVE  SessionStands(s)'
  <1>1. ASSUME s.op = "transition"
        PROVE  orders'[s.order].status # "absent" /\ SameColumns(s.row, orders'[s.order])
    <2>1. s.order \in OrderIds
      BY <1>1 DEF Session, Idle, TransitionSession, ReviewSession, EscalateSession, RecalculateSession
    <2>2. orders[s.order].status # "absent" /\ SameColumns(s.row, orders[s.order])
      BY <1>1 DEF SessionStands
    <2>. QED
      BY <2>1, <2>2, RowsKept DEF SameColumns
  <1>2. ASSUME s.op = "review" PROVE StillTrue(s.view)'
    BY <1>2, ViewsStayTrue DEF SessionStands
  <1>3. ASSUME s.op = "escalate", NEW o \in s.late PROVE orders'[o].status # "absent"
    <2>1. o \in OrderIds
      BY <1>3 DEF Session, Idle, TransitionSession, ReviewSession, EscalateSession, RecalculateSession
    <2>. QED
      BY <1>3, <2>1, RowsKept DEF SessionStands
  <1>. QED
    BY <1>1, <1>2, <1>3 DEF SessionStands, Linked

LEMMA SessionsStand ==
    ASSUME TypeOK, RowsStand, Effects, NEW r \in Requests, NEW s \in Session, SessionStands(s),
           session' = [session EXCEPT ![r] = s]
    PROVE  (\A q \in Requests : SessionStands(session[q]))'
  <1>. SUFFICES ASSUME NEW q \in Requests PROVE SessionStands(session[q])'
    OBVIOUS
  <1>1. PICK t \in Session : t = session'[q] /\ SessionStands(t)
    BY DEF RowsStand, TypeOK
  <1>2. SessionStands(t)'
    BY <1>1, SessionStaysTrue
  <1>. QED
    BY <1>1, <1>2 DEF SessionStands, StillTrue

LEMMA IdleStands == Idle \in Session /\ SessionStands(Idle)
  BY DEF Idle, Session, SessionStands

\* A request opens on a view of the tables as they are.
LEMMA BeginStands ==
    ASSUME TypeOK, RowsStand, NEW es, NEW r \in Requests, Begin(es, r)
    PROVE  \E s \in Session : SessionStands(s) /\ session' = [session EXCEPT ![r] = s]
  <1>0. orders \in [OrderIds -> OrderRow] /\ StillTrue(Current)
    BY DEF TypeOK, StillTrue, Current, SameColumns
  <1>1. ASSUME NEW by \in {"patch", "execute"}, NEW c \in Callers, NEW o \in OrderIds,
               NEW t \in Transitions, BeginTransition(r, by, c, o, t)
        PROVE  \E s \in Session : SessionStands(s) /\ session' = [session EXCEPT ![r] = s]
    <2>. DEFINE s == [op |-> "transition", caller |-> c, order |-> o,
                      action |-> t[2], to |-> t[3], row |-> orders[o]]
    <2>1. s \in Session
      BY <1>0, <1>1, TransitionTypes DEF BeginTransition, Session, TransitionSession
    <2>2. orders[o].status # "absent" /\ ActionAllowed(c, orders[o], t[2])
      BY <1>1, TransitionTypes DEF BeginTransition, Accepted, Status
    <2>3. SessionStands(s)
      BY <2>2 DEF SessionStands, SameColumns
    <2>. QED
      BY <1>1, <2>1, <2>3 DEF BeginTransition
  <1>2. ASSUME NEW by \in {"patch", "execute"}, NEW c \in Callers, NEW o \in OrderIds,
               BeginReviewPass(r, by, c, o)
        PROVE  \E s \in Session : SessionStands(s) /\ session' = [session EXCEPT ![r] = s]
    <2>. DEFINE s == [op |-> "review", caller |-> c, order |-> o, view |-> Current]
    <2>1. s \in Session
      BY <1>2, CurrentType DEF BeginReviewPass, Transitions, Session, ReviewSession, Current, Status
    <2>2. ActionAllowed(c, orders[o], "review_pass")
      BY <1>2 DEF BeginReviewPass, Accepted
    <2>3. SessionStands(s)
      BY <1>0, <2>2 DEF SessionStands, RowsStand, Current
    <2>. QED
      BY <1>2, <2>1, <2>3 DEF BeginReviewPass
  <1>3. ASSUME NEW c \in Callers, NEW late \in SUBSET OrderIds, BeginEscalate(r, c, late)
        PROVE  \E s \in Session : SessionStands(s) /\ session' = [session EXCEPT ![r] = s]
    <2>. DEFINE s == [op |-> "escalate", late |-> late,
                      level |-> [o \in OrderIds |-> IF o \in late THEN orders[o].level ELSE 0]]
    <2>1. \A o \in OrderIds : orders[o].level \in Nat
      BY <1>0 DEF OrderRow
    <2>2. s \in Session
      BY <2>1 DEF Session, EscalateSession
    <2>3. SessionStands(s)
      BY <1>3 DEF SessionStands, BeginEscalate
    <2>. QED
      BY <1>3, <2>2, <2>3 DEF BeginEscalate
  <1>4. ASSUME NEW ps \in SUBSET Projects, BeginRecalculate(r, ps)
        PROVE  \E s \in Session : SessionStands(s) /\ session' = [session EXCEPT ![r] = s]
    <2>. DEFINE s == [op |-> "recalculate", projects |-> ps, view |-> Current]
    <2>1. s \in Session /\ SessionStands(s)
      BY CurrentType DEF Session, RecalculateSession, SessionStands
    <2>. QED
      BY <1>4, <2>1 DEF BeginRecalculate
  <1>. QED
    BY <1>1, <1>2, <1>3, <1>4 DEF Begin

LEMMA InitStands == Init => RowsStand
  BY DEF Init, RowsStand, Linked, Current, SessionStands, Idle, NoOrder, NoHazard

LEMMA StepStands ==
    ASSUME NEW es
    PROVE  TypeOK /\ StatusEarned /\ RowsStand /\ [NextOver(es)]_vars => RowsStand'
  <1>. SUFFICES ASSUME TypeOK, StatusEarned, RowsStand, [NextOver(es)]_vars PROVE RowsStand'
    OBVIOUS
  <1>1. TypeOK' /\ Effects
    BY StepType, StepEffects
  <1>2. /\ Linked(Current)'
        /\ \A o \in OrderIds : orders'[o].status = "absent" => flowLog'[o] = <<>>
    BY <1>1, TablesStayLinked
  <1>3. CASE UNCHANGED session
    <2>. SUFFICES ASSUME NEW q \in Requests PROVE SessionStands(session[q])'
      BY <1>2 DEF RowsStand
    <2>1. PICK t \in Session : t = session'[q] /\ SessionStands(t)
      BY <1>3 DEF RowsStand, TypeOK
    <2>2. SessionStands(t)'
      BY <1>1, <2>1, SessionStaysTrue
    <2>. QED
      BY <2>1, <2>2 DEF SessionStands, StillTrue
  <1>4. ASSUME NEW r \in Requests, NEW s \in Session, SessionStands(s),
               session' = [session EXCEPT ![r] = s]
        PROVE  RowsStand'
    BY <1>1, <1>2, <1>4, SessionsStand DEF RowsStand
  <1>5. CASE Insert(es)
    BY <1>3, <1>5 DEF Insert, CreateHazard, CreateWorkOrder
  <1>6. ASSUME NEW r \in Requests, Begin(es, r) PROVE RowsStand'
    BY <1>4, <1>6, BeginStands
  <1>7. ASSUME NEW r \in Requests, Commit(r) \/ Abort(r) PROVE RowsStand'
    <2>1. session' = [session EXCEPT ![r] = Idle]
      BY <1>7 DEF Commit, Abort, CommitTransition, CommitReviewPass, CommitEscalate, CommitRecalculate
    <2>. QED
      BY <1>4, <2>1, IdleStands
  <1>8. CASE UNCHANGED vars
    BY <1>3, <1>8 DEF vars
  <1>. QED
    BY <1>5, <1>6, <1>7, <1>8 DEF NextOver

\* Whatever overlaps, what a request reads of an order or a hazard beyond its
\* status is still so when the request writes.
THEOREM RowsAlwaysStand == Spec => []RowsStand
  <1>1. TypeOK /\ StatusEarned /\ RowsStand /\ [Next]_vars => RowsStand'
    BY StepStands DEF Next
  <1>. QED
    BY <1>1, InitStands, TypeCorrect, AlwaysEarned, PTL DEF Spec
-----------------------------------------------------------------------------
(* The guarantees that rest on it *)

LEMMA StepExplained ==
    ASSUME TypeOK, TypeOK', RowsStand, Effects, StatusExplained
    PROVE  StatusExplained'
  <1>. SUFFICES ASSUME NEW o \in OrderIds, orders'[o].status # "absent"
               PROVE  \/ /\ orders'[o].status = "overdue_escalated"
                         /\ orders'[o].level > 0
                      \/ orders'[o].status = IF flowLog'[o] = <<>> THEN "pending_confirm"
                                             ELSE flowLog'[o][Len(flowLog'[o])].to
    BY DEF StatusExplained
  <1>1. OrderEffect(o) /\ flowLog[o] \in Seq(LogRow)
    BY DEF Effects, TypeOK
  <1>2. ASSUME NEW e \in LogRow, flowLog'[o] = Append(flowLog[o], e)
        PROVE  flowLog'[o] # <<>> /\ flowLog'[o][Len(flowLog'[o])] = e
    BY <1>1, <1>2
  <1>3. CASE OrderUntouched(o)
    BY <1>3 DEF OrderUntouched, StatusExplained
  <1>4. CASE OrderInserted(o)
    <2>1. flowLog[o] = <<>>
      BY <1>4 DEF OrderInserted, RowsStand
    <2>. QED
      BY <1>2, <1>4, <2>1 DEF OrderInserted
  <1>5. CASE OrderMoved(o)
    BY <1>2, <1>5 DEF OrderMoved
  <1>6. CASE OrderEscalated(o)
    BY <1>6 DEF OrderEscalated
  <1>. QED
    BY <1>1, <1>3, <1>4, <1>5, <1>6 DEF OrderEffect

LEMMA EntitledColumns ==
    ASSUME NEW c, NEW a, NEW old, NEW new, SameColumns(old, new), Entitled(c, a, old)
    PROVE  Entitled(c, a, new)
  BY DEF SameColumns, Entitled

LEMMA StepEntitled ==
    ASSUME TypeOK, RowsStand, Effects, ActorsEntitled
    PROVE  ActorsEntitled'
  <1>. SUFFICES ASSUME NEW o \in OrderIds, NEW i \in DOMAIN flowLog'[o]
               PROVE  Entitled(flowLog'[o][i].caller, flowLog'[o][i].action, orders'[o])
    BY DEF ActorsEntitled, Logged
  <1>1. OrderEffect(o) /\ flowLog[o] \in Seq(LogRow)
    BY DEF Effects, TypeOK
  <1>2. CASE i \in DOMAIN flowLog[o] /\ flowLog'[o][i] = flowLog[o][i]
    <2>1. orders[o].status # "absent"
      BY <1>2 DEF RowsStand
    <2>2. SameColumns(orders[o], orders'[o])
      BY <2>1, RowsKept
    <2>3. Entitled(flowLog[o][i].caller, flowLog[o][i].action, orders[o])
      BY <1>2 DEF ActorsEntitled, Logged
    <2>. QED
      BY <1>2, <2>2, <2>3, EntitledColumns
  <1>3. CASE ~ (i \in DOMAIN flowLog[o] /\ flowLog'[o][i] = flowLog[o][i])
    <2>1. flowLog'[o] # flowLog[o]
      BY <1>3
    <2>2. PICK e \in LogRow : flowLog'[o] = Append(flowLog[o], e) /\ Entitled(e.caller, e.action, orders'[o])
      BY <1>1, <2>1 DEF OrderEffect, OrderUntouched, OrderInserted, OrderMoved, OrderEscalated
    <2>3. flowLog'[o][i] = e
      BY <1>1, <1>3, <2>2
    <2>. QED
      BY <2>2, <2>3
  <1>. QED
    BY <1>2, <1>3

LEMMA StepHazardClosed ==
    ASSUME TypeOK, RowsStand, Effects, HazardClosedByReview
    PROVE  HazardClosedByReview'
  <1>. SUFFICES ASSUME NEW h \in HazardIds, hazards'[h].status = "closed"
               PROVE  \E o \in OrderIds : /\ hazards'[h].order = o \/ orders'[o].hazard = h
                                          /\ "review_pass" \in Done(o)'
    BY DEF HazardClosedByReview
  <1>1. HazardEffect(h)
    BY DEF Effects
  <1>2. CASE HazardClosed(h)
    BY <1>2 DEF HazardClosed
  <1>3. CASE hazards'[h] = hazards[h]
    <2>1. PICK o \in OrderIds : /\ hazards[h].order = o \/ orders[o].hazard = h
                               /\ "review_pass" \in Done(o)
      BY <1>3 DEF HazardClosedByReview
    <2>2. orders[o].status # "absent"
      BY <2>1 DEF RowsStand, Done, Logged
    <2>3. SameColumns(orders[o], orders'[o]) /\ "review_pass" \in Done(o)'
      BY <2>1, <2>2, RowsKept
    <2>. QED
      BY <1>3, <2>1, <2>3 DEF SameColumns
  <1>. QED
    BY <1>1, <1>2, <1>3 DEF HazardEffect, HazardInserted

LEMMA StepClosedCloses ==
    ASSUME TypeOK, TypeOK', RowsStand, Effects, ClosedOrderClosesHazard
    PROVE  ClosedOrderClosesHazard'
  <1>. SUFFICES ASSUME NEW o \in OrderIds, orders'[o].status = "closed", orders'[o].hazard # None
               PROVE  hazards'[orders'[o].hazard].status = "closed"
    BY DEF ClosedOrderClosesHazard
  <1>1. OrderEffect(o) /\ orders[o] \in OrderRow
    BY DEF Effects, TypeOK
  <1>2. CASE OrderUntouched(o)
    <2>1. /\ orders'[o].hazard = orders[o].hazard /\ orders[o].hazard \in HazardIds
          /\ hazards[orders[o].hazard].status = "closed"
      BY <1>1, <1>2 DEF OrderUntouched, ClosedOrderClosesHazard, OrderRow
    <2>. QED
      BY <2>1, RowsKept
  <1>3. CASE OrderMoved(o)
    BY <1>3 DEF OrderMoved
  <1>. QED
    BY <1>1, <1>2, <1>3 DEF OrderEffect, OrderInserted, OrderEscalated

\* Status and log agree in every reachable state: a status the log does not
\* account for is an escalation, and its history says so.
THEOREM AlwaysExplained == Spec => []StatusExplained
  <1>1. Init => StatusExplained
    BY DEF Init, StatusExplained, NoOrder
  <1>2. TypeOK /\ StatusEarned /\ RowsStand /\ StatusExplained /\ [Next]_vars => StatusExplained'
    BY StepType, StepEffects, StepExplained DEF Next
  <1>. QED
    BY <1>1, <1>2, TypeCorrect, AlwaysEarned, RowsAlwaysStand, PTL DEF Spec

\* Checking a caller on a stale view is safe here: whoever acted is entitled to
\* the order as it is.
THEOREM AlwaysEntitled == Spec => []ActorsEntitled
  <1>1. Init => ActorsEntitled
    BY DEF Init, ActorsEntitled, Logged
  <1>2. TypeOK /\ StatusEarned /\ RowsStand /\ ActorsEntitled /\ [Next]_vars => ActorsEntitled'
    BY StepEffects, StepEntitled DEF Next
  <1>. QED
    BY <1>1, <1>2, TypeCorrect, AlwaysEarned, RowsAlwaysStand, PTL DEF Spec

\* No hazard is ever closed but by a passed review of an order made for it.
THEOREM ReviewedHazards == Spec => []HazardClosedByReview
  <1>1. Init => HazardClosedByReview
    BY DEF Init, HazardClosedByReview, NoHazard
  <1>2. TypeOK /\ StatusEarned /\ RowsStand /\ HazardClosedByReview /\ [Next]_vars
        => HazardClosedByReview'
    BY StepEffects, StepHazardClosed DEF Next
  <1>. QED
    BY <1>1, <1>2, TypeCorrect, AlwaysEarned, RowsAlwaysStand, PTL DEF Spec

\* No order is closed while the hazard it was made for is open, however stale
\* the view that was reviewed.
THEOREM ClosedTogether == Spec => []ClosedOrderClosesHazard
  <1>1. Init => ClosedOrderClosesHazard
    BY DEF Init, ClosedOrderClosesHazard, NoOrder
  <1>2. TypeOK /\ StatusEarned /\ RowsStand /\ ClosedOrderClosesHazard /\ [Next]_vars
        => ClosedOrderClosesHazard'
    BY StepType, StepEffects, StepClosedCloses DEF Next
  <1>. QED
    BY <1>1, <1>2, TypeCorrect, AlwaysEarned, RowsAlwaysStand, PTL DEF Spec
-----------------------------------------------------------------------------
(* The workflow implements the record of the rectification *)

\* The record a step leaves, order by order and hazard by hazard.
LEMMA DoneIsKept ==
    ASSUME NEW o \in OrderIds, flowLog'[o] = flowLog[o]
    PROVE  Done(o)' = Done(o)
  BY DEF Done, Logged

LEMMA AbsentIsBlank ==
    ASSUME RowsStand, NEW o \in OrderIds, orders[o].status = "absent"
    PROVE  orders[o].hazard = None /\ Done(o) = {}
  <1>1. orders[o] = NoOrder /\ flowLog[o] = <<>>
    BY DEF RowsStand, Linked, Current
  <1>. QED
    BY <1>1 DEF NoOrder, Done, Logged

\* The log of one order grows by a step.
LEMMA DoneAfterStep ==
    ASSUME TypeOK, NEW o \in OrderIds, NEW entry, Log(o, entry)
    PROVE  [q \in OrderIds |-> Done(q)]' =
              [[q \in OrderIds |-> Done(q)] EXCEPT ![o] = @ \cup {entry.action}]
  <1>1. Done(o)' = Done(o) \cup {entry.action}
    BY DoneAfterLog
  <1>2. ASSUME NEW q \in OrderIds, q # o PROVE Done(q)' = Done(q)
    <2>1. flowLog'[q] = flowLog[q]
      BY <1>2 DEF Log, TypeOK
    <2>. QED
      BY <2>1, DoneIsKept
  <1>. QED
    BY <1>1, <1>2

LEMMA RecordsReport ==
    ASSUME TypeOK, RowsStand, NEW c \in Callers, NEW p \in Projects, NEW s \in Subs,
           NEW h \in HazardIds, NEW o \in OrderIds, CreateHazard(c, p, s, h, o)
    PROVE  Record!Report(o, h)
  <1>. DEFINE e == LogEntry(None, "create", "pending_confirm", c)
  <1>1. /\ orders[o].status = "absent" /\ hazards[h].status = "absent" /\ Log(o, e)
        /\ orders'[o] = NewOrder(p, s, h, None, FALSE)
        /\ \A q \in OrderIds \ {o} : orders'[q] = orders[q]
        /\ hazards'[h] = [status |-> "open", project |-> p, order |-> o]
        /\ \A g \in HazardIds \ {h} : hazards'[g] = hazards[g]
    BY DEF CreateHazard, TypeOK
  <1>2. [q \in OrderIds |-> Done(q)]' = [[q \in OrderIds |-> Done(q)] EXCEPT ![o] = {"create"}]
    <2>1. Done(o) = {} /\ e.action = "create"
      BY <1>1, AbsentIsBlank DEF LogEntry
    <2>. HIDE DEF e
    <2>. QED
      BY <1>1, <2>1, DoneAfterStep
  <1>3. /\ [q \in OrderIds |-> orders[q].status]' =
             [q \in OrderIds |-> IF q \in {o} THEN "pending_confirm" ELSE [x \in OrderIds |-> orders[x].status][q]]
        /\ [q \in OrderIds |-> orders[q].hazard]' = [[q \in OrderIds |-> orders[q].hazard] EXCEPT ![o] = h]
        /\ [g \in HazardIds |-> hazards[g].status]' = [[g \in HazardIds |-> hazards[g].status] EXCEPT ![h] = "open"]
    <2>1. /\ orders'[o].status = "pending_confirm" /\ orders'[o].hazard = h
          /\ hazards'[h].status = "open"
      BY <1>1 DEF NewOrder
    <2>. QED
      BY <1>1, <2>1
  <1>. QED
    BY <1>1, <1>2, <1>3 DEF Record!Report, Record!New

LEMMA RecordsOrder ==
    ASSUME TypeOK, NEW c \in Callers, NEW o \in OrderIds, NEW b \in Bodies, CreateWorkOrder(c, o, b)
    PROVE  Record!MakeOrder(o, b.hazard)
  <1>. DEFINE row == NewOrder(b.project, b.sub, b.hazard, b.rule, b.own)
  <1>0. PICK h \in HazardIds \cup {None} : h = b.hazard
    BY DEF Bodies
  <1>1. /\ orders[o].status = "absent" /\ (h # None => hazards[h].status # "absent")
        /\ orders'[o] = row
        /\ \A q \in OrderIds \ {o} : orders'[q] = orders[q]
        /\ hazards' = hazards /\ flowLog' = flowLog
    BY <1>0 DEF CreateWorkOrder, TypeOK
  <1>2. [q \in OrderIds |-> Done(q)]' = [q \in OrderIds |-> Done(q)]
    BY <1>1, DoneIsKept
  <1>3. /\ [q \in OrderIds |-> orders[q].status]' =
             [q \in OrderIds |-> IF q \in {o} THEN "pending_confirm" ELSE [x \in OrderIds |-> orders[x].status][q]]
        /\ [q \in OrderIds |-> orders[q].hazard]' = [[q \in OrderIds |-> orders[q].hazard] EXCEPT ![o] = h]
    <2>1. row.status = "pending_confirm" /\ row.hazard = h
      BY <1>0 DEF NewOrder
    <2>. HIDE DEF row
    <2>. QED
      BY <1>1, <2>1
  <1>4. h # None => [g \in HazardIds |-> hazards[g].status][h] # "absent"
    BY <1>1
  <1>5. Record!MakeOrder(o, h)
    <2>. HIDE DEF row
    <2>. QED
      BY <1>1, <1>2, <1>3, <1>4 DEF Record!MakeOrder, Record!New
  <1>. QED
    BY <1>0, <1>5

LEMMA RecordsStep ==
    ASSUME TypeOK, StatusEarned, RowsStand, NEW r \in Requests, CommitTransition(r)
    PROVE  \E o \in OrderIds, step \in DOMAIN Record!Needed \ {"review_pass"} : Record!TakeStep(o, step)
  <1>. DEFINE s == session[r]
              e == LogEntry(s.row.status, s.action, s.to, s.caller)
  <1>1. /\ s.order \in OrderIds /\ s.action \in Actions \ {"review_pass"} /\ s.to \in Status
    BY SessionTypes DEF CommitTransition, TransitionSession
  <1>2. PICK o \in OrderIds : o = s.order
    BY <1>1
  <1>3. <<s.row.status, s.action, s.to>> \in Transitions /\ Needs[s.row.status] \subseteq Done(o)
    BY <1>2 DEF StatusEarned, SessionEarned, Earned, CommitTransition
  <1>4. orders[o].status # "absent"
    BY <1>2 DEF RowsStand, SessionStands, CommitTransition
  <1>5. /\ Record!Needed[s.action] \subseteq Needs[s.row.status]
        /\ Record!LeadsTo[s.action] = s.to
    BY <1>1, <1>3 DEF Transitions, Needs, Record!Needed, Record!LeadsTo
  <1>6. /\ orders'[o].status = s.to /\ orders'[o].hazard = orders[o].hazard
        /\ \A q \in OrderIds \ {o} : orders'[q] = orders[q]
        /\ hazards' = hazards /\ Log(o, e)
    BY <1>2 DEF CommitTransition, TypeOK, Updated
  <1>7. e.action = s.action
    BY DEF LogEntry
  <1>8. [q \in OrderIds |-> Done(q)]' =
           [[q \in OrderIds |-> Done(q)] EXCEPT ![o] = @ \cup {s.action}]
    <2>. HIDE DEF e
    <2>. QED
      BY <1>6, <1>7, DoneAfterStep
  <1>9. /\ [q \in OrderIds |-> orders[q].status]' = [[q \in OrderIds |-> orders[q].status] EXCEPT ![o] = s.to]
        /\ [q \in OrderIds |-> orders[q].hazard]' = [q \in OrderIds |-> orders[q].hazard]
    BY <1>6
  <1>10. PICK step \in Actions \ {"review_pass"} : step = s.action
    BY <1>1
  <1>11. Record!TakeStep(o, step)
    BY <1>3, <1>4, <1>5, <1>6, <1>8, <1>9, <1>10 DEF Record!TakeStep
  <1>12. step \in DOMAIN Record!Needed \ {"review_pass"}
    BY DEF Actions, Record!Needed
  <1>. QED
    BY <1>11, <1>12

\* Which orders are new after a transaction that inserted rule orders.
LEMMA RuleOrdersNew ==
    ASSUME NEW os, NEW new, NEW f \in FreshKeys(new)
    PROVE  \E n \in SUBSET OrderIds :
              /\ \A o \in n : orders[o].status = "absent"
              /\ \A o \in n : /\ WithRuleOrders(os, f)[o].status = "pending_confirm"
                              /\ WithRuleOrders(os, f)[o].hazard = None
              /\ \A o \in OrderIds \ n : WithRuleOrders(os, f)[o] = os[o]
  <1>. DEFINE n == {o \in OrderIds : \E pr \in DOMAIN f : f[pr] = o}
  <1>1. /\ DOMAIN f = new
        /\ \A pr \in new : f[pr] \in {q \in OrderIds : orders[q].status = "absent"}
    BY DEF FreshKeys
  <1>2. \A o \in n : orders[o].status = "absent"
    BY <1>1
  <1>3. ASSUME NEW o \in n
        PROVE  WithRuleOrders(os, f)[o].status = "pending_confirm" /\ WithRuleOrders(os, f)[o].hazard = None
    <2>1. WithRuleOrders(os, f)[o] = RuleOrder(CHOOSE pr \in DOMAIN f : f[pr] = o)
      BY DEF WithRuleOrders
    <2>. QED
      BY <2>1 DEF RuleOrder, NewOrder
  <1>4. \A o \in OrderIds \ n : WithRuleOrders(os, f)[o] = os[o]
    BY DEF WithRuleOrders
  <1>. QED
    BY <1>2, <1>3, <1>4

LEMMA RecordsRuleOrders ==
    ASSUME TypeOK, RowsStand, NEW r \in Requests, CommitRecalculate(r)
    PROVE  \E os \in SUBSET OrderIds : Record!MakeRuleOrders(os)
  <1>. DEFINE new == ToCreate(session[r].view, session[r].projects)
  <1>1. PICK f \in FreshKeys(new) : orders' = WithRuleOrders(orders, f)
    BY DEF CommitRecalculate
  <1>2. PICK n \in SUBSET OrderIds :
          /\ \A o \in n : orders[o].status = "absent"
          /\ \A o \in n : orders'[o].status = "pending_confirm" /\ orders'[o].hazard = None
          /\ \A o \in OrderIds \ n : orders'[o] = orders[o]
    <2>. HIDE DEF new
    <2>. QED
      BY <1>1, RuleOrdersNew
  <1>3. hazards' = hazards /\ flowLog' = flowLog
    BY DEF CommitRecalculate
  <1>4. [q \in OrderIds |-> Done(q)]' = [q \in OrderIds |-> Done(q)]
    BY <1>3, DoneIsKept
  <1>5. [q \in OrderIds |-> orders[q].hazard]' = [q \in OrderIds |-> orders[q].hazard]
    BY <1>2, AbsentIsBlank
  <1>6. [q \in OrderIds |-> orders[q].status]' =
             [q \in OrderIds |-> IF q \in n THEN "pending_confirm" ELSE [x \in OrderIds |-> orders[x].status][q]]
    BY <1>2
  <1>7. Record!MakeRuleOrders(n)
    BY <1>2, <1>3, <1>4, <1>5, <1>6 DEF Record!MakeRuleOrders, Record!New
  <1>. QED
    BY <1>7

LEMMA RecordsReview ==
    ASSUME TypeOK, StatusEarned, RowsStand, NEW r \in Requests, CommitReviewPass(r)
    PROVE  \E o \in OrderIds, os \in SUBSET OrderIds : Record!PassReview(o, os)
  <1>. DEFINE s == session[r]
              viewed == s.view.orders[s.order]
              closed == Close(orders, {s.order})
              new == ToCreate(Flushed(s), {viewed.project})
              e == LogEntry(viewed.status, "review_pass", "closed", s.caller)
  <1>1. s.order \in OrderIds /\ viewed \in OrderRow /\ viewed.status \in Status
    BY SessionTypes DEF CommitReviewPass, ReviewSession, View
  <1>2. PICK o \in OrderIds : o = s.order
    BY <1>1
  <1>3. /\ Linked(s.view) /\ StillTrue(s.view)
    BY DEF RowsStand, SessionStands, CommitReviewPass
  <1>4. orders[o].status # "absent" /\ viewed.hazard = orders[o].hazard
    BY <1>1, <1>2, <1>3 DEF StillTrue, Status, SameColumns
  <1>5. "submit_result" \in Done(o)
    BY <1>2 DEF StatusEarned, SessionEarned, Earned, Needs, CommitReviewPass
  <1>6. PICK f \in FreshKeys(new) : orders' = WithRuleOrders(closed, f)
    BY DEF CommitReviewPass
  <1>7. PICK n \in SUBSET OrderIds :
          /\ \A q \in n : orders[q].status = "absent"
          /\ \A q \in n : orders'[q].status = "pending_confirm" /\ orders'[q].hazard = None
          /\ \A q \in OrderIds \ n : orders'[q] = closed[q]
    <2>. HIDE DEF new, closed
    <2>. QED
      BY <1>6, RuleOrdersNew
  <1>8. /\ closed[o].status = "closed" /\ closed[o].hazard = orders[o].hazard
        /\ \A q \in OrderIds \ {o} : closed[q] = orders[q]
    BY <1>2 DEF Close, TypeOK, OrderRow
  <1>9. o \notin n
    BY <1>4, <1>7
  <1>10. [q \in OrderIds |-> orders[q].status]' =
            [[q \in OrderIds |-> IF q \in n THEN "pending_confirm" ELSE [x \in OrderIds |-> orders[x].status][q]]
                EXCEPT ![o] = "closed"]
    <2>1. ASSUME NEW q \in OrderIds
          PROVE  orders'[q].status = IF q = o THEN "closed"
                                     ELSE IF q \in n THEN "pending_confirm" ELSE orders[q].status
      <3>. HIDE DEF closed
      <3>. QED
        BY <1>7, <1>8, <1>9
    <2>. QED
      BY <2>1
  <1>11. [q \in OrderIds |-> orders[q].hazard]' = [q \in OrderIds |-> orders[q].hazard]
    <2>1. ASSUME NEW q \in OrderIds PROVE orders'[q].hazard = orders[q].hazard
      <3>1. CASE q \in n
        BY <1>7, <3>1, AbsentIsBlank
      <3>2. CASE q \notin n
        <4>. HIDE DEF closed
        <4>. QED
          BY <1>7, <1>8, <3>2
      <3>. QED
        BY <3>1, <3>2
    <2>. QED
      BY <2>1
  <1>12. [h \in HazardIds |-> hazards[h].status]' =
            [h \in HazardIds |-> IF h = [q \in OrderIds |-> orders[q].hazard][o] THEN "closed"
                                 ELSE [g \in HazardIds |-> hazards[g].status][h]]
    <2>1. hazards' = Close(hazards, {h \in HazardIds : h = orders[o].hazard})
      <3>1. RelatedHazard(s.view, o) = {h \in HazardIds : h = s.view.orders[o].hazard}
        BY <1>3, RelatedIsNamed
      <3>2. hazards' = Close(hazards, RelatedHazard(s.view, o))
        BY <1>2 DEF CommitReviewPass
      <3>. QED
        BY <1>2, <1>4, <3>1, <3>2
    <2>2. \A h \in HazardIds : hazards[h] \in HazardRow
      BY DEF TypeOK
    <2>3. DOMAIN hazards = HazardIds
      BY DEF TypeOK
    <2>. QED
      BY <2>1, <2>2, <2>3 DEF Close, HazardRow
  <1>13. [q \in OrderIds |-> Done(q)]' =
            [[q \in OrderIds |-> Done(q)] EXCEPT ![o] = @ \cup {"review_pass"}]
    <2>1. Log(o, e) /\ e.action = "review_pass"
      BY <1>2 DEF CommitReviewPass, LogEntry
    <2>. HIDE DEF e
    <2>. QED
      BY <2>1, DoneAfterStep
  <1>14. Record!PassReview(o, n)
    <2>. HIDE DEF closed, new, e, viewed
    <2>. QED
      BY <1>4, <1>5, <1>7, <1>10, <1>11, <1>12, <1>13
      DEF Record!PassReview, Record!New, Record!Needed, Record!LeadsTo
  <1>. QED
    BY <1>14

LEMMA RecordsEscalation ==
    ASSUME TypeOK, StatusEarned, RowsStand, NEW r \in Requests, CommitEscalate(r)
    PROVE  \E os \in SUBSET OrderIds : Record!Escalate(os)
  <1>1. PICK late \in SUBSET OrderIds : late = session[r].late
    BY SessionTypes DEF CommitEscalate, EscalateSession
  <1>2. \A o \in late : orders[o].status # "absent" /\ "accept" \in Done(o)
    BY <1>1 DEF RowsStand, SessionStands, StatusEarned, SessionEarned, Earned, Needs, CommitEscalate
  <1>3. /\ \A o \in late : orders'[o].status = "overdue_escalated" /\ orders'[o].hazard = orders[o].hazard
        /\ \A o \in OrderIds \ late : orders'[o] = orders[o]
        /\ hazards' = hazards /\ flowLog' = flowLog
    BY <1>1 DEF CommitEscalate, Updated
  <1>4. [q \in OrderIds |-> Done(q)]' = [q \in OrderIds |-> Done(q)]
    BY <1>3, DoneIsKept
  <1>5. /\ [q \in OrderIds |-> orders[q].status]' =
             [q \in OrderIds |-> IF q \in late THEN "overdue_escalated" ELSE [x \in OrderIds |-> orders[x].status][q]]
        /\ [q \in OrderIds |-> orders[q].hazard]' = [q \in OrderIds |-> orders[q].hazard]
    BY <1>3
  <1>6. Record!Escalate(late)
    BY <1>1, <1>2, <1>3, <1>4, <1>5 DEF Record!Escalate
  <1>. QED
    BY <1>1, <1>6

LEMMA RecordsNothing ==
    ASSUME UNCHANGED <<orders, hazards, flowLog>>
    PROVE  UNCHANGED Record!recordVars
  <1>1. [q \in OrderIds |-> Done(q)]' = [q \in OrderIds |-> Done(q)]
    BY DoneIsKept
  <1>. QED
    BY <1>1 DEF Record!recordVars

LEMMA StepRecorded ==
    ASSUME NEW es, TypeOK, StatusEarned, RowsStand, [NextOver(es)]_vars
    PROVE  [Record!RecordNext]_Record!recordVars
  <1>1. CASE Insert(es)
    <2>1. ASSUME NEW c \in Callers, NEW p \in Projects, NEW s \in Subs, NEW h \in HazardIds,
                 NEW o \in OrderIds, CreateHazard(c, p, s, h, o)
          PROVE  Record!RecordNext
      BY <2>1, RecordsReport DEF Record!RecordNext
    <2>2. ASSUME NEW c \in Callers, NEW o \in OrderIds, NEW b \in Bodies, CreateWorkOrder(c, o, b)
          PROVE  Record!RecordNext
      <3>1. b.hazard \in HazardIds \cup {None}
        BY DEF Bodies
      <3>. QED
        BY <2>2, <3>1, RecordsOrder DEF Record!RecordNext
    <2>. QED
      BY <1>1, <2>1, <2>2 DEF Insert
  <1>2. ASSUME NEW r \in Requests, Begin(es, r) PROVE UNCHANGED <<orders, hazards, flowLog>>
    BY <1>2 DEF Begin, BeginTransition, BeginReviewPass, BeginEscalate, BeginRecalculate
  <1>3. ASSUME NEW r \in Requests, Commit(r) PROVE Record!RecordNext
    BY <1>3, RecordsStep, RecordsReview, RecordsEscalation, RecordsRuleOrders
    DEF Commit, Record!RecordNext
  <1>4. ASSUME NEW r \in Requests, Abort(r) PROVE UNCHANGED <<orders, hazards, flowLog>>
    BY <1>4 DEF Abort
  <1>5. CASE UNCHANGED vars
    BY <1>5, RecordsNothing DEF vars
  <1>. QED
    BY <1>1, <1>2, <1>3, <1>4, <1>5, RecordsNothing DEF NextOver

LEMMA RecordStarts == Init => Record!RecordInit
  BY DEF Init, Record!RecordInit, NoOrder, NoHazard, Done, Logged

\* Whatever the requests do to one another, the workflow implements the record of the
\* rectification: no step before the one it needs, no status without its steps, and a
\* hazard closed in the very step that passes the review of its order, for good.
THEOREM WorkflowKeepsRecord == Spec => KeepsRecord
  <1>1. TypeOK /\ StatusEarned /\ RowsStand /\ [Next]_vars => [Record!RecordNext]_Record!recordVars
    BY StepRecorded DEF Next
  <1>. QED
    BY <1>1, RecordStarts, TypeCorrect, AlwaysEarned, RowsAlwaysStand, PTL
    DEF Spec, KeepsRecord, Record!RecordSpec
-----------------------------------------------------------------------------
(* Handlers that do not overlap: with one request at a time, the view of   *)
(* the open one is the tables as they are.                                 *)

OneRequest == \A r, q \in Requests : r = q

ViewFresh(v) == v.orders = orders /\ v.hazards = hazards /\ v.profiles = profiles

SessionFresh(s) ==
    /\ s.op = "transition" => s.row = orders[s.order]
    /\ s.op \in {"review", "recalculate"} => ViewFresh(s.view)
    /\ s.op = "escalate" => \A o \in s.late : orders[o].status = "processing"

AllFresh == \A r \in Requests : SessionFresh(session[r])

LEMMA InitFresh == Init => AllFresh
  BY DEF Init, AllFresh, SessionFresh, Idle

LEMMA BeginFresh ==
    ASSUME TypeOK, RowsStand, NEW es, NEW r \in Requests, Begin(es, r)
    PROVE  SessionFresh(session[r])'
  <1>0. UNCHANGED <<orders, hazards, profiles>>
    BY DEF Begin, BeginTransition, BeginReviewPass, BeginEscalate, BeginRecalculate
  <1>1. ASSUME NEW s, session' = [session EXCEPT ![r] = s], SessionFresh(s)
        PROVE  SessionFresh(session[r])'
    BY <1>0, <1>1 DEF SessionFresh, ViewFresh, TypeOK
  <1>2. ViewFresh(Current)
    BY DEF ViewFresh, Current
  <1>3. ASSUME NEW by \in {"patch", "execute"}, NEW c \in Callers, NEW o \in OrderIds,
               NEW t \in Transitions, BeginTransition(r, by, c, o, t)
        PROVE  SessionFresh(session[r])'
    BY <1>1, <1>3 DEF BeginTransition, SessionFresh
  <1>4. ASSUME NEW by \in {"patch", "execute"}, NEW c \in Callers, NEW o \in OrderIds,
               BeginReviewPass(r, by, c, o)
        PROVE  SessionFresh(session[r])'
    BY <1>1, <1>2, <1>4 DEF BeginReviewPass, SessionFresh
  <1>5. ASSUME NEW c \in Callers, NEW late \in SUBSET OrderIds, BeginEscalate(r, c, late)
        PROVE  SessionFresh(session[r])'
    BY <1>1, <1>5 DEF BeginEscalate, SessionFresh
  <1>6. ASSUME NEW ps \in SUBSET Projects, BeginRecalculate(r, ps)
        PROVE  SessionFresh(session[r])'
    BY <1>1, <1>2, <1>6 DEF BeginRecalculate, SessionFresh
  <1>. QED
    BY <1>3, <1>4, <1>5, <1>6 DEF Begin

LEMMA StepFresh ==
    ASSUME NEW es, OneRequest
    PROVE  TypeOK /\ RowsStand /\ AllFresh /\ [NextOver(es)]_vars => AllFresh'
  <1>. SUFFICES ASSUME TypeOK, RowsStand, AllFresh, [NextOver(es)]_vars PROVE AllFresh'
    OBVIOUS
  <1>1. ASSUME NEW r \in Requests, SessionFresh(session[r])' PROVE AllFresh'
    BY <1>1 DEF AllFresh, OneRequest
  <1>2. ASSUME NEW r \in Requests, session[r] = Idle, Insert(es) PROVE AllFresh'
    <2>1. session'[r] = Idle
      BY <1>2 DEF Insert, CreateHazard, CreateWorkOrder
    <2>. QED
      BY <1>1, <2>1 DEF SessionFresh, Idle
  <1>3. ASSUME NEW r \in Requests, Begin(es, r) PROVE AllFresh'
    BY <1>1, <1>3, BeginFresh
  <1>4. ASSUME NEW r \in Requests, Commit(r) \/ Abort(r) PROVE AllFresh'
    <2>1. session'[r] = Idle
      BY <1>4 DEF Commit, Abort, CommitTransition, CommitReviewPass, CommitEscalate,
                  CommitRecalculate, TypeOK
    <2>. QED
      BY <1>1, <2>1 DEF SessionFresh, Idle
  <1>5. CASE UNCHANGED vars
    BY <1>5 DEF vars, AllFresh, SessionFresh, ViewFresh
  <1>. QED
    BY <1>2, <1>3, <1>4, <1>5 DEF NextOver

LEMMA SpecFresh == ASSUME OneRequest PROVE Spec => []AllFresh
  <1>1. TypeOK /\ RowsStand /\ AllFresh /\ [Next]_vars => AllFresh'
    BY StepFresh DEF Next
  <1>. QED
    BY <1>1, InitFresh, TypeCorrect, RowsAlwaysStand, PTL DEF Spec
-----------------------------------------------------------------------------
\* What a step does to an order, now that its view is fresh: it follows the
\* transition table from the status the order has.
OrderSteps(o) ==
    /\ orders[o].status = "absent" /\ orders'[o] # orders[o] => orders'[o].evidence = 0
    /\ orders[o].status # "absent" =>
         \/ /\ flowLog'[o] = flowLog[o] /\ orders'[o].evidence = orders[o].evidence
            /\ \/ orders'[o].status = orders[o].status
               \/ <<orders[o].status, "timeout", orders'[o].status>> \in Transitions
         \/ \E e \in LogRow :
              /\ flowLog'[o] = Append(flowLog[o], e)
              /\ <<orders[o].status, e.action, orders'[o].status>> \in Transitions
              /\ e.from = orders[o].status
              /\ orders'[o].evidence =
                   orders[o].evidence + IF e.action = "submit_result" THEN 1 ELSE 0

LEMMA InsertSteps ==
    ASSUME TypeOK, NEW es, Insert(es), NEW o \in OrderIds
    PROVE  OrderSteps(o)
  <1>1. ASSUME NEW q \in OrderIds, NEW p, NEW s, NEW h, NEW rule, NEW own, orders[q].status = "absent",
               orders' = [orders EXCEPT ![q] = NewOrder(p, s, h, rule, own)],
               \A x \in OrderIds \ {q} : flowLog'[x] = flowLog[x]
        PROVE  OrderSteps(o)
    BY <1>1 DEF OrderSteps, NewOrder, TypeOK
  <1>2. ASSUME NEW q \in OrderIds, NEW e, Log(q, e)
        PROVE  \A x \in OrderIds \ {q} : flowLog'[x] = flowLog[x]
    BY <1>2 DEF Log, TypeOK
  <1>3. ASSUME NEW c, NEW p, NEW s, NEW h, NEW q \in OrderIds, CreateHazard(c, p, s, h, q)
        PROVE  OrderSteps(o)
    BY <1>1, <1>2, <1>3 DEF CreateHazard
  <1>4. ASSUME NEW c, NEW q \in OrderIds, NEW b, CreateWorkOrder(c, q, b)
        PROVE  OrderSteps(o)
    BY <1>1, <1>4 DEF CreateWorkOrder
  <1>. QED
    BY <1>3, <1>4 DEF Insert

LEMMA CommitTransitionSteps ==
    ASSUME TypeOK, StatusEarned, AllFresh, NEW r \in Requests, CommitTransition(r),
           NEW o \in OrderIds
    PROVE  OrderSteps(o)
  <1>. DEFINE s == session[r]
              e == LogEntry(s.row.status, s.action, s.to, s.caller)
  <1>1. /\ s \in TransitionSession
        /\ s.order \in OrderIds /\ s.action \in Actions /\ s.to \in Status
        /\ s.caller \in Callers /\ s.row.status \in Status
    BY SessionTypes DEF CommitTransition, TransitionSession
  <1>2. s.row = orders[s.order] /\ <<s.row.status, s.action, s.to>> \in Transitions
    BY DEF CommitTransition, AllFresh, SessionFresh, StatusEarned, SessionEarned
  <1>3. CASE o # s.order
    BY <1>1, <1>3 DEF CommitTransition, Log, TypeOK, OrderSteps
  <1>4. CASE o = s.order
    <2>1. /\ orders'[o] = Updated(orders[o], s.to, orders[o].level,
                                  Evidence(s.action, s.row.evidence, orders[o].evidence))
          /\ flowLog'[o] = Append(flowLog[o], e)
      BY <1>1, <1>4 DEF CommitTransition, Log, TypeOK
    <2>2. e \in LogRow /\ e.action = s.action /\ e.from = orders[o].status
      BY <1>1, <1>2, <1>4 DEF LogEntry, LogRow
    <2>3. orders[o].evidence \in Nat
      BY DEF TypeOK, OrderRow
    <2>4. orders'[o].evidence =
            orders[o].evidence + IF e.action = "submit_result" THEN 1 ELSE 0
      BY <1>2, <1>4, <2>1, <2>2, <2>3 DEF Updated, Evidence
    <2>5. orders'[o].status = s.to
      BY <2>1 DEF Updated
    <2>6. orders[o].status # "absent"
      BY <1>1, <1>2, <1>4 DEF Status
    <2>. QED
      BY <1>2, <1>4, <2>1, <2>2, <2>4, <2>5, <2>6 DEF OrderSteps
  <1>. QED
    BY <1>3, <1>4

LEMMA CommitEscalateSteps ==
    ASSUME TypeOK, AllFresh, NEW r \in Requests, CommitEscalate(r), NEW o \in OrderIds
    PROVE  OrderSteps(o)
  <1>. DEFINE s == session[r]
  <1>1. \A q \in s.late : orders[q].status = "processing"
    BY DEF CommitEscalate, AllFresh, SessionFresh
  <1>2. CASE o \in s.late
    BY <1>1, <1>2 DEF CommitEscalate, Updated, OrderSteps, Transitions
  <1>3. CASE o \notin s.late
    BY <1>3 DEF CommitEscalate, OrderSteps
  <1>. QED
    BY <1>2, <1>3

LEMMA RuleOrderEvidence ==
    ASSUME TypeOK, NEW os, NEW new, NEW f \in FreshKeys(new), NEW o \in OrderIds
    PROVE  \/ WithRuleOrders(os, f)[o] = os[o]
           \/ /\ orders[o].status = "absent"
              /\ WithRuleOrders(os, f)[o].evidence = 0
  <1>1. /\ DOMAIN f = new
        /\ \A pr \in new : f[pr] \in {q \in OrderIds : orders[q].status = "absent"}
    BY DEF FreshKeys
  <1>2. CASE \E pr \in DOMAIN f : f[pr] = o
    BY <1>1, <1>2 DEF WithRuleOrders, RuleOrder, NewOrder
  <1>3. CASE ~ \E pr \in DOMAIN f : f[pr] = o
    BY <1>3 DEF WithRuleOrders
  <1>. QED
    BY <1>2, <1>3

LEMMA CommitRecalculateSteps ==
    ASSUME TypeOK, NEW r \in Requests, CommitRecalculate(r), NEW o \in OrderIds
    PROVE  OrderSteps(o)
  <1>. DEFINE new == ToCreate(session[r].view, session[r].projects)
  <1>1. PICK f \in FreshKeys(new) : orders' = WithRuleOrders(orders, f)
    BY DEF CommitRecalculate
  <1>2. orders'[o] = orders[o] \/ (orders[o].status = "absent" /\ orders'[o].evidence = 0)
    BY <1>1, RuleOrderEvidence
  <1>. QED
    BY <1>2 DEF CommitRecalculate, OrderSteps

LEMMA CommitReviewPassSteps ==
    ASSUME TypeOK, StatusEarned, RowsStand, AllFresh, NEW r \in Requests, CommitReviewPass(r),
           NEW o \in OrderIds
    PROVE  OrderSteps(o)
  <1>. DEFINE s == session[r]
              viewed == s.view.orders[s.order]
              os == Close(orders, {s.order})
              new == ToCreate(Flushed(s), {viewed.project})
              e == LogEntry(viewed.status, "review_pass", "closed", s.caller)
  <1>1. s.order \in OrderIds /\ s.caller \in Callers /\ viewed.status = "waiting_review"
    BY SessionTypes DEF CommitReviewPass, ReviewSession, StatusEarned, SessionEarned
  <1>2. viewed = orders[s.order]
    BY <1>1 DEF CommitReviewPass, AllFresh, SessionFresh, ViewFresh
  <1>3. PICK f \in FreshKeys(new) : orders' = WithRuleOrders(os, f)
    BY DEF CommitReviewPass
  <1>4. orders'[o] = os[o] \/ (orders[o].status = "absent" /\ orders'[o].evidence = 0)
    BY <1>3, RuleOrderEvidence
  <1>5. flowLog' = [flowLog EXCEPT ![s.order] = Append(flowLog[s.order], e)]
    BY DEF CommitReviewPass, Log
  <1>6. CASE o # s.order
    <2>1. os[o] = orders[o] /\ flowLog'[o] = flowLog[o]
      BY <1>1, <1>5, <1>6 DEF Close, TypeOK
    <2>. QED
      BY <1>4, <2>1 DEF OrderSteps
  <1>7. CASE o = s.order
    <2>1. /\ os[o].status = "closed" /\ os[o].evidence = orders[o].evidence
          /\ orders[o].evidence \in Nat /\ flowLog'[o] = Append(flowLog[o], e)
      BY <1>1, <1>5, <1>7 DEF Close, TypeOK, OrderRow
    <2>2. orders[o].status = "waiting_review" /\ orders'[o] = os[o]
      BY <1>1, <1>2, <1>4, <1>7
    <2>3. e \in LogRow /\ e.action = "review_pass" /\ e.from = orders[o].status
      BY <1>1, <1>2, <1>7 DEF LogEntry, LogRow, Actions, Status
    <2>4. <<orders[o].status, e.action, orders'[o].status>> \in Transitions
      BY <2>1, <2>2, <2>3 DEF Transitions
    <2>5. orders'[o].evidence = orders[o].evidence + IF e.action = "submit_result" THEN 1 ELSE 0
      BY <2>1, <2>2, <2>3
    <2>. QED
      BY <2>1, <2>2, <2>3, <2>4, <2>5 DEF OrderSteps
  <1>. QED
    BY <1>6, <1>7

LEMMA StepSteps ==
    ASSUME NEW es, TypeOK, StatusEarned, RowsStand, AllFresh, [NextOver(es)]_vars
    PROVE  \A o \in OrderIds : OrderSteps(o)
  <1>. SUFFICES ASSUME NEW o \in OrderIds PROVE OrderSteps(o)
    OBVIOUS
  <1>1. CASE UNCHANGED <<orders, flowLog>>
    BY <1>1 DEF OrderSteps
  <1>2. ASSUME NEW r \in Requests, Begin(es, r) PROVE UNCHANGED <<orders, flowLog>>
    BY <1>2 DEF Begin, BeginTransition, BeginReviewPass, BeginEscalate, BeginRecalculate
  <1>3. ASSUME NEW r \in Requests, Abort(r) PROVE UNCHANGED <<orders, flowLog>>
    BY <1>3 DEF Abort
  <1>4. ASSUME NEW r \in Requests, Commit(r) PROVE OrderSteps(o)
    BY <1>4, CommitTransitionSteps, CommitReviewPassSteps, CommitEscalateSteps,
       CommitRecalculateSteps DEF Commit
  <1>. QED
    BY <1>1, <1>2, <1>3, <1>4, InsertSteps DEF NextOver, vars

\* The statuses nothing leads out of.
LEMMA Terminal ==
    ASSUME NEW a, NEW to, NEW from, <<from, a, to>> \in Transitions
    PROVE  /\ from \notin {"absent", "closed", "overdue_escalated"}
           /\ to # "absent" /\ a \in Actions
           /\ to # "closed" \/ a = "review_pass"
  BY DEF Transitions, Actions

\* One at a time, statuses change only along the table.
THEOREM LegalOneAtATime == ASSUME OneRequest PROVE Spec => LegalStatusChanges
  <1>. DEFINE Legal == \A o \in OrderIds : orders'[o].status # orders[o].status =>
                \/ orders[o].status = "absent"
                \/ \E a \in Actions : <<orders[o].status, a, orders'[o].status>> \in Transitions
  <1>1. TypeOK /\ StatusEarned /\ RowsStand /\ AllFresh /\ [Next]_vars => [Legal]_orders
    <2>. SUFFICES ASSUME TypeOK, StatusEarned, RowsStand, AllFresh, [Next]_vars,
                         NEW o \in OrderIds, orders'[o].status # orders[o].status,
                         orders[o].status # "absent"
                  PROVE  \E a \in Actions : <<orders[o].status, a, orders'[o].status>> \in Transitions
      OBVIOUS
    <2>1. OrderSteps(o)
      BY StepSteps DEF Next
    <2>. QED
      BY <2>1, Terminal DEF OrderSteps
  <1>. QED
    BY <1>1, TypeCorrect, AlwaysEarned, RowsAlwaysStand, SpecFresh, PTL
    DEF Spec, LegalStatusChanges

LEMMA StepOnePath ==
    ASSUME TypeOK, RowsStand, StatusExplained, Effects, \A o \in OrderIds : OrderSteps(o),
           LogIsOnePath
    PROVE  LogIsOnePath'
  <1>. SUFFICES ASSUME NEW o \in OrderIds, NEW i \in DOMAIN flowLog'[o], i > 1
               PROVE  flowLog'[o][i].from = flowLog'[o][i - 1].to
    BY DEF LogIsOnePath, Logged
  <1>1. flowLog[o] \in Seq(LogRow) /\ OrderEffect(o) /\ OrderSteps(o)
    BY DEF TypeOK, Effects
  <1>2. CASE flowLog'[o] = flowLog[o]
    BY <1>2 DEF LogIsOnePath, Logged
  <1>3. ASSUME NEW e \in LogRow, flowLog'[o] = Append(flowLog[o], e),
               e.from = orders[o].status,
               <<orders[o].status, e.action, orders'[o].status>> \in Transitions
        PROVE  flowLog'[o][i].from = flowLog'[o][i - 1].to
    <2>. DEFINE n == Len(flowLog[o])
    <2>1. /\ n \in Nat /\ i \in 1..(n + 1) /\ flowLog'[o][n + 1] = e
          /\ \A j \in 1..n : flowLog'[o][j] = flowLog[o][j]
      BY <1>1, <1>3
    <2>2. CASE i \in 1..n
      <3>1. i - 1 \in 1..n /\ i \in DOMAIN flowLog[o]
        BY <1>1, <2>1, <2>2
      <3>. QED
        BY <2>1, <2>2, <3>1 DEF LogIsOnePath, Logged
    <2>3. CASE i = n + 1
      <3>1. n \in 1..n /\ i - 1 = n /\ flowLog[o] # <<>>
        BY <1>1, <2>1, <2>3
      <3>2. orders[o].status = flowLog[o][n].to
        BY <1>3, <3>1, Terminal DEF StatusExplained
      <3>. QED
        BY <1>3, <2>1, <2>3, <3>1, <3>2
    <2>. QED
      BY <2>1, <2>2, <2>3
  <1>4. CASE orders[o].status = "absent" /\ flowLog'[o] # flowLog[o]
    <2>1. flowLog[o] = <<>>
      BY <1>4 DEF RowsStand
    <2>2. PICK e \in LogRow : flowLog'[o] = Append(flowLog[o], e)
      BY <1>1, <1>4 DEF OrderEffect, OrderUntouched, OrderInserted, OrderMoved, OrderEscalated
    <2>. QED
      BY <2>1, <2>2
  <1>. QED
    BY <1>1, <1>2, <1>3, <1>4 DEF OrderSteps

\* One at a time, each log entry starts where the one before it ended.
THEOREM OnePath == ASSUME OneRequest PROVE Spec => []LogIsOnePath
  <1>1. Init => LogIsOnePath
    BY DEF Init, LogIsOnePath, Logged
  <1>2. TypeOK /\ StatusEarned /\ RowsStand /\ AllFresh /\ StatusExplained /\ LogIsOnePath
        /\ [Next]_vars => LogIsOnePath'
    BY StepEffects, StepSteps, StepOnePath DEF Next
  <1>. QED
    BY <1>1, <1>2, TypeCorrect, AlwaysEarned, RowsAlwaysStand, AlwaysExplained, SpecFresh, PTL
    DEF Spec

\* Appending an entry adds one submission, if it is one.
LEMMA SubmissionsAppended ==
    ASSUME NEW s \in Seq(LogRow), NEW e \in LogRow
    PROVE  Cardinality({i \in DOMAIN Append(s, e) : Append(s, e)[i].action = "submit_result"}) =
             Cardinality({i \in DOMAIN s : s[i].action = "submit_result"})
               + IF e.action = "submit_result" THEN 1 ELSE 0
  <1>. DEFINE n == Len(s)
              A == {i \in DOMAIN s : s[i].action = "submit_result"}
              B == {i \in DOMAIN Append(s, e) : Append(s, e)[i].action = "submit_result"}
  <1>1. /\ n \in Nat /\ DOMAIN s = 1..n /\ DOMAIN Append(s, e) = 1..(n + 1)
        /\ Append(s, e)[n + 1] = e /\ \A i \in 1..n : Append(s, e)[i] = s[i]
    OBVIOUS
  <1>2. IsFiniteSet(A) /\ Cardinality(A) \in Nat /\ n + 1 \notin A
    <2>1. IsFiniteSet(1..n)
      BY <1>1, FS_Interval
    <2>2. A \subseteq 1..n
      BY <1>1
    <2>3. IsFiniteSet(A)
      BY <2>1, <2>2, FS_Subset
    <2>. QED
      BY <1>1, <2>2, <2>3, FS_CardinalityType
  <1>3. CASE e.action = "submit_result"
    <2>1. B = A \cup {n + 1}
      BY <1>1, <1>3
    <2>2. Cardinality(A \cup {n + 1}) = Cardinality(A) + 1
      BY <1>2, FS_AddElement
    <2>3. Cardinality(B) = Cardinality(A) + 1
      BY <2>1, <2>2
    <2>. HIDE DEF A, B
    <2>. QED
      BY <1>3, <2>3 DEF A, B
  <1>4. CASE e.action # "submit_result"
    <2>1. B = A
      BY <1>1, <1>4
    <2>. HIDE DEF A, B
    <2>2. Cardinality(B) = Cardinality(A) + 0
      BY <1>2, <2>1
    <2>. QED
      BY <1>4, <2>2 DEF A, B
  <1>. QED
    BY <1>3, <1>4

LEMMA StepEvidence ==
    ASSUME TypeOK, RowsStand, Effects, \A o \in OrderIds : OrderSteps(o), EvidenceKept
    PROVE  EvidenceKept'
  <1>. DEFINE Sent(log) == {i \in DOMAIN log : log[i].action = "submit_result"}
  <1>. SUFFICES ASSUME NEW o \in OrderIds
               PROVE  orders'[o].evidence = Cardinality(Sent(flowLog'[o]))
    BY DEF EvidenceKept, Logged
  <1>1. /\ flowLog[o] \in Seq(LogRow) /\ OrderEffect(o) /\ OrderSteps(o)
        /\ orders[o].evidence = Cardinality(Sent(flowLog[o])) /\ orders[o].evidence \in Nat
    BY DEF TypeOK, Effects, EvidenceKept, Logged, OrderRow
  <1>2. ASSUME NEW e \in LogRow, flowLog'[o] = Append(flowLog[o], e)
        PROVE  Cardinality(Sent(flowLog'[o])) =
                 Cardinality(Sent(flowLog[o])) + IF e.action = "submit_result" THEN 1 ELSE 0
    BY <1>1, <1>2, SubmissionsAppended
  <1>. HIDE DEF Sent
  <1>3. CASE orders[o].status # "absent"
    BY <1>1, <1>2, <1>3 DEF OrderSteps
  <1>4. CASE OrderUntouched(o)
    BY <1>1, <1>4 DEF OrderUntouched
  <1>5. CASE OrderInserted(o) /\ orders'[o] # orders[o]
    <2>1. orders'[o].evidence = 0
      BY <1>1, <1>5 DEF OrderInserted, OrderSteps
    <2>2. Cardinality(Sent(flowLog[o])) = 0
      <3>1. flowLog[o] = <<>>
        BY <1>5 DEF OrderInserted, RowsStand
      <3>2. Sent(flowLog[o]) = {}
        BY <3>1 DEF Sent
      <3>. QED
        BY <3>2, FS_EmptySet
    <2>3. CASE flowLog'[o] = flowLog[o]
      BY <2>1, <2>2, <2>3
    <2>4. ASSUME NEW e \in LogRow, flowLog'[o] = Append(flowLog[o], e), e.action = "create"
          PROVE  Cardinality(Sent(flowLog'[o])) = 0
      BY <1>2, <2>2, <2>4
    <2>. QED
      BY <1>5, <2>1, <2>3, <2>4 DEF OrderInserted
  <1>. QED
    BY <1>1, <1>3, <1>4, <1>5 DEF OrderEffect, OrderInserted, OrderMoved, OrderEscalated

\* One at a time, no accepted rectification image is lost.
THEOREM NoEvidenceLost == ASSUME OneRequest PROVE Spec => []EvidenceKept
  <1>1. Init => EvidenceKept
    <2>. SUFFICES ASSUME Init, NEW o \in OrderIds
                 PROVE  orders[o].evidence =
                          Cardinality({i \in DOMAIN flowLog[o] : flowLog[o][i].action = "submit_result"})
      BY DEF EvidenceKept, Logged
    <2>1. {i \in DOMAIN flowLog[o] : flowLog[o][i].action = "submit_result"} = {}
      BY DEF Init
    <2>. QED
      BY <2>1, FS_EmptySet DEF Init, NoOrder
  <1>2. TypeOK /\ StatusEarned /\ RowsStand /\ AllFresh /\ EvidenceKept /\ [Next]_vars
        => EvidenceKept'
    BY StepEffects, StepSteps, StepEvidence DEF Next
  <1>. QED
    BY <1>1, <1>2, TypeCorrect, AlwaysEarned, RowsAlwaysStand, SpecFresh, PTL DEF Spec

LEMMA StepHazardFollows ==
    ASSUME TypeOK, RowsStand, Effects, \A o \in OrderIds : OrderSteps(o), HazardFollowsOrder,
           ClosedOrderClosesHazard'
    PROVE  HazardFollowsOrder'
  <1>. SUFFICES ASSUME NEW h \in HazardIds, hazards'[h].status # "absent"
               PROVE  hazards'[h].status = "closed" <=>
                        \E o \in OrderIds : orders'[o].hazard = h /\ orders'[o].status = "closed"
    BY DEF HazardFollowsOrder
  <1>1. HazardEffect(h) /\ h # None
    BY FlowAssumption DEF Effects
  <1>2. ASSUME NEW o \in OrderIds, orders'[o].hazard = h, orders'[o].status = "closed"
        PROVE  hazards'[h].status = "closed"
    BY <1>1, <1>2 DEF ClosedOrderClosesHazard
  <1>3. ASSUME hazards'[h] = hazards[h], hazards[h].status = "closed"
        PROVE  \E o \in OrderIds : orders'[o].hazard = h /\ orders'[o].status = "closed"
    <2>1. PICK o \in OrderIds : orders[o].hazard = h /\ orders[o].status = "closed"
      BY <1>3 DEF HazardFollowsOrder
    <2>2. orders'[o].hazard = h
      BY <2>1, RowsKept DEF SameColumns
    <2>3. orders'[o].status = "closed"
      BY <2>1, Terminal DEF OrderSteps
    <2>. QED
      BY <2>2, <2>3
  <1>. QED
    BY <1>1, <1>2, <1>3 DEF HazardEffect, HazardInserted, HazardClosed

\* One at a time, a hazard is closed exactly when an order made for it is.
THEOREM HazardsFollow == ASSUME OneRequest PROVE Spec => []HazardFollowsOrder
  <1>1. Init => HazardFollowsOrder
    BY DEF Init, HazardFollowsOrder, NoHazard
  <1>2. TypeOK /\ StatusEarned /\ RowsStand /\ AllFresh /\ HazardFollowsOrder
        /\ ClosedOrderClosesHazard' /\ [Next]_vars => HazardFollowsOrder'
    BY StepEffects, StepSteps, StepHazardFollows DEF Next
  <1>. QED
    BY <1>1, <1>2, TypeCorrect, AlwaysEarned, RowsAlwaysStand, ClosedTogether, SpecFresh, PTL
    DEF Spec
-----------------------------------------------------------------------------
\* An order a step inserts for a rule is the only open one made for that rule.
RuleOrdersAlone ==
    \A o, q \in OrderIds :
        /\ o # q /\ orders[o].status = "absent" /\ Open(o)' /\ Open(q)'
        /\ orders'[q].rule = orders'[o].rule
        /\ orders'[q].project = orders'[o].project
        => ~ orders'[q].own

\* _has_open_duplicate on a view that knows every open order.
LEMMA ToCreateAlone ==
    ASSUME NEW v, NEW ps, NEW os, NEW f \in FreshKeys(ToCreate(v, ps)),
           \A q \in OrderIds : os[q].status \notin {"absent", "closed"} => v.orders[q] = os[q],
           \A q \in OrderIds : orders[q].status = "absent" => os[q].status = "absent",
           orders' = WithRuleOrders(os, f)
    PROVE  RuleOrdersAlone
  <1>. DEFINE new == ToCreate(v, ps)
  <1>. SUFFICES ASSUME NEW o \in OrderIds, NEW q \in OrderIds, o # q,
                      orders[o].status = "absent",
                      orders'[o].status \notin {"absent", "closed"},
                      orders'[q].status \notin {"absent", "closed"},
                      orders'[q].rule = orders'[o].rule,
                      orders'[q].project = orders'[o].project,
                      orders'[q].own
               PROVE  FALSE
    BY DEF RuleOrdersAlone, Open
  <1>1. DOMAIN f = new
    BY DEF FreshKeys
  <1>2. ASSUME NEW x \in OrderIds, \E pr \in new : f[pr] = x
        PROVE  \E pr \in new : f[pr] = x /\ orders'[x].project = pr[1] /\ orders'[x].rule = pr[2]
    <2>1. orders'[x] = RuleOrder(CHOOSE pr \in DOMAIN f : f[pr] = x)
      BY <1>1, <1>2 DEF WithRuleOrders
    <2>2. PICK pr \in new : f[pr] = x /\ orders'[x] = RuleOrder(pr)
      BY <1>1, <1>2, <2>1
    <2>. QED
      BY <2>2 DEF RuleOrder, NewOrder
  <1>3. ASSUME NEW x \in OrderIds, ~ \E pr \in new : f[pr] = x PROVE orders'[x] = os[x]
    BY <1>1, <1>3 DEF WithRuleOrders
  <1>4. PICK pr \in new : f[pr] = o /\ orders'[o].project = pr[1] /\ orders'[o].rule = pr[2]
    <2>. HIDE DEF new
    <2>1. CASE \E pr \in new : f[pr] = o
      BY <1>2, <2>1
    <2>2. CASE ~ \E pr \in new : f[pr] = o
      BY <1>3, <2>2
    <2>. QED
      BY <2>1, <2>2
  <1>5. CASE \E pr2 \in new : f[pr2] = q
    <2>1. PICK pr2 \in new : f[pr2] = q /\ orders'[q].project = pr2[1] /\ orders'[q].rule = pr2[2]
      <3>. HIDE DEF new
      <3>. QED
        BY <1>2, <1>5
    <2>2. pr \in ps \X Rules /\ pr2 \in ps \X Rules
      BY DEF ToCreate
    <2>3. pr = pr2
      BY <1>4, <2>1, <2>2
    <2>. QED
      BY <1>4, <2>1, <2>3
  <1>6. CASE ~ \E pr2 \in new : f[pr2] = q
    <2>1. orders'[q] = os[q]
      BY <1>3, <1>6
    <2>2. /\ v.orders[q].status \notin {"absent", "closed"} /\ v.orders[q].own
          /\ v.orders[q].rule = pr[2] /\ v.orders[q].project = pr[1]
      BY <1>4, <2>1
    <2>. QED
      BY <2>2 DEF ToCreate
  <1>. QED
    BY <1>5, <1>6

LEMMA CommitRecalculateAlone ==
    ASSUME AllFresh, NEW r \in Requests, CommitRecalculate(r)
    PROVE  RuleOrdersAlone
  <1>. DEFINE v == session[r].view
  <1>1. PICK f \in FreshKeys(ToCreate(v, session[r].projects)) : orders' = WithRuleOrders(orders, f)
    BY DEF CommitRecalculate
  <1>2. v.orders = orders
    BY DEF CommitRecalculate, AllFresh, SessionFresh, ViewFresh
  <1>. QED
    BY <1>1, <1>2, ToCreateAlone

LEMMA CommitReviewPassAlone ==
    ASSUME TypeOK, AllFresh, NEW r \in Requests, CommitReviewPass(r)
    PROVE  RuleOrdersAlone
  <1>. DEFINE s == session[r]
              v == s.view
              os == Close(orders, {s.order})
  <1>1. PICK f \in FreshKeys(ToCreate(Flushed(s), {v.orders[s.order].project})) :
          orders' = WithRuleOrders(os, f)
    BY DEF CommitReviewPass
  <1>2. v.orders = orders /\ v \in View
    BY SessionTypes DEF CommitReviewPass, AllFresh, SessionFresh, ViewFresh, ReviewSession
  <1>3. s.order \in OrderIds /\ orders[s.order].status # "absent"
    BY <1>2, SessionTypes DEF CommitReviewPass, ReviewSession, Status
  <1>4. Flushed(s).orders = os
    BY <1>2 DEF Flushed, View
  <1>5. \A q \in OrderIds : orders[q].status = "absent" => os[q].status = "absent"
    BY <1>3 DEF Close, TypeOK
  <1>. HIDE DEF os
  <1>. QED
    BY <1>1, <1>4, <1>5, ToCreateAlone

LEMMA StepAlone ==
    ASSUME NEW es, TypeOK, RowsStand, AllFresh, [NextOver(es)]_vars
    PROVE  session' # session => RuleOrdersAlone
  <1>1. CASE \A o \in OrderIds : orders[o].status = "absent" => orders'[o] = orders[o]
    BY <1>1 DEF RuleOrdersAlone, Open
  <1>2. CASE Insert(es)
    BY <1>2 DEF Insert, CreateHazard, CreateWorkOrder
  <1>3. CASE UNCHANGED orders
    BY <1>1, <1>3
  <1>4. ASSUME NEW r \in Requests, Begin(es, r) \/ Abort(r) PROVE UNCHANGED orders
    BY <1>4 DEF Begin, BeginTransition, BeginReviewPass, BeginEscalate, BeginRecalculate, Abort
  <1>5. ASSUME NEW r \in Requests, CommitTransition(r) \/ CommitEscalate(r)
        PROVE  \A o \in OrderIds : orders[o].status = "absent" => orders'[o] = orders[o]
    <2>1. SessionStands(session[r])
      BY DEF RowsStand
    <2>. QED
      BY <1>5, <2>1 DEF SessionStands, CommitTransition, CommitEscalate, TypeOK
  <1>7. ASSUME NEW r \in Requests, Commit(r) PROVE session' # session => RuleOrdersAlone
    BY <1>1, <1>5, <1>7, CommitReviewPassAlone, CommitRecalculateAlone DEF Commit
  <1>. QED
    BY <1>2, <1>3, <1>4, <1>7 DEF NextOver, vars

\* One at a time, a recalculation makes no order for a rule that has an open one in
\* the project, made by another recalculation or by hand.
THEOREM OneOrderPerRule == ASSUME OneRequest PROVE Spec => NoDuplicateRuleOrder
  <1>. DEFINE Alone == session' # session => RuleOrdersAlone
  <1>1. TypeOK /\ RowsStand /\ AllFresh /\ [Next]_vars => [Alone]_vars
    BY StepAlone DEF Next
  <1>. QED
    BY <1>1, TypeCorrect, RowsAlwaysStand, SpecFresh, PTL
    DEF Spec, NoDuplicateRuleOrder, RuleOrdersAlone
-----------------------------------------------------------------------------
OwnProject == \A o \in OrderIds : orders[o].hazard # None =>
                 hazards[orders[o].hazard].project = orders[o].project

LEMMA OwnProjectBefore ==
    ASSUME TypeOK, RowsStand, Effects, OwnProject'
    PROVE  OwnProject
  <1>. SUFFICES ASSUME NEW o \in OrderIds, orders[o].hazard # None
               PROVE  hazards[orders[o].hazard].project = orders[o].project
    BY DEF OwnProject
  <1>1. PICK h \in HazardIds : h = orders[o].hazard
    BY DEF TypeOK, OrderRow
  <1>2. orders[o].status # "absent" /\ hazards[h].status # "absent"
    BY <1>1 DEF RowsStand, Linked, Current, NoOrder
  <1>3. /\ orders'[o].hazard = h /\ orders'[o].project = orders[o].project
        /\ hazards'[h].project = hazards[h].project
    BY <1>1, <1>2, RowsKept DEF SameColumns
  <1>. QED
    BY <1>1, <1>3 DEF OwnProject

\* A profile row is kept, while what it counts only grows, or it is computed
\* from a table whose open hazards are all still open.
ProfileEffect ==
    \A p \in Projects :
        \/ profiles'[p] = profiles[p] /\ Overdue(hazards, p) \subseteq Overdue(hazards', p)
        \/ \E hs : /\ profiles'[p] = {ProfileOf(hs, p)}
                   /\ Overdue(hs, p) \subseteq Overdue(hazards', p)

LEMMA SavedOnFresh ==
    ASSUME NEW view, NEW v, NEW ps, view.profiles = profiles, SaveProfiles(view, v, ps),
           NEW p \in Projects
    PROVE  IF p \in ps THEN profiles'[p] = {ProfileOf(v.hazards, p)} ELSE profiles'[p] = profiles[p]
  BY DEF SaveProfiles

LEMMA CommitRecalculateProfile ==
    ASSUME TypeOK, AllFresh, NEW r \in Requests, CommitRecalculate(r)
    PROVE  ProfileEffect
  <1>. DEFINE v == session[r].view
  <1>1. ViewFresh(v) /\ hazards' = hazards /\ SaveProfiles(v, v, session[r].projects)
    BY DEF CommitRecalculate, AllFresh, SessionFresh
  <1>2. \A p \in Projects : \/ profiles'[p] = profiles[p]
                            \/ profiles'[p] = {ProfileOf(v.hazards, p)}
    BY <1>1, SavedOnFresh DEF ViewFresh
  <1>3. \A p \in Projects : Overdue(v.hazards, p) \subseteq Overdue(hazards', p)
    BY <1>1, FlowAssumption DEF Overdue, ViewFresh
  <1>. QED
    BY <1>1, <1>2, <1>3 DEF ProfileEffect

LEMMA CommitReviewPassProfile ==
    ASSUME TypeOK, RowsStand, AllFresh, OwnProject, NEW r \in Requests, CommitReviewPass(r)
    PROVE  ProfileEffect
  <1>. DEFINE s == session[r]
              v == s.view
              ps == {v.orders[s.order].project}
              closed == {h \in HazardIds : h = v.orders[s.order].hazard}
  <1>1. /\ v \in View /\ s.order \in OrderIds /\ ViewFresh(v) /\ Linked(v)
        /\ v.orders[s.order].status \in Status
    BY SessionTypes DEF CommitReviewPass, AllFresh, SessionFresh, ReviewSession, RowsStand,
                        SessionStands
  <1>2. v.orders[s.order] = orders[s.order]
    BY <1>1 DEF ViewFresh, Status
  <1>3. hazards' = Close(hazards, closed) /\ SaveProfiles(v, Flushed(s), ps)
    BY <1>1, RelatedIsNamed DEF CommitReviewPass
  <1>4. Flushed(s).hazards = Close(v.hazards, closed)
    BY <1>1, RelatedIsNamed DEF Flushed, View
  <1>5. \A h \in HazardIds : hazards'[h] =
          IF h \in closed THEN [hazards[h] EXCEPT !.status = "closed"] ELSE hazards[h]
    BY <1>3 DEF Close, TypeOK
  <1>6. \A h \in HazardIds : Flushed(s).hazards[h] =
          IF h \in closed THEN [v.hazards[h] EXCEPT !.status = "closed"] ELSE v.hazards[h]
    BY <1>1, <1>4 DEF Close, View
  <1>7. \A h \in HazardIds : hazards[h] \in HazardRow /\ v.hazards[h] \in HazardRow
    BY <1>1 DEF TypeOK, View
  <1>. HIDE DEF closed
  <1>8. ASSUME NEW p \in Projects PROVE Overdue(Flushed(s).hazards, p) \subseteq Overdue(hazards', p)
    <2>. SUFFICES ASSUME NEW h \in HazardIds, h \in Overdue(Flushed(s).hazards, p)
                 PROVE  h \in Overdue(hazards', p)
      BY FlowAssumption DEF Overdue
    <2>1. h \in PastDue /\ Flushed(s).hazards[h].status = "open" /\ Flushed(s).hazards[h].project = p
      BY DEF Overdue
    <2>2. h \notin closed
      BY <1>6, <1>7, <2>1 DEF HazardRow
    <2>3. v.hazards[h] = hazards[h] /\ hazards'[h] = hazards[h] /\ Flushed(s).hazards[h] = v.hazards[h]
      BY <1>1, <1>5, <1>6, <2>1, <2>2 DEF ViewFresh
    <2>. QED
      BY <2>1, <2>3 DEF Overdue
  <1>9. ASSUME NEW p \in Projects \ ps PROVE Overdue(hazards, p) \subseteq Overdue(hazards', p)
    <2>. SUFFICES ASSUME NEW h \in HazardIds, h \in Overdue(hazards, p)
                 PROVE  h \in Overdue(hazards', p)
      BY FlowAssumption DEF Overdue
    <2>1. h \in PastDue /\ hazards[h].status = "open" /\ hazards[h].project = p
      BY DEF Overdue
    <2>2. h \notin closed
      <3>. SUFFICES ASSUME h = orders[s.order].hazard PROVE FALSE
        BY <1>2 DEF closed
      <3>1. h # None
        BY FlowAssumption
      <3>2. hazards[h].project = orders[s.order].project
        BY <1>1, <3>1 DEF OwnProject
      <3>. QED
        BY <1>2, <2>1, <3>2
    <2>. QED
      BY <1>5, <2>1, <2>2 DEF Overdue
  <1>. QED
    BY <1>1, <1>3, <1>8, <1>9, SavedOnFresh DEF ProfileEffect, ViewFresh

LEMMA StepProfile ==
    ASSUME NEW es, TypeOK, StatusEarned, RowsStand, AllFresh, OwnProject, [NextOver(es)]_vars
    PROVE  ProfileEffect
  <1>1. CASE /\ UNCHANGED profiles
             /\ \A h \in HazardIds : hazards'[h] = hazards[h] \/ hazards[h].status = "absent"
    <2>1. \A p \in Projects : Overdue(hazards, p) \subseteq Overdue(hazards', p)
      BY <1>1, FlowAssumption DEF Overdue
    <2>. QED
      BY <1>1, <2>1 DEF ProfileEffect
  <1>2. CASE Insert(es)
    <2>1. ASSUME NEW h \in HazardIds, NEW row, hazards[h].status = "absent",
                 hazards' = [hazards EXCEPT ![h] = row]
          PROVE  \A g \in HazardIds : hazards'[g] = hazards[g] \/ hazards[g].status = "absent"
      BY <2>1 DEF TypeOK
    <2>. QED
      BY <1>1, <1>2, <2>1 DEF Insert, CreateHazard, CreateWorkOrder
  <1>3. CASE UNCHANGED <<hazards, profiles>>
    BY <1>1, <1>3
  <1>4. ASSUME NEW r \in Requests, Begin(es, r) \/ Abort(r) PROVE UNCHANGED <<hazards, profiles>>
    BY <1>4 DEF Begin, BeginTransition, BeginReviewPass, BeginEscalate, BeginRecalculate, Abort
  <1>5. ASSUME NEW r \in Requests, CommitTransition(r) \/ CommitEscalate(r)
        PROVE  UNCHANGED <<hazards, profiles>>
    BY <1>5 DEF CommitTransition, CommitEscalate
  <1>6. ASSUME NEW r \in Requests, Commit(r) PROVE ProfileEffect
    BY <1>3, <1>5, <1>6, CommitReviewPassProfile, CommitRecalculateProfile DEF Commit
  <1>. QED
    BY <1>2, <1>3, <1>4, <1>6 DEF NextOver, vars

LEMMA OverdueCounts ==
    ASSUME NEW a, NEW b, NEW p, Overdue(a, p) \subseteq Overdue(b, p)
    PROVE  /\ Cardinality(Overdue(a, p)) \in Nat /\ Cardinality(Overdue(b, p)) \in Nat
           /\ Cardinality(Overdue(a, p)) <= Cardinality(Overdue(b, p))
  <1>1. Overdue(b, p) \subseteq HazardIds /\ IsFiniteSet(HazardIds)
    BY FlowAssumption DEF Overdue
  <1>2. IsFiniteSet(Overdue(b, p))
    BY <1>1, FS_Subset
  <1>. QED
    BY <1>2, FS_Subset, FS_CardinalityType

\* The conclusion of ProfileNotOverstated, for orders that keep to their project.
NotOver == \A p \in Projects : \A row \in profiles[p] : row[1] <= Cardinality(Overdue(hazards, p))

LEMMA StepNotOver ==
    ASSUME TypeOK, ProfileEffect, NotOver
    PROVE  NotOver'
  <1>. SUFFICES ASSUME NEW p \in Projects, NEW row \in profiles'[p]
               PROVE  row[1] <= Cardinality(Overdue(hazards', p))
    BY DEF NotOver
  <1>1. CASE profiles'[p] = profiles[p] /\ Overdue(hazards, p) \subseteq Overdue(hazards', p)
    <2>1. row[1] \in Nat /\ row[1] <= Cardinality(Overdue(hazards, p))
      BY <1>1 DEF NotOver, TypeOK, ProfileRow
    <2>. QED
      BY <1>1, <2>1, OverdueCounts
  <1>2. ASSUME NEW hs, profiles'[p] = {ProfileOf(hs, p)}, Overdue(hs, p) \subseteq Overdue(hazards', p)
        PROVE  row[1] <= Cardinality(Overdue(hazards', p))
    <2>1. row[1] = Cardinality(Overdue(hs, p))
      BY <1>2 DEF ProfileOf
    <2>. QED
      BY <1>2, <2>1, OverdueCounts
  <1>. QED
    BY <1>1, <1>2 DEF ProfileEffect

\* One at a time, the stored profile never counts more overdue hazards than are
\* open, as long as no order is made for a hazard of another project.
THEOREM NeverOverstated == ASSUME OneRequest PROVE Spec => []ProfileNotOverstated
  <1>. DEFINE Inv == OwnProject => NotOver
  <1>1. Init => Inv
    BY DEF Init, NotOver
  <1>2. TypeOK /\ StatusEarned /\ RowsStand /\ AllFresh /\ Inv /\ [Next]_vars => Inv'
    BY StepEffects, OwnProjectBefore, StepProfile, StepNotOver DEF Next
  <1>3. Inv => ProfileNotOverstated
    BY DEF OwnProject, NotOver, ProfileNotOverstated
  <1>. QED
    BY <1>1, <1>2, <1>3, TypeCorrect, AlwaysEarned, RowsAlwaysStand, SpecFresh, PTL DEF Spec
=============================================================================
