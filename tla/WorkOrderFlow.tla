----------------------------- MODULE WorkOrderFlow -----------------------------
(***************************************************************************)
(* Work orders, hazards, the flow log and the project profile row, as the  *)
(* concurrent requests of one deployment change them.                      *)
(*                                                                         *)
(* Every request owns one SQLAlchemy session.  InnoDB's REPEATABLE READ    *)
(* gives it one consistent view, opened by its first SELECT; the handler   *)
(* checks and computes on that view and its writes become visible          *)
(* together at COMMIT, as UPDATEs BY PRIMARY KEY of the columns it         *)
(* changed.  There is no version column and no SELECT ... FOR UPDATE, so   *)
(* nothing compares the row with the view at that moment.  A handler is    *)
(* therefore two steps, Begin (view, checks) and Commit (writes), and any  *)
(* other request may commit in between; Abort is any exception, crash or   *)
(* failed Redis call before COMMIT (rollback).  Handlers that only insert  *)
(* are one step.                                                           *)
(***************************************************************************)
EXTENDS WorkOrderDomain, Sequences, FiniteSets

CONSTANTS
    Requests,       \* sessions that can be open at once
    OrderIds,       \* primary keys available to safety_work_order (bound)
    HazardIds,      \* primary keys available to hazard (bound)
    PastDue,        \* hazards whose due date lies before the modelled day
    Major,          \* hazards of level "major"
    HazardRule,     \* SR-PROJ-001: a major hazard is past due and open
    StandingRules,  \* rules the project's other data (equipment, schedule) fires
    Endpoints,      \* endpoints that receive traffic in this instance
    MaxLog          \* bound on the flow log a new transition starts from

ASSUME FlowAssumption ==
    /\ IsFiniteSet(HazardIds) /\ PastDue \subseteq HazardIds /\ Major \subseteq HazardIds
    /\ HazardRule \notin StandingRules
    /\ None \notin OrderIds \cup HazardIds \cup StandingRules \cup {HazardRule}
    /\ Endpoints \subseteq {"hazards", "work_orders", "patch", "execute",
                            "escalate", "recalculate"}
    /\ MaxLog \in Nat

VARIABLES
    orders,     \* safety_work_order
    hazards,    \* hazard
    flowLog,    \* work_order_flow_log, per order, in commit order
    profiles,   \* project_risk_profile of the day: {} or {<<overdue, major>>}
    session     \* what each open request read and is about to write

vars == <<orders, hazards, flowLog, profiles, session>>

Rules == StandingRules \cup {HazardRule}

\* Status "absent" is a row that was never inserted.  source_type and source_id
\* are kept as what they name: a hazard, or, in an order with a rule_id (nobody
\* asks it of another), the order's own project.  level counts the events of
\* escalation_history, which is always written together with it; evidence counts
\* the rectification images in the attachments column.
OrderRow == [status : Status \cup {"absent"}, project : Projects \cup {None},
             sub : Subs \cup {None}, hazard : HazardIds \cup {None},
             rule : Rules \cup {None}, own : BOOLEAN, level : Nat, evidence : Nat]
HazardRow == [status : {"absent", "open", "closed"}, project : Projects \cup {None},
              order : OrderIds \cup {None}]
LogRow == [from : Status \cup {None}, action : Actions \cup {"create"},
           to : Status, caller : Callers]
ProfileRow == Nat \X Nat

NoOrder == [status |-> "absent", project |-> None, sub |-> None, hazard |-> None,
            rule |-> None, own |-> FALSE, level |-> 0, evidence |-> 0]
NewOrder(p, s, h, rule, own) ==
    [status |-> "pending_confirm", project |-> p, sub |-> s, hazard |-> h,
     rule |-> rule, own |-> own, level |-> 0, evidence |-> 0]
\* The UPDATE of the columns a transition or an escalation changes.
Updated(row, status, level, evidence) ==
    [status |-> status, project |-> row.project, sub |-> row.sub, hazard |-> row.hazard,
     rule |-> row.rule, own |-> row.own, level |-> level, evidence |-> evidence]
NoHazard == [status |-> "absent", project |-> None, order |-> None]

View == [orders : [OrderIds -> OrderRow], hazards : [HazardIds -> HazardRow],
         profiles : [Projects -> SUBSET ProfileRow]]
Idle == [op |-> "idle"]
TransitionSession ==
    {s \in [op : {"transition"}, caller : Callers,
            order : OrderIds, action : Actions \ {"review_pass"}, to : Status,
            row : OrderRow] : s.row.status \in Status}
ReviewSession ==
    {s \in [op : {"review"}, caller : Callers,
            order : OrderIds, view : View] : s.view.orders[s.order].status \in Status}
EscalateSession ==
    [op : {"escalate"}, late : SUBSET OrderIds, level : [OrderIds -> Nat]]
RecalculateSession ==
    [op : {"recalculate"}, projects : SUBSET Projects, view : View]
Session ==
    {Idle} \cup TransitionSession \cup ReviewSession \cup EscalateSession
           \cup RecalculateSession

TypeOK ==
    /\ orders \in [OrderIds -> OrderRow]
    /\ hazards \in [HazardIds -> HazardRow]
    /\ flowLog \in [OrderIds -> Seq(LogRow)]
    /\ profiles \in [Projects -> SUBSET ProfileRow]
    /\ session \in [Requests -> Session]

Current == [orders |-> orders, hazards |-> hazards, profiles |-> profiles]

Init ==
    /\ orders = [o \in OrderIds |-> NoOrder]
    /\ hazards = [h \in HazardIds |-> NoHazard]
    /\ flowLog = [o \in OrderIds |-> <<>>]
    /\ profiles = [p \in Projects |-> {}]
    /\ session = [r \in Requests |-> Idle]
LogEntryMutFrom(from, a, to, c) ==    \* from_status read after the assignment
    [from |-> to, action |-> a, to |-> to, caller |-> c]

\* work_order_flow_log rows are only ever added.
LogEntry(from, a, to, c) == [from |-> from, action |-> a, to |-> to, caller |-> c]

Log(o, entry) == flowLog' = [flowLog EXCEPT ![o] = Append(@, entry)]

-----------------------------------------------------------------------------
(* Inserts *)

\* POST /projects/{p}/hazards: hazard, order and the "create" log entry in one
\* transaction.  At least one discovery image is required, which is why an
\* order's own attachments start non-empty; only rectification images count.
CreateHazard(c, p, s, h, o) ==
    /\ HasMembership(c, p, "gc_safety_officer")
    /\ hazards[h].status = "absent" /\ orders[o].status = "absent"
    /\ hazards' = [hazards EXCEPT ![h] =
                     [status |-> "open", project |-> p, order |-> o]]
    /\ orders' = [orders EXCEPT ![o] = NewOrder(p, s, h, None, FALSE)]
    /\ Log(o, LogEntry(None, "create", "pending_confirm", c))
    /\ UNCHANGED <<profiles, session>>

\* What the body of POST /work-orders names; an id that no row has is None.
Bodies ==
    {b \in [project : Projects \cup {None}, sub : Subs \cup {None},
            hazard : HazardIds \cup {None}, rule : Rules \cup {None}, own : BOOLEAN] :
        b.own => b.project # None /\ b.hazard = None /\ b.rule # None}

\* POST /work-orders: the body is free to name any source, rule and
\* subcontractor, an open order's included; the project must be in the caller's
\* scope or missing, and nothing is logged.
CreateWorkOrder(c, o, b) ==
    /\ b.project # None => b.project \in c.scope
    /\ b.hazard # None => hazards[b.hazard].status # "absent"
    /\ orders[o].status = "absent"
    /\ orders' = [orders EXCEPT ![o] = NewOrder(b.project, b.sub, b.hazard, b.rule, b.own)]
    /\ UNCHANGED <<hazards, flowLog, profiles, session>>
-----------------------------------------------------------------------------
(* transition_work_order *)

\* _validate_action_payload, for the two callers of transition_work_order: the
\* approval queue drops "attachments" from its payload, so a submit_result it
\* executes never carries the required image.
ValidPayload(by, a) == by = "execute" => a # "submit_result"

\* PATCH /work-orders/{o}/status, or the execution of an approved agent
\* request, up to transition_status: all on the view.
Accepted(r, by, c, o, a) ==
    /\ session[r] = Idle
    /\ Len(flowLog[o]) < MaxLog
    /\ ActionAllowed(c, orders[o], a)
    /\ ValidPayload(by, a)

BeginTransition(r, by, c, o, t) ==
    /\ t[1] = orders[o].status /\ t[2] # "review_pass"
    /\ Accepted(r, by, c, o, t[2])
    /\ session' = [session EXCEPT ![r] =
         [op |-> "transition", caller |-> c, order |-> o,
          action |-> t[2], to |-> t[3], row |-> orders[o]]]
    /\ UNCHANGED <<orders, hazards, flowLog, profiles>>

EvidenceMutReplace(action, viewed, current) ==
    IF action = "submit_result" THEN 1 ELSE current

\* _merge_attachments: the whole column is replaced by the view's list plus the
\* new images.
Evidence(action, viewed, current) ==
    IF action = "submit_result" THEN viewed + 1 ELSE current

\* COMMIT of confirm, accept, submit_result and review_reject.
CommitTransition(r) ==
    LET s == session[r]
    IN  /\ s.op = "transition"
        /\ orders' = [orders EXCEPT ![s.order] =
             Updated(@, s.to, @.level, Evidence(s.action, s.row.evidence, @.evidence))]
        /\ Log(s.order, LogEntry(s.row.status, s.action, s.to, s.caller))
        /\ session' = [session EXCEPT ![r] = Idle]
        /\ UNCHANGED <<hazards, profiles>>
-----------------------------------------------------------------------------
(* Project profile recalculation *)

\* _is_overdue_open_hazard, for the hazards of one project.
Overdue(hs, p) ==
    {h \in PastDue : hs[h].project = p /\ hs[h].status = "open"}

\* What calculate_project_profile computes the score, the tags and the rule
\* triggers from, as far as it changes during the day.
ProfileOf(hs, p) == <<Cardinality(Overdue(hs, p)), Cardinality(Overdue(hs, p) \cap Major)>>

Fired(hs, p) ==
    StandingRules \cup (IF Overdue(hs, p) \cap Major # {} THEN {HazardRule} ELSE {})

ToCreateMutOpen(v, ps) ==             \* OPEN_STATUSES without pending_confirm
    {pr \in ps \X Rules :
        /\ pr[2] \in Fired(v.hazards, pr[1])
        /\ ~ \E o \in OrderIds :
               /\ v.orders[o].rule = pr[2] /\ v.orders[o].project = pr[1] /\ v.orders[o].own
               /\ v.orders[o].status \in {"dispatched", "processing", "waiting_review",
                                         "rejected", "overdue_escalated"}}

\* _has_open_duplicate, negated, for every project and fired rule: an order of
\* the rule counts only if its source is the project itself.
ToCreate(v, ps) ==
    {pr \in ps \X Rules :
        /\ pr[2] \in Fired(v.hazards, pr[1])
        /\ ~ \E o \in OrderIds :
               /\ v.orders[o].rule = pr[2] /\ v.orders[o].project = pr[1] /\ v.orders[o].own
               /\ v.orders[o].status \notin {"absent", "closed"}}

\* create_work_orders_for_rule_triggers: getattr(project, "subcontractor_id")
\* is None for a project, so the order has no subcontractor.
RuleOrder(pr) == NewOrder(pr[1], None, None, pr[2], TRUE)

\* Fresh keys (uuid4) for the orders to insert.
FreshKeys(new) ==
    {f \in [new -> {o \in OrderIds : orders[o].status = "absent"}] :
        \A x, y \in new : f[x] = f[y] => x = y}

WithRuleOrders(os, f) ==
    [o \in OrderIds |->
        IF \E pr \in DOMAIN f : f[pr] = o
        THEN RuleOrder(CHOOSE pr \in DOMAIN f : f[pr] = o)
        ELSE os[o]]

\* The profile row: inserted if the view had none for the day (idx_project_date
\* makes a second insert fail, and with it the whole transaction), updated if
\* its values differ from the view's, otherwise not written at all.
ProfileInsertable(view, ps) ==
    \A p \in ps : view.profiles[p] = {} => profiles[p] = {}

SaveProfiles(view, computedOn, ps) ==
    LET row(p) == {ProfileOf(computedOn.hazards, p)}
    IN  profiles' = [p \in Projects |->
                       IF p \in ps /\ view.profiles[p] # row(p) THEN row(p) ELSE profiles[p]]

\* POST /profile/recalculate for one project or all the caller can see.
BeginRecalculate(r, ps) ==
    /\ session[r] = Idle
    /\ session' = [session EXCEPT ![r] =
         [op |-> "recalculate", projects |-> ps, view |-> Current]]
    /\ UNCHANGED <<orders, hazards, flowLog, profiles>>

CommitRecalculate(r) ==
    LET s == session[r]
    IN  /\ s.op = "recalculate"
        /\ ProfileInsertable(s.view, s.projects)
        /\ \E f \in FreshKeys(ToCreate(s.view, s.projects)) :
             orders' = WithRuleOrders(orders, f)
        /\ SaveProfiles(s.view, s.view, s.projects)
        /\ session' = [session EXCEPT ![r] = Idle]
        /\ UNCHANGED <<hazards, flowLog>>
-----------------------------------------------------------------------------
(* review_pass: close the order and its hazard, recalculate, commit once *)

RelatedHazardMutNoFallback(v, o) ==
    {h \in HazardIds : /\ v.hazards[h].order = o
                       /\ v.hazards[h].project = v.orders[o].project}
RelatedHazardMutProject(v, o) ==
    LET owners == {h \in HazardIds : v.hazards[h].project = v.orders[o].project}
    IN  IF owners # {} THEN owners
        ELSE {h \in HazardIds : h = v.orders[o].hazard}

\* _close_related_hazard: the hazard that names the order and shares its
\* project, else the one the order names as its source.
RelatedHazard(v, o) ==
    LET owners == {h \in HazardIds : /\ v.hazards[h].order = o
                                     /\ v.hazards[h].project = v.orders[o].project}
    IN  IF owners # {} THEN owners
        ELSE {h \in HazardIds : h = v.orders[o].hazard}

Close(rows, ids) ==
    [x \in DOMAIN rows |-> IF x \in ids THEN [rows[x] EXCEPT !.status = "closed"]
                                        ELSE rows[x]]

FlushedMutEarly(s) ==                 \* recalculated before the flush
    [s.view EXCEPT !.orders = Close(@, {s.order})]

\* The view after the handler's own flush, which its recalculation reads.
Flushed(s) ==
    [s.view EXCEPT !.orders = Close(@, {s.order}),
                   !.hazards = Close(@, RelatedHazard(s.view, s.order))]

BeginReviewPass(r, by, c, o) ==
    /\ Accepted(r, by, c, o, "review_pass")
    /\ <<orders[o].status, "review_pass", "closed">> \in Transitions
    /\ session' = [session EXCEPT ![r] =
         [op |-> "review", caller |-> c, order |-> o, view |-> Current]]
    /\ UNCHANGED <<orders, hazards, flowLog, profiles>>

CommitReviewPass(r) ==
    LET s == session[r]
        viewed == s.view.orders[s.order]
        ps == {viewed.project}
    IN  /\ s.op = "review"
        /\ ProfileInsertable(s.view, ps)
        /\ \E f \in FreshKeys(ToCreate(Flushed(s), ps)) :
             orders' = WithRuleOrders(Close(orders, {s.order}), f)
        /\ hazards' = Close(hazards, RelatedHazard(s.view, s.order))
        /\ SaveProfiles(s.view, Flushed(s), ps)
        /\ Log(s.order, LogEntry(viewed.status, "review_pass", "closed", s.caller))
        /\ session' = [session EXCEPT ![r] = Idle]
-----------------------------------------------------------------------------
(* Escalation *)

BeginEscalateMutAny(r, c, late) ==    \* no filter on status
    /\ session[r] = Idle
    /\ late # {}
    /\ \A o \in late : orders[o].status # "absent" /\ orders[o].project \in c.scope
    /\ session' = [session EXCEPT ![r] =
         [op |-> "escalate", late |-> late,
          level |-> [o \in OrderIds |-> IF o \in late THEN orders[o].level ELSE 0]]]
    /\ UNCHANGED <<orders, hazards, flowLog, profiles>>

\* POST /work-orders/escalate-overdue.  The clock is abstracted: any of the
\* processing orders in scope may be the ones past their due time.
BeginEscalate(r, c, late) ==
    /\ session[r] = Idle
    /\ late # {}
    /\ \A o \in late : orders[o].status = "processing" /\ orders[o].project \in c.scope
    /\ session' = [session EXCEPT ![r] =
         [op |-> "escalate", late |-> late,
          level |-> [o \in OrderIds |-> IF o \in late THEN orders[o].level ELSE 0]]]
    /\ UNCHANGED <<orders, hazards, flowLog, profiles>>

CommitEscalateMutNoHistory(r) ==
    LET s == session[r]
    IN  /\ s.op = "escalate"
        /\ orders' = [o \in OrderIds |->
                        IF o \in s.late
                        THEN Updated(orders[o], "overdue_escalated", orders[o].level, orders[o].evidence)
                        ELSE orders[o]]
        /\ session' = [session EXCEPT ![r] = Idle]
        /\ UNCHANGED <<hazards, flowLog, profiles>>

\* Writes no flow log.
CommitEscalate(r) ==
    LET s == session[r]
    IN  /\ s.op = "escalate"
        /\ orders' = [o \in OrderIds |->
                        IF o \in s.late
                        THEN Updated(orders[o], "overdue_escalated", s.level[o] + 1, orders[o].evidence)
                        ELSE orders[o]]
        /\ session' = [session EXCEPT ![r] = Idle]
        /\ UNCHANGED <<hazards, flowLog, profiles>>

\* Any exception, lost connection or crash before COMMIT: rolled back.
Abort(r) ==
    /\ session[r] # Idle
    /\ session' = [session EXCEPT ![r] = Idle]
    /\ UNCHANGED <<orders, hazards, flowLog, profiles>>
-----------------------------------------------------------------------------
\* The requests that arrive when the endpoints es receive traffic.
Insert(es) ==
    \E c \in Callers, o \in OrderIds :
        \/ /\ "hazards" \in es
           /\ \E p \in Projects, s \in Subs, h \in HazardIds : CreateHazard(c, p, s, h, o)
        \/ /\ "work_orders" \in es
           /\ \E b \in Bodies : CreateWorkOrder(c, o, b)

Begin(es, r) ==
    \/ \E by \in {"patch", "execute"} \cap es, c \in Callers, o \in OrderIds :
         \/ \E t \in Transitions : BeginTransition(r, by, c, o, t)
         \/ BeginReviewPass(r, by, c, o)
    \/ /\ "escalate" \in es
       /\ \E c \in Callers, late \in SUBSET OrderIds : BeginEscalate(r, c, late)
    \/ /\ "recalculate" \in es
       /\ \E ps \in (SUBSET Projects) \ {{}} : BeginRecalculate(r, ps)

Commit(r) ==
    \/ CommitTransition(r)
    \/ CommitReviewPass(r)
    \/ CommitEscalate(r)
    \/ CommitRecalculate(r)

\* An insert takes a session too, though only for its one step.
NextOver(es) ==
    \E r \in Requests :
        \/ session[r] = Idle /\ Insert(es)
        \/ Begin(es, r) \/ Commit(r) \/ Abort(r)

Next == NextOver(Endpoints)
Spec == Init /\ [][Next]_vars
=============================================================================
