---------------------------- MODULE WorkOrderDomain ----------------------------
(***************************************************************************)
(* The pure part of the work-order workflow: the status machine            *)
(* (domain/work_orders.py), the role x action matrix                       *)
(* (domain/hazard_workflow.py) and the membership checks that combine the  *)
(* caller's identity with the project_user table (core/permissions.py).    *)
(* Nothing here has state; WorkOrderFlow builds its handlers on it.        *)
(***************************************************************************)
EXTENDS Naturals

CONSTANTS
    Projects,   \* projects of the tenant
    Subs,       \* subcontractors
    Callers,    \* identities requests arrive with: [id, role, sub, scope]
    Members,    \* active project_user rows: [id, project, role, sub]
    None        \* SQL NULL

ASSUME DomainAssumption ==
    /\ None \notin Subs /\ None \notin Projects
    /\ \A c \in Callers : c.sub \in Subs \cup {None} /\ c.scope \subseteq Projects
    /\ \A m \in Members : m.project \in Projects /\ m.sub \in Subs \cup {None}
    \* uk_project_user_role
    /\ \A m, n \in Members :
          m.project = n.project /\ m.id = n.id /\ m.role = n.role => m = n

Status == {"pending_confirm", "dispatched", "processing", "waiting_review",
           "closed", "rejected", "overdue_escalated"}

\* Mutants (the *Mut* operators, here and below, are the bugs the properties are
\* tried against; no specification uses them): a review_reject to a status that
\* nobody else knows, and an accept that skips the rectification.
TransitionsMutUnknown ==
    { <<"pending_confirm", "confirm", "dispatched">>,
      <<"dispatched", "accept", "processing">>,
      <<"processing", "submit_result", "waiting_review">>,
      <<"waiting_review", "review_pass", "closed">>,
      <<"waiting_review", "review_reject", "reworking">>,
      <<"processing", "timeout", "overdue_escalated">> }
TransitionsMutSkip ==
    { <<"pending_confirm", "confirm", "dispatched">>,
      <<"dispatched", "accept", "waiting_review">>,
      <<"waiting_review", "review_pass", "closed">> }

\* The triples <<current, action, next>> that transition_status accepts; on any
\* other pair it raises "Invalid work-order transition".
Transitions ==
    { <<"pending_confirm", "confirm",       "dispatched">>,
      <<"dispatched",      "accept",        "processing">>,
      <<"processing",      "submit_result", "waiting_review">>,
      <<"waiting_review",  "review_pass",   "closed">>,
      <<"waiting_review",  "review_reject", "processing">>,
      <<"processing",      "timeout",       "overdue_escalated">> }

Actions == {"confirm", "accept", "submit_result", "review_pass",
            "review_reject", "timeout"}

RoleActionMatrix ==
    { <<"pending_confirm", "confirm",       "safety_director",    "same_project">>,
      <<"dispatched",      "accept",        "sub_safety_officer", "same_subcontractor">>,
      <<"processing",      "submit_result", "sub_safety_officer", "same_subcontractor">>,
      <<"waiting_review",  "review_pass",   "gc_safety_officer",  "same_project">>,
      <<"waiting_review",  "review_reject", "gc_safety_officer",  "same_project">>,
      <<"processing",      "timeout",       "system",             "system">> }

AllowedActionMutNull(role, status, action, userSub, orderSub) ==
    \E rule \in {"same_project", "same_subcontractor", "system"} :
        /\ <<status, action, role, rule>> \in RoleActionMatrix
        /\ rule = "same_subcontractor" => userSub = orderSub

\* allowed_action: a NULL subcontractor matches nothing, not even another NULL.
AllowedAction(role, status, action, userSub, orderSub) ==
    \E rule \in {"same_project", "same_subcontractor", "system"} :
        /\ <<status, action, role, rule>> \in RoleActionMatrix
        /\ rule = "same_subcontractor" => userSub # None /\ userSub = orderSub

\* get_project_role: the caller's active row for the role it claims.
ProjectRole(c, p) ==
    {m \in Members : m.id = c.id /\ m.project = p /\ m.role = c.role}

\* assert_project_membership with an explicit role requirement.
HasMembership(c, p, role) ==
    p \in c.scope /\ c.role = role /\ ProjectRole(c, p) # {}

\* assert_work_order_action_allowed, after apply_data_scope found the order.
\* An order without a project is refused to everybody.
ActionAllowed(c, order, action) ==
    /\ order.project \in c.scope
    /\ \E m \in ProjectRole(c, order.project) :
         /\ c.sub = None \/ m.sub = None \/ c.sub = m.sub
         /\ AllowedAction(m.role, order.status, action,
                          IF m.sub # None THEN m.sub ELSE c.sub, order.sub)
=============================================================================
