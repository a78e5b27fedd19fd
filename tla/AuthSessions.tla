------------------------------ MODULE AuthSessions ------------------------------
(***************************************************************************)
(* Accounts, roles and tokens (services/auth, core/rbac.py).  A token says *)
(* who and of which type, never what it allows: the account, its roles and *)
(* their permissions are read again by every call, in one transaction.     *)
(* Accounts and roles are changed in the database by an administrator and  *)
(* by the seed script.  Calls are those with a bearer token, where roles   *)
(* are enforced (rbac_enforce); a call without one, whose user is built    *)
(* from its headers where the settings allow it (auth_mode mock), is left  *)
(* out.                                                                    *)
(***************************************************************************)
EXTENDS Backend

CONSTANTS
    Accounts, Seeded,               \* user ids, and those seed_rbac_foundation sets up
    MockIdpAccount,                 \* OAUTH_MOCK_USER_ID, or None: the mock IdP is off
    Roles, DefaultPermissions,      \* role codes, DEFAULT_ROLE_PERMISSIONS
    SeedHolds(_),                   \* the role the seed gives an account
    MaxAdmin                        \* changes by the administrator (bound)

Permissions == UNION {DefaultPermissions[c] : c \in Roles}

ASSUME AuthAssumption == MaxAdmin \in Nat /\ None \notin Accounts

VARIABLES
    active,                         \* user_account.status = "active"
    role,                           \* auth_role: [active, permissions]
    holds,                          \* user_role rows with status active: <<account, role>>
    tokens,                         \* unexpired tokens handed out: [type, account]
    call,                           \* the local state of each open request
    adminChanges

authVars == <<active, role, holds, tokens, call, adminChanges>>

NoCall == [at |-> "free"]

AuthInit ==
    /\ active = [u \in Accounts |-> u \in Seeded]
    /\ role = [c \in Roles |-> [active |-> TRUE, permissions |-> DefaultPermissions[c]]]
    /\ holds = {<<u, SeedHolds(u)>> : u \in Seeded}
    /\ tokens = {}
    /\ call = [r \in Requests |-> NoCall]
    /\ adminChanges = 0
-----------------------------------------------------------------------------
\* What a handler was allowed was decided before this change.
Overtake == call' = [r \in Requests |-> IF call[r].at = "handler"
                                        THEN [call[r] EXCEPT !.overtaken = TRUE] ELSE call[r]]

Administer ==
    /\ adminChanges < MaxAdmin /\ adminChanges' = adminChanges + 1
    /\ \/ /\ \E u \in Accounts : active' = [active EXCEPT ![u] = ~ @]
          /\ UNCHANGED <<role, holds>>
       \/ /\ \E c \in Roles : role' = [role EXCEPT ![c].active = ~ @]
          /\ UNCHANGED <<active, holds>>
       \/ /\ \E c \in Roles, ps \in SUBSET Permissions : role' = [role EXCEPT ![c].permissions = ps]
          /\ UNCHANGED <<active, holds>>
       \/ /\ \E u \in Accounts, c \in Roles :
               holds' = IF <<u, c>> \in holds THEN holds \ {<<u, c>>} ELSE holds \cup {<<u, c>>}
          /\ UNCHANGED <<active, role>>
    /\ Overtake /\ UNCHANGED tokens

\* seed_rbac_foundation: the roles and the seeded accounts are put back as they were,
\* whatever an administrator changed; roles added to a seeded account stay.
Seed ==
    /\ active' = [u \in Accounts |-> u \in Seeded \/ active[u]]
    /\ role' = [c \in Roles |-> [active |-> TRUE, permissions |-> DefaultPermissions[c]]]
    /\ holds' = holds \cup {<<u, SeedHolds(u)>> : u \in Seeded}
    /\ Overtake /\ UNCHANGED <<tokens, adminChanges>>
-----------------------------------------------------------------------------
\* authenticate_user, refresh_access_token or handle_oauth_callback finds the account
\* active ...
BeginIssue(r, u) ==
    /\ call[r] = NoCall /\ active[u]
    /\ call' = [call EXCEPT ![r] = [at |-> "issue", account |-> u]]
    /\ UNCHANGED <<active, role, holds, tokens, adminChanges>>
Login(r) == \E u \in Accounts : BeginIssue(r, u)
OAuthCallback(r) == MockIdpAccount # None /\ BeginIssue(r, MockIdpAccount)
Refresh(r) == \E t \in tokens : t.type = "refresh" /\ BeginIssue(r, t.account)

\* ... and issue_token_pair hands out two tokens.  The refresh token used stays valid.
IssuePair(r) ==
    /\ call[r].at = "issue"
    /\ tokens' = tokens \cup {[type |-> ty, account |-> call[r].account] : ty \in {"access", "refresh"}}
    /\ call' = [call EXCEPT ![r] = NoCall]
    /\ UNCHANGED <<active, role, holds, adminChanges>>

Expire ==
    /\ \E t \in tokens : tokens' = tokens \ {t}
    /\ UNCHANGED <<active, role, holds, call, adminChanges>>

\* load_role_codes_and_permissions
RolesOf(u) == {c \in Roles : <<u, c>> \in holds /\ role[c].active}
Loaded(u) == UNION {role[c].permissions : c \in RolesOf(u)}

\* resolve_effective_permissions of an account's user: the loaded ones or, if there are
\* none, the defaults of the primary role, which is the first the query returned.
Effective(u) ==
    IF Loaded(u) # {} THEN {Loaded(u)}
    ELSE IF RolesOf(u) = {} THEN {{}} ELSE {DefaultPermissions[c] : c \in RolesOf(u)}

BeginCallMutStale(r, permission) ==   \* trusts the token without reading the account
    /\ call[r] = NoCall
    /\ \E t \in tokens : t.type = "access" /\
         \E effective \in Effective(t.account) : permission \in effective /\
            call' = [call EXCEPT ![r] = [at |-> "handler", account |-> t.account,
                                         permission |-> permission, overtaken |-> FALSE]]
    /\ UNCHANGED <<active, role, holds, tokens, adminChanges>>

\* get_current_user with a bearer token and require_permissions: the token's account must
\* (still) be active.
BeginCall(r, permission) ==
    /\ call[r] = NoCall
    /\ \E t \in tokens : t.type = "access" /\ active[t.account] /\
         \E effective \in Effective(t.account) : permission \in effective /\
            call' = [call EXCEPT ![r] = [at |-> "handler", account |-> t.account,
                                         permission |-> permission, overtaken |-> FALSE]]
    /\ UNCHANGED <<active, role, holds, tokens, adminChanges>>

\* The handler answers, or the request is lost.
EndCall(r) ==
    /\ call[r] # NoCall
    /\ call' = [call EXCEPT ![r] = NoCall]
    /\ UNCHANGED <<active, role, holds, tokens, adminChanges>>

AuthNext ==
    \/ Administer \/ Seed \/ Expire
    \/ \E r \in Requests :
         \/ Login(r) \/ OAuthCallback(r) \/ Refresh(r) \/ IssuePair(r) \/ EndCall(r)
         \/ \E p \in Permissions : BeginCall(r, p)

AuthSpec == AuthInit /\ [][AuthNext]_authVars
-----------------------------------------------------------------------------
\* Whatever tokens are out and however they were come by (an old login, a refresh
\* that overlapped a suspension), a handler called with one runs for an active account
\* that one of its active roles entitles, as accounts and roles are now, unless they
\* changed while it ran.  Only when no active role of the account lists any permission
\* do the default ones of such a role count.
HandlersEntitledUnlessOvertaken ==
    \A r \in Requests : call[r].at = "handler" /\ ~ call[r].overtaken =>
        LET u == call[r].account
        IN  /\ active[u]
            /\ \E c \in RolesOf(u) :
                 \/ call[r].permission \in role[c].permissions
                 \/ Loaded(u) = {} /\ call[r].permission \in DefaultPermissions[c]
=============================================================================
