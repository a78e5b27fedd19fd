------------------------------- MODULE AccessScope -------------------------------
(***************************************************************************)
(* What of the data a user may see (core/security.py): the company first,  *)
(* then the projects of the user or the part of the organisation below the *)
(* user's org_path.  A path is a sequence; LIKE 'path%' is the prefix      *)
(* relation.  The columns a table has decide which filter applies.         *)
(***************************************************************************)
EXTENDS Backend, SequencesExt

\* MockUser.__post_init__: without a scope_type the legacy data_scope decides.
ScopeFromLegacy(dataScope) == IF dataScope = "org" THEN "project" ELSE "company"

\* _mock_user_from_headers: a header with an unknown value is as good as none.
HeaderUser(company, path, dataScope, scopeType, projects) ==
    LET d == IF dataScope = "org" THEN "org" ELSE "tenant"
    IN  [company |-> company, path |-> path, dataScope |-> d, projects |-> projects,
         scopeType |-> IF scopeType \in {"company", "project"} THEN scopeType ELSE ScopeFromLegacy(d)]

\* build_mock_user_from_account: an unknown scope in user_account is the company's.
AccountUser(account) ==
    LET s == IF account.scope = "project" THEN "project" ELSE "company"
    IN  [company |-> account.company, path |-> account.path, projects |-> account.projects,
         scopeType |-> s, dataScope |-> IF s = "project" THEN "org" ELSE "tenant"]

\* apply_data_scope: does the query on a table with these columns return the row?
InDataScope(row, columns, user) ==
    /\ row.company = user.company
    /\ user.scopeType = "project" =>
         IF user.projects # {} /\ "project_id" \in columns THEN row.project \in user.projects
         ELSE "org_path" \in columns => IsPrefix(user.path, row.path)

\* assert_project_access: a project named in a path or a body.
ProjectAccess(project, user) ==
    project # None /\ user.scopeType = "project" /\ user.projects # {} => project \in user.projects
=============================================================================
