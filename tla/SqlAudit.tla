--------------------------------- MODULE SqlAudit ---------------------------------
(***************************************************************************)
(* The audit of a candidate statement (nl2sql/auditor.py): what is refused *)
(* and which condition is added for the caller.  A statement selects from  *)
(* tables with aliases, under comparisons of columns with literals joined  *)
(* by AND or by OR; SELECTs may be nested in its select list and in its    *)
(* conditions: the audit walks into them.  SELECTs in its FROM, unions and *)
(* its limit are left out.                                                 *)
(***************************************************************************)
EXTENDS AccessScope

\* The tables of the whitelist differ in the columns the scope can be put on: most
\* are like hazard; plain stands for the columns that play no part.
TableColumns ==
    [hazard                |-> {"plain", "company_id", "project_id", "org_path"},
     subcontractor         |-> {"plain", "company_id", "org_path"},
     metric_catalog        |-> {"plain", "company_id", "project_id"},
     accident_case_library |-> {"plain", "company_id"}]
SensitiveFields == {"password"}

\* find_all(exp.Table) and find_all(exp.EQ), In: the statement's own, then the nested ones.
TablesOf(s) == s.from \o s.nested
TermsOf(s) == s.terms \cup s.nestedTerms

\* _resolve_column_table: by alias (the dictionary keeps the last table of an alias), by
\* table name, or the only table there is.
TableOf(c, s) ==
    LET named == {i \in DOMAIN TablesOf(s) : TablesOf(s)[i].alias = c.of}
    IN  IF c.of # None THEN IF named # {} THEN TablesOf(s)[Max(named)].table ELSE c.of
        ELSE IF Len(TablesOf(s)) = 1 THEN TablesOf(s)[1].table ELSE None

\* exp.Column is found in the select list and in the conditions, at every depth.
ColumnsOf(s) == s.columns \cup {[of |-> t.of, field |-> t.field] : t \in TermsOf(s)}

\* _has_company_override, _has_tenant_override and _has_project_override: a literal
\* that names somebody else's data.
Overrides(t, user) ==
    \/ t.field = "company_id" /\ \E v \in t.values : v # user.company
    \/ /\ t.field = "project_id" /\ user.scopeType = "project" /\ user.projects # {}
       /\ ~ t.values \subseteq user.projects

\* audit_sql, the refusals.
Allowed(s, user) ==
    /\ s.single /\ s.select /\ ~ s.star
    /\ \A ref \in ToSet(TablesOf(s)) : ref.table \in DOMAIN TableColumns
    /\ \A c \in ColumnsOf(s) :
          /\ c.field \notin SensitiveFields
          /\ TableOf(c, s) \in DOMAIN TableColumns /\ c.field \in TableColumns[TableOf(c, s)]
    /\ \A t \in TermsOf(s) : ~ Overrides(t, user)

\* audit_sql, the condition appended for one table, and the columns it is put on.
ByProject(table, user) ==
    user.scopeType = "project" /\ user.projects # {} /\ "project_id" \in TableColumns[table]
ByOrg(table, user) ==
    ~ ByProject(table, user) /\ user.dataScope = "org" /\ "org_path" \in TableColumns[table]
ScopeCondition(row, table, user) ==
    /\ row.company = user.company
    /\ ByProject(table, user) =>
          row.project \in user.projects \/ (table = "metric_catalog" /\ row.project = None)
    /\ ByOrg(table, user) => IsPrefix(user.path, row.path)
ScopeColumns(table, user) ==
    {"company_id"} \cup (IF ByProject(table, user) THEN {"project_id"} ELSE {})
                   \cup (IF ByOrg(table, user) THEN {"org_path"} ELSE {})

-----------------------------------------------------------------------------
(* What MySQL makes of the statement: a combination gives each table a row. *)

FieldOf(row, field) ==
    CASE field = "company_id" -> row.company [] field = "project_id" -> row.project
      [] field = "org_path" -> row.path [] OTHER -> None
Meets(t, combination, s) ==
    \E i \in DOMAIN s.from :
        (s.from[i].alias = t.of \/ t.of = None) /\ FieldOf(combination[i], t.field) \in t.values
Condition(s, combination) ==
    \/ s.terms = {}
    \/ s.any /\ \E t \in s.terms : Meets(t, combination, s)
    \/ ~ s.any /\ \A t \in s.terms : Meets(t, combination, s)

\* Every condition is appended to the outer WHERE.  There the alias of a nested table is
\* unknown, unless a table of the statement itself has it, with the columns.
Resolves(s, user) ==
    \A n \in ToSet(s.nested) : \E ref \in ToSet(s.from) :
        ref.alias = n.alias /\ ScopeColumns(n.table, user) \subseteq TableColumns[ref.table]
\* So the conditions are on the rows of the statement's own tables; on those a nested
\* SELECT reads there is none.
Scoped(s, combination, user) ==
    \A i \in DOMAIN s.from :
        /\ ScopeCondition(combination[i], s.from[i].table, user)
        /\ \A n \in ToSet(s.nested) :
              n.alias = s.from[i].alias => ScopeCondition(combination[i], n.table, user)

\* A nested SELECT can make the statement's own condition true of any row.
MaySelect(s, combination) == s.nested # <<>> \/ Condition(s, combination)

ReturnsMutUnbracketed(s, combination, user) ==      \* a OR b AND scope
    \/ MaySelect(s, combination) /\ Scoped(s, combination, user)
    \/ s.any /\ \E t \in s.terms : Meets(t, combination, s)

\* _append_where: the statement's own condition in brackets, AND the scope.
Returns(s, combination, user) == MaySelect(s, combination) /\ Scoped(s, combination, user)
=============================================================================
