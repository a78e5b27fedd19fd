-------------------------- MODULE Administration_proofs --------------------------
(***************************************************************************)
(* Proofs about what administrators change while requests run.  Accounts   *)
(* and roles (AuthSessions): a handler runs only for whom the tables       *)
(* entitle; the invariant needs no word about tokens, because every call   *)
(* reads the tables again.  Prompts (PromptRegistry): administrators who   *)
(* do not overlap keep exactly one version of each prompt active; the      *)
(* invariant adds what a request may rely on while it is alone, that it    *)
(* decides on the rows as they are.                                        *)
(***************************************************************************)
EXTENDS AuthSessions, PromptRegistry, TLAPS

\* The part of HandlersEntitledUnlessOvertaken about one request.
Entitled(r) ==
    call[r].at = "handler" /\ ~ call[r].overtaken =>
        LET u == call[r].account
        IN  /\ active[u]
            /\ \E c \in RolesOf(u) :
                 \/ call[r].permission \in role[c].permissions
                 \/ Loaded(u) = {} /\ call[r].permission \in DefaultPermissions[c]

AuthInv ==
    /\ DOMAIN call = Requests
    /\ \A r \in Requests : call[r].at = "handler" => "overtaken" \in DOMAIN call[r] /\ "at" \in DOMAIN call[r]
    /\ \A r \in Requests : Entitled(r)

\* What the effective permissions allow is backed by an active role of the account.
LEMMA EffectiveIsHeld ==
    ASSUME NEW u, NEW effective \in Effective(u), NEW permission \in effective
    PROVE \E c \in RolesOf(u) :
            \/ permission \in role[c].permissions
            \/ Loaded(u) = {} /\ permission \in DefaultPermissions[c]
<1>1. CASE Loaded(u) # {}
  BY <1>1 DEF Effective, Loaded
<1>2. CASE Loaded(u) = {} /\ RolesOf(u) = {}
  BY <1>2 DEF Effective
<1>3. CASE Loaded(u) = {} /\ RolesOf(u) # {}
  <2>1. PICK c \in RolesOf(u) : effective = DefaultPermissions[c]
    BY <1>3 DEF Effective
  <2> QED
    BY <1>3, <2>1
<1> QED
  BY <1>1, <1>2, <1>3

\* Roles and permissions change only with the tables.
LEMMA SameTables ==
    ASSUME UNCHANGED <<role, holds>>, NEW u
    PROVE RolesOf(u)' = RolesOf(u) /\ Loaded(u)' = Loaded(u)
BY DEF RolesOf, Loaded

\* A change of accounts or roles overtakes every handler that is running.
LEMMA ChangeOvertakes ==
    ASSUME AuthInv, Overtake
    PROVE AuthInv'
<1> SUFFICES ASSUME NEW r \in Requests
             PROVE /\ Entitled(r)'
                   /\ call'[r].at = "handler" => "overtaken" \in DOMAIN call'[r] /\ "at" \in DOMAIN call'[r]
  BY DEF AuthInv, Overtake
<1> DEFINE v == [call[r] EXCEPT !.overtaken = TRUE]
<1>1. CASE call[r].at = "handler"
  <2>1. call'[r] = v
    BY <1>1 DEF Overtake
  <2>2. "overtaken" \in DOMAIN call[r] /\ "at" \in DOMAIN call[r]
    BY <1>1 DEF AuthInv
  <2>3. DOMAIN v = DOMAIN call[r]
    OBVIOUS
  <2>4. v.overtaken = TRUE
    BY <2>2
  <2> HIDE DEF v
  <2> QED
    BY <2>1, <2>2, <2>3, <2>4 DEF Entitled
<1>2. CASE call[r].at # "handler"
  BY <1>2 DEF Overtake, Entitled
<1> QED
  BY <1>1, <1>2

\* A step that leaves the tables alone and changes one call keeps the rest.
LEMMA OneCallChanges ==
    ASSUME AuthInv, UNCHANGED <<active, role, holds>>, NEW r \in Requests, NEW v,
           call' = [call EXCEPT ![r] = v], Entitled(r)',
           v.at = "handler" => "overtaken" \in DOMAIN v /\ "at" \in DOMAIN v
    PROVE AuthInv'
<1>1. DOMAIN call' = Requests /\ call'[r] = v /\ \A q \in Requests \ {r} : call'[q] = call[q]
  BY DEF AuthInv
<1>2. \A q \in Requests \ {r} : Entitled(q)'
  BY <1>1, SameTables DEF AuthInv, Entitled
<1> QED
  BY <1>1, <1>2 DEF AuthInv

\* Every step keeps the invariant.
LEMMA AuthStep == AuthInv /\ [AuthNext]_authVars => AuthInv'
<1> SUFFICES ASSUME AuthInv, [AuthNext]_authVars PROVE AuthInv'
  OBVIOUS
<1>1. CASE Administer \/ Seed
  BY <1>1, ChangeOvertakes DEF Administer, Seed
<1>2. CASE UNCHANGED <<active, role, holds, call>>
  BY <1>2, SameTables DEF AuthInv, Entitled
<1>3. CASE Expire
  BY <1>2, <1>3 DEF Expire
<1>4. ASSUME NEW r \in Requests, NEW u \in Accounts \cup {MockIdpAccount} \cup {t.account : t \in tokens},
             BeginIssue(r, u)
      PROVE AuthInv'
  <2> DEFINE v == [at |-> "issue", account |-> u]
  <2>1. call' = [call EXCEPT ![r] = v] /\ UNCHANGED <<active, role, holds>>
    BY <1>4 DEF BeginIssue
  <2>2. call'[r].at = "issue" /\ v.at = "issue"
    BY <2>1 DEF AuthInv
  <2> QED
    BY <2>1, <2>2, OneCallChanges DEF Entitled
<1>5. ASSUME NEW r \in Requests, IssuePair(r) \/ EndCall(r) PROVE AuthInv'
  <2>1. call' = [call EXCEPT ![r] = NoCall] /\ UNCHANGED <<active, role, holds>>
    BY <1>5 DEF IssuePair, EndCall
  <2>2. call'[r].at = "free" /\ NoCall.at = "free"
    BY <2>1 DEF AuthInv, NoCall
  <2> QED
    BY <2>1, <2>2, OneCallChanges DEF Entitled
<1>6. ASSUME NEW r \in Requests, NEW p \in Permissions, BeginCall(r, p) PROVE AuthInv'
  <2>1. PICK t \in tokens : active[t.account] /\
          \E effective \in Effective(t.account) : p \in effective /\
             call' = [call EXCEPT ![r] = [at |-> "handler", account |-> t.account,
                                          permission |-> p, overtaken |-> FALSE]]
    BY <1>6 DEF BeginCall
  <2> DEFINE v == [at |-> "handler", account |-> t.account, permission |-> p, overtaken |-> FALSE]
  <2>2. call' = [call EXCEPT ![r] = v] /\ UNCHANGED <<active, role, holds>>
    BY <1>6, <2>1 DEF BeginCall
  <2>3. call'[r] = v /\ "overtaken" \in DOMAIN v /\ "at" \in DOMAIN v
    BY <2>2 DEF AuthInv
  <2>4. \E c \in RolesOf(t.account) :
            \/ p \in role[c].permissions
            \/ Loaded(t.account) = {} /\ p \in DefaultPermissions[c]
    BY <2>1, EffectiveIsHeld
  <2>5. v.account = t.account /\ v.permission = p
    OBVIOUS
  <2>6. active'[v.account] /\
          \E c \in RolesOf(v.account)' :
            \/ v.permission \in role'[c].permissions
            \/ Loaded(v.account)' = {} /\ v.permission \in DefaultPermissions[c]
    BY <2>1, <2>2, <2>4, <2>5, SameTables
  <2> HIDE DEF v
  <2>7. Entitled(r)'
    BY <2>3, <2>6 DEF Entitled
  <2> QED
    BY <2>2, <2>3, <2>7, OneCallChanges
<1> QED
  BY <1>1, <1>2, <1>3, <1>4, <1>5, <1>6 DEF AuthNext, Login, OAuthCallback, Refresh, authVars

\* Whatever tokens are out, a handler runs for an active account that one of its active
\* roles entitles, unless accounts or roles changed while it ran.
THEOREM EntitledHandlers == AuthSpec => []HandlersEntitledUnlessOvertaken
<1>1. AuthInit => AuthInv
  BY DEF AuthInit, AuthInv, Entitled, NoCall
<1>2. AuthInv => HandlersEntitledUnlessOvertaken
  BY DEF AuthInv, Entitled, HandlersEntitledUnlessOvertaken
<1> QED
  BY <1>1, <1>2, AuthStep, PTL DEF AuthSpec
-----------------------------------------------------------------------------
(* Prompts                                                                 *)

Row == [hash : Nat, active : BOOLEAN]
SyncRequests ==
    [doing : {"sync"}, seen : [Agents -> Seq(Row)], file : [Agents -> Nat],
     active : [Agents -> Nat \cup {None}]]
ActivateRequests ==
    [doing : {"activate"}, seen : [Agents -> Seq(Row)], agent : Agents, version : Nat]

PromptTypes ==
    /\ promptFile \in [Agents -> Nat]
    /\ prompts \in [Agents -> Seq(Row)]
    /\ admin \in [Requests -> {NoAdmin} \cup SyncRequests \cup ActivateRequests]
    /\ DOMAIN meant = Agents

\* A request that is alone sees the rows as they are, and found what is active.
SeesAll(r) ==
    /\ admin[r].doing = "sync" =>
         /\ admin[r].seen = prompts
         /\ \A a \in Agents : IF Active(prompts[a]) = {} THEN admin[r].active[a] = None
                              ELSE admin[r].active[a] \in Active(prompts[a])
    /\ admin[r].doing = "activate" =>
         /\ admin[r].seen = prompts
         /\ admin[r].version \in DOMAIN prompts[admin[r].agent]

Served(a) == Active(prompts[a]) = IF prompts[a] = <<>> THEN {} ELSE {meant[a]}

PromptInv ==
    /\ PromptTypes
    /\ ~ raced =>
         /\ \A r, q \in Requests : admin[r] # NoAdmin /\ admin[q] # NoAdmin => r = q
         /\ \A r \in Requests : SeesAll(r)
         /\ \A a \in Agents : Served(a)

\* A row that is archived.
LEMMA ArchivedRow ==
    ASSUME NEW row \in Row
    PROVE [row EXCEPT !.active = FALSE] \in Row /\ ~ [row EXCEPT !.active = FALSE].active
BY DEF Row

\* Rows changed one by one are still as many rows.
LEMMA SameLength ==
    ASSUME NEW rows \in Seq(Row), NEW old, old = [v \in DOMAIN rows |-> old[v]],
           \A v \in DOMAIN rows : old[v] \in Row
    PROVE old \in Seq(Row) /\ Len(old) = Len(rows)
<1>1. DOMAIN rows = 1..Len(rows) /\ Len(rows) \in Nat
  OBVIOUS
<1>2. old \in [1..Len(rows) -> Row]
  BY <1>1
<1> QED
  BY <1>1, <1>2

\* The rows of an agent with one more, after the version v was archived.
Replaced(rows, v, h) ==
    Append([i \in DOMAIN rows |-> IF i = v THEN [rows[i] EXCEPT !.active = FALSE] ELSE rows[i]],
           Version(h))

\* The new row is the last, and the others are the old ones but for v.
LEMMA ReplacedRows ==
    ASSUME NEW rows \in Seq(Row), NEW v, NEW h \in Nat, NEW new, new = Replaced(rows, v, h)
    PROVE /\ new \in Seq(Row) /\ Len(new) = Len(rows) + 1
          /\ new[Len(rows) + 1].active
          /\ \A i \in DOMAIN rows : new[i].active <=> (i # v /\ rows[i].active)
<1> DEFINE old == [i \in DOMAIN rows |-> IF i = v THEN [rows[i] EXCEPT !.active = FALSE] ELSE rows[i]]
<1>1. \A i \in DOMAIN rows : rows[i] \in Row
  OBVIOUS
<1>2. \A i \in DOMAIN rows :
        old[i] \in Row /\ (old[i].active <=> (i # v /\ rows[i].active))
  BY <1>1, ArchivedRow
<1>3. old = [i \in DOMAIN rows |-> old[i]]
  OBVIOUS
<1>4. Version(h) \in Row /\ Version(h).active
  BY DEF Version, Row
<1>5. new = Append(old, Version(h))
  BY DEF Replaced
<1> HIDE DEF old
<1>6. old \in Seq(Row) /\ Len(old) = Len(rows)
  BY <1>2, <1>3, SameLength
<1>7. /\ Append(old, Version(h)) \in Seq(Row) /\ Len(Append(old, Version(h))) = Len(rows) + 1
      /\ Append(old, Version(h))[Len(rows) + 1] = Version(h)
      /\ \A i \in 1..Len(rows) : Append(old, Version(h))[i] = old[i]
  BY <1>4, <1>6
<1>8. DOMAIN rows = 1..Len(rows)
  OBVIOUS
<1> QED
  BY <1>2, <1>4, <1>5, <1>7, <1>8

\* What is active in the rows after a registration: the new version only.
LEMMA RegisteredServes ==
    ASSUME NEW rows \in Seq(Row), NEW v, NEW h \in Nat,
           Active(rows) = IF rows = <<>> THEN {} ELSE {v},
           NEW new, new = Replaced(rows, v, h)
    PROVE new # <<>> /\ Active(new) = {Len(rows) + 1}
<1>1. /\ new \in Seq(Row) /\ Len(new) = Len(rows) + 1 /\ new[Len(rows) + 1].active
      /\ \A i \in DOMAIN rows : new[i].active <=> (i # v /\ rows[i].active)
  BY ReplacedRows
<1>2. \A i \in DOMAIN rows : i # v => ~ rows[i].active
  BY DEF Active
<1>3. /\ DOMAIN new = 1..(Len(rows) + 1) /\ DOMAIN rows = 1..Len(rows) /\ Len(rows) \in Nat
      /\ new # <<>>
  BY <1>1
<1>4. \A i \in DOMAIN rows : ~ new[i].active
  BY <1>1, <1>2
<1>5. \A i \in DOMAIN new : new[i].active <=> i = Len(rows) + 1
  BY <1>1, <1>3, <1>4
<1> QED
  BY <1>3, <1>5 DEF Active

\* A request ends: the others, if any, are as they were.
LEMMA EndsAlone ==
    ASSUME PromptInv, NEW r \in Requests, admin' = [admin EXCEPT ![r] = NoAdmin], raced' = raced,
           admin[r] # NoAdmin, ~ raced
    PROVE \A q \in Requests : admin'[q] = NoAdmin
BY DEF PromptInv, PromptTypes

\* Nobody is at work: only the rows count.
LEMMA IdleKeeps ==
    ASSUME PromptTypes', \A q \in Requests : admin'[q] = NoAdmin, \A a \in Agents : Served(a)'
    PROVE PromptInv'
BY DEF PromptInv, SeesAll, NoAdmin

\* A request that begins finds nobody else, or the race is noted.
LEMMA BeginKeeps ==
    ASSUME PromptInv, NEW r \in Requests, NEW request \in SyncRequests \cup ActivateRequests,
           BeginAdmin(r, request), ~ raced => SeesAll(r)'
    PROVE PromptInv'
<1>1. PromptTypes'
  BY DEF BeginAdmin, PromptInv, PromptTypes
<1>2. ASSUME ~ raced' PROVE \A q \in Requests : admin[q] = NoAdmin
  BY <1>2 DEF BeginAdmin
<1>3. \A q \in Requests \ {r} : admin'[q] = admin[q]
  BY DEF BeginAdmin, PromptInv, PromptTypes
<1>4. ASSUME ~ raced' PROVE \A q \in Requests : SeesAll(q)'
  <2> SUFFICES ASSUME NEW q \in Requests PROVE SeesAll(q)'
    OBVIOUS
  <2>1. CASE q = r
    BY <1>4, <2>1 DEF BeginAdmin
  <2>2. CASE q # r
    <3>1. admin'[q].doing = "nothing"
      BY <1>2, <1>3, <1>4, <2>2 DEF NoAdmin
    <3> QED
      BY <3>1 DEF SeesAll
  <2> QED
    BY <2>1, <2>2
<1>5. ASSUME ~ raced' PROVE \A a \in Agents : Served(a)'
  BY <1>5 DEF BeginAdmin, PromptInv, Served
<1> QED
  BY <1>1, <1>2, <1>3, <1>4, <1>5 DEF PromptInv

\* A sync that reads files and rows.
LEMMA BeginSyncKeeps ==
    ASSUME PromptAssumption, PromptInv, NEW r \in Requests, BeginSync(r)
    PROVE PromptInv'
<1>1. PICK chosen \in [Agents -> {None} \cup UNION {Active(prompts[a]) : a \in Agents}] :
          /\ \A a \in Agents : IF Active(prompts[a]) = {} THEN chosen[a] = None
                               ELSE chosen[a] \in Active(prompts[a])
          /\ BeginAdmin(r, [doing |-> "sync", seen |-> prompts, file |-> promptFile, active |-> chosen])
  BY DEF BeginSync
<1> DEFINE request == [doing |-> "sync", seen |-> prompts, file |-> promptFile, active |-> chosen]
<1>2. \A a \in Agents : Active(prompts[a]) \subseteq Nat
  BY DEF PromptInv, PromptTypes, Active
<1>3. chosen \in [Agents -> Nat \cup {None}]
  BY <1>1, <1>2
<1>4. request \in SyncRequests
  BY <1>3 DEF SyncRequests, PromptInv, PromptTypes
<1>5. admin'[r] = request /\ prompts' = prompts
  BY <1>1 DEF BeginAdmin, PromptInv, PromptTypes
<1>6. SeesAll(r)'
  BY <1>1, <1>5 DEF SeesAll, Active
<1> QED
  BY <1>1, <1>4, <1>6, BeginKeeps

\* An activation of a version that is there.
LEMMA BeginActivateKeeps ==
    ASSUME PromptInv, NEW r \in Requests, NEW a \in Agents, NEW v \in DOMAIN prompts[a],
           BeginActivate(r, a, v)
    PROVE PromptInv'
<1> DEFINE request == [doing |-> "activate", seen |-> prompts, agent |-> a, version |-> v]
<1>1. BeginAdmin(r, request)
  BY DEF BeginActivate
<1>2. request \in ActivateRequests
  BY DEF ActivateRequests, PromptInv, PromptTypes
<1>3. admin'[r] = request /\ prompts' = prompts
  BY <1>1 DEF BeginAdmin, PromptInv, PromptTypes
<1>4. SeesAll(r)'
  BY <1>3 DEF SeesAll
<1> QED
  BY <1>1, <1>2, <1>4, BeginKeeps

\* A sync that commits alone registers a version above all others, and only that is active.
LEMMA CommitSyncKeeps ==
    ASSUME PromptAssumption, PromptInv, NEW r \in Requests, CommitSync(r)
    PROVE PromptInv'
<1> DEFINE s == admin[r]
<1>1. /\ s \in SyncRequests /\ s # NoAdmin /\ s.doing = "sync"
      /\ admin' = [admin EXCEPT ![r] = NoAdmin] /\ promptFile' = promptFile /\ raced' = raced
  BY DEF CommitSync, PromptInv, PromptTypes, NoAdmin, ActivateRequests
<1>2. PromptTypes'
  <2>1. ASSUME NEW a \in Agents PROVE Registered(s, a) \in Seq(Row)
    <3>1. prompts[a] \in Seq(Row) /\ s.file[a] \in Nat
      BY <1>1 DEF PromptInv, PromptTypes, SyncRequests
    <3>2. Registered(s, a) = prompts[a] \/ Registered(s, a) = Replaced(prompts[a], s.active[a], s.file[a])
      BY DEF Registered, Replaced
    <3> QED
      BY <3>1, <3>2, ReplacedRows
  <2>2. prompts' \in [Agents -> Seq(Row)] /\ DOMAIN meant' = Agents
    BY <2>1 DEF CommitSync, PromptInv, PromptTypes
  <2> QED
    BY <1>1, <2>2 DEF PromptInv, PromptTypes
<1>3. CASE raced
  BY <1>1, <1>2, <1>3 DEF PromptInv
<1>4. CASE ~ raced
  <2>1. \A q \in Requests : admin'[q] = NoAdmin
    BY <1>1, <1>4, EndsAlone
  <2>2. \A a \in Agents : Served(a)'
    <3> SUFFICES ASSUME NEW a \in Agents PROVE Served(a)'
      OBVIOUS
    <3>1. /\ s.seen = prompts /\ prompts[a] \in Seq(Row) /\ s.file[a] \in Nat
          /\ Served(a)
          /\ IF Active(prompts[a]) = {} THEN s.active[a] = None ELSE s.active[a] \in Active(prompts[a])
      BY <1>1, <1>4 DEF PromptInv, PromptTypes, SeesAll, SyncRequests
    <3>2. Active(prompts[a]) \subseteq Nat
      BY <3>1 DEF Active
    <3>3. CASE prompts' = prompts /\ meant' = meant
      BY <3>1, <3>3 DEF Served
    <3>4. CASE /\ prompts'[a] = Registered(s, a)
               /\ meant'[a] = IF Unchanged(s, a) THEN meant[a] ELSE NewVersion(s, a)
               /\ Unchanged(s, a) \/ NewVersion(s, a) = Len(prompts[a]) + 1
      <4>1. CASE Unchanged(s, a)
        BY <3>1, <3>4, <4>1 DEF Registered, Served
      <4>2. CASE ~ Unchanged(s, a)
        <5> DEFINE new == prompts'[a]
        <5>1. new = Replaced(prompts[a], s.active[a], s.file[a])
          BY <3>4, <4>2 DEF Registered, Replaced
        <5>2. Active(prompts[a]) = IF prompts[a] = <<>> THEN {} ELSE {s.active[a]}
          BY <3>1 DEF Served
        <5> HIDE DEF new
        <5>3. new # <<>> /\ Active(new) = {Len(prompts[a]) + 1}
          BY <3>1, <5>1, <5>2, RegisteredServes
        <5> QED
          BY <3>4, <4>2, <5>3 DEF Served, new
      <4> QED
        BY <4>1, <4>2
    <3> QED
      BY <3>3, <3>4 DEF CommitSync
  <2> QED
    BY <1>2, <2>1, <2>2, IdleKeeps
<1> QED
  BY <1>3, <1>4

\* An activation that commits alone leaves its version active and no other.
LEMMA CommitActivateKeeps ==
    ASSUME PromptInv, NEW r \in Requests, CommitActivate(r)
    PROVE PromptInv'
<1> DEFINE s == admin[r]
           Now(v) == IF v \notin DOMAIN s.seen[s.agent] THEN prompts[s.agent][v].active
                     ELSE IF s.seen[s.agent][v].active = (v = s.version) THEN prompts[s.agent][v].active
                     ELSE v = s.version
           rows == prompts[s.agent]
           new == [v \in DOMAIN rows |-> [hash |-> rows[v].hash, active |-> Now(v)]]
<1>1. /\ s \in ActivateRequests /\ s # NoAdmin /\ s.doing = "activate"
      /\ admin' = [admin EXCEPT ![r] = NoAdmin] /\ promptFile' = promptFile /\ raced' = raced
      /\ meant' = [meant EXCEPT ![s.agent] = s.version]
  BY DEF CommitActivate, PromptInv, PromptTypes, NoAdmin, SyncRequests
<1>2. prompts' = [prompts EXCEPT ![s.agent] = new]
  BY DEF CommitActivate
<1>3. s.agent \in Agents /\ rows \in Seq(Row)
  BY <1>1 DEF ActivateRequests, PromptInv, PromptTypes
<1>4. PromptTypes'
  <2>1. \A v \in DOMAIN rows : rows[v] \in Row
    BY <1>3
  <2>2. \A v \in DOMAIN rows : Now(v) \in BOOLEAN
    BY <2>1 DEF Row
  <2>3. \A v \in DOMAIN rows : new[v] \in Row
    BY <2>1, <2>2 DEF Row
  <2>4. new \in Seq(Row)
    <3>1. new = [v \in DOMAIN rows |-> new[v]]
      OBVIOUS
    <3> HIDE DEF new
    <3> QED
      BY <1>3, <2>3, <3>1, SameLength
  <2> HIDE DEF new
  <2> QED
    BY <1>1, <1>2, <2>4 DEF PromptInv, PromptTypes
<1>5. CASE raced
  BY <1>1, <1>4, <1>5 DEF PromptInv
<1>6. CASE ~ raced
  <2>1. \A q \in Requests : admin'[q] = NoAdmin
    BY <1>1, <1>6, EndsAlone
  <2>2. s.seen = prompts /\ s.version \in DOMAIN rows
    BY <1>1, <1>6 DEF PromptInv, SeesAll
  <2>3. \A v \in DOMAIN rows : Now(v) = (v = s.version)
    BY <1>3, <2>2 DEF Row
  <2>4. DOMAIN new = DOMAIN rows /\ \A v \in DOMAIN rows : new[v].active = (v = s.version)
    BY <2>3
  <2> HIDE DEF new
  <2>5. prompts'[s.agent] = new /\ meant'[s.agent] = s.version
    BY <1>1, <1>2, <1>3 DEF PromptInv, PromptTypes
  <2>6. Active(new) = {s.version} /\ new # <<>>
    <3>1. Active(new) = {s.version}
      BY <2>2, <2>4 DEF Active
    <3>2. Active(<<>>) = {}
      BY DEF Active
    <3> QED
      BY <3>1, <3>2
  <2>7. ASSUME NEW a \in Agents, a # s.agent PROVE Served(a)'
    BY <1>1, <1>2, <1>6, <2>7 DEF PromptInv, PromptTypes, Served
  <2>8. \A a \in Agents : Served(a)'
    BY <2>5, <2>6, <2>7 DEF Served
  <2> QED
    BY <1>4, <2>1, <2>8, IdleKeeps
<1> QED
  BY <1>5, <1>6

\* Every step keeps the invariant.
LEMMA PromptStep == PromptInv /\ [PromptNext]_promptVars => PromptInv'
<1> SUFFICES ASSUME PromptInv, [PromptNext]_promptVars PROVE PromptInv'
  OBVIOUS
<1>1. CASE UNCHANGED promptVars
  BY <1>1 DEF promptVars, PromptInv, PromptTypes, SeesAll, Served
<1>2. ASSUME NEW a \in Agents, EditPrompt(a) PROVE PromptInv'
  BY <1>2 DEF EditPrompt, PromptInv, PromptTypes, SeesAll, Served
<1>3. ASSUME NEW r \in Requests, LoseAdmin(r) PROVE PromptInv'
  BY <1>3 DEF LoseAdmin, PromptInv, PromptTypes, SeesAll, Served, NoAdmin
<1> QED
  BY <1>1, <1>2, <1>3, BeginSyncKeeps, BeginActivateKeeps, CommitSyncKeeps, CommitActivateKeeps,
     PromptAssumption DEF PromptNext

\* While no two requests overlap, an agent is served exactly the version last registered
\* or activated for it, however often prompts are edited, synchronised and rolled back.
THEOREM OneVersionServed == PromptSpec => []OneVersionServedUnlessRaced
<1>1. PromptInit => PromptInv
  BY DEF PromptInit, PromptInv, PromptTypes, SeesAll, Served, Active, NoAdmin
<1>2. PromptInv => OneVersionServedUnlessRaced
  BY DEF PromptInv, Served, OneVersionServedUnlessRaced
<1> QED
  BY <1>1, <1>2, PromptStep, PTL DEF PromptSpec
=============================================================================
