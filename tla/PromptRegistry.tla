------------------------------ MODULE PromptRegistry ------------------------------
(***************************************************************************)
(* The versions of the agents' prompts (agents/prompt_registry.py).  A     *)
(* sync registers the prompt files that changed, an activation goes back   *)
(* to a registered version.  Both read the rows, decide, and commit; the   *)
(* database is told of the attributes that differ from what was read, and  *)
(* refuses a version that is there already.                                *)
(***************************************************************************)
EXTENDS Backend

CONSTANTS
    Agents,         \* agent codes of AGENT_PROMPT_SPECS
    MaxEdits,       \* changes of a prompt file (bound)
    MaxVersions     \* versions of an agent's prompt (bound)

ASSUME PromptAssumption == MaxEdits \in Nat /\ MaxVersions \in Nat /\ None \notin Nat

VARIABLES
    promptFile,     \* the contents of each agent's prompt file
    prompts,        \* rows of each agent by version: 1 stands for v1.0, 2 for v1.1, ...
    admin,          \* the local state of each open request
    meant,          \* history: the version last activated or registered
    raced           \* history: two requests overlapped

promptVars == <<promptFile, prompts, admin, meant, raced>>

NoAdmin == [doing |-> "nothing"]
PromptInit ==
    /\ promptFile = [a \in Agents |-> 1]
    /\ prompts = [a \in Agents |-> <<>>]
    /\ admin = [r \in Requests |-> NoAdmin]
    /\ meant = [a \in Agents |-> None]
    /\ raced = FALSE

\* is_active and status, which change together.
Active(rows) == {v \in DOMAIN rows : rows[v].active}
Version(contents) == [hash |-> contents, active |-> TRUE]
-----------------------------------------------------------------------------
\* A deployment changes a prompt file.
EditPrompt(a) ==
    /\ promptFile[a] <= MaxEdits
    /\ promptFile' = [promptFile EXCEPT ![a] = @ + 1]
    /\ UNCHANGED <<prompts, admin, meant, raced>>

BeginAdmin(r, request) ==
    /\ admin[r] = NoAdmin
    /\ admin' = [admin EXCEPT ![r] = request]
    /\ raced' = (raced \/ \E q \in Requests : admin[q] # NoAdmin)
    /\ UNCHANGED <<promptFile, prompts, meant>>

\* POST /agent/prompts/sync reads files and rows.  get_active_prompt_version takes the
\* latest of several active rows: any of them, their times may be equal.  (A file that
\* is not the active version's is registered anew, also after a return to an older
\* version: the next sync undoes that, and the versions grow without bound.)
BeginSync(r) ==
    /\ \A a \in Agents : Len(prompts[a]) < MaxVersions
    /\ \E active \in [Agents -> {None} \cup UNION {Active(prompts[a]) : a \in Agents}] :
          /\ \A a \in Agents : IF Active(prompts[a]) = {} THEN active[a] = None
                               ELSE active[a] \in Active(prompts[a])
          /\ BeginAdmin(r, [doing |-> "sync", seen |-> prompts, file |-> promptFile, active |-> active])

\* POST /agent/prompts/{agent_code}/activate; an unknown version is a 404.
BeginActivate(r, a, v) ==
    /\ v \in DOMAIN prompts[a]
    /\ BeginAdmin(r, [doing |-> "activate", seen |-> prompts, agent |-> a, version |-> v])

\* What sync finds for an agent: nothing active, the file as registered, or changed.
Unchanged(s, a) == s.active[a] # None /\ s.seen[a][s.active[a]].hash = s.file[a]
\* _next_prompt_version; PROMPT_VERSION when nothing is active.
NewVersion(s, a) == IF s.active[a] = None THEN 1 ELSE Len(s.seen[a]) + 1

RegisteredMutKept(s, a) ==            \* the version before stays active
    IF Unchanged(s, a) THEN prompts[a] ELSE Append(prompts[a], Version(s.file[a]))

\* The active version is archived, the new one inserted.
Registered(s, a) ==
    IF Unchanged(s, a) THEN prompts[a]
    ELSE Append([v \in DOMAIN prompts[a] |->
                    IF v = s.active[a] THEN [prompts[a][v] EXCEPT !.active = FALSE] ELSE prompts[a][v]],
                Version(s.file[a]))

\* sync_agent_prompt_versions commits for all agents or, when one of the versions has
\* been inserted by now, for none.
CommitSync(r) ==
    LET s == admin[r]
    IN  /\ s.doing = "sync"
        /\ IF \A a \in Agents : Unchanged(s, a) \/ NewVersion(s, a) = Len(prompts[a]) + 1
           THEN /\ prompts' = [a \in Agents |-> Registered(s, a)]
                /\ meant' = [a \in Agents |-> IF Unchanged(s, a) THEN meant[a] ELSE NewVersion(s, a)]
           ELSE UNCHANGED <<prompts, meant>>
        /\ admin' = [admin EXCEPT ![r] = NoAdmin]
        /\ UNCHANGED <<promptFile, raced>>

\* activate_prompt_version: every other row seen active is archived by
\* _deactivate_agent_prompts; the target is written only if it was not active before.
CommitActivate(r) ==
    LET s == admin[r]
        Now(v) == IF v \notin DOMAIN s.seen[s.agent] THEN prompts[s.agent][v].active
                  ELSE IF s.seen[s.agent][v].active = (v = s.version) THEN prompts[s.agent][v].active
                  ELSE v = s.version
    IN  /\ s.doing = "activate"
        /\ prompts' = [prompts EXCEPT ![s.agent] =
             [v \in DOMAIN @ |-> [hash |-> @[v].hash, active |-> Now(v)]]]
        /\ meant' = [meant EXCEPT ![s.agent] = s.version]
        /\ admin' = [admin EXCEPT ![r] = NoAdmin]
        /\ UNCHANGED <<promptFile, raced>>

\* An error before the commit, or a lost worker: nothing is written.
LoseAdmin(r) ==
    /\ admin[r] # NoAdmin
    /\ admin' = [admin EXCEPT ![r] = NoAdmin]
    /\ UNCHANGED <<promptFile, prompts, meant, raced>>
-----------------------------------------------------------------------------
PromptNext ==
    \/ \E a \in Agents : EditPrompt(a)
    \/ \E r \in Requests :
         \/ BeginSync(r) \/ CommitSync(r) \/ CommitActivate(r) \/ LoseAdmin(r)
         \/ \E a \in Agents : \E v \in DOMAIN prompts[a] : BeginActivate(r, a, v)

PromptSpec == PromptInit /\ [][PromptNext]_promptVars
-----------------------------------------------------------------------------
\* An agent is served exactly the version last registered or activated for it, and
\* a sync can always insert its version; unless requests overlapped.  (Overlapping
\* activations can leave two versions active; two more, that read those two, none:
\* then every sync fails on v1.0.)
OneVersionServedUnlessRaced ==
    ~ raced => \A a \in Agents :
        Active(prompts[a]) = IF prompts[a] = <<>> THEN {} ELSE {meant[a]}
=============================================================================
