------------------------------ MODULE Nl2sqlDialogue ------------------------------
(***************************************************************************)
(* POST /agent/nl2sql (services/nl2sql): a question is answered from the   *)
(* tenant's cache or by a model whose statement is audited; the statement  *)
(* is recorded or executed; a question that needs clarification opens a    *)
(* session that the user's replies go on with.  Each write is committed on *)
(* its own, and the request may be lost between any two.                   *)
(***************************************************************************)
EXTENDS SqlAudit

CONSTANTS
    Callers,        \* users of one tenant, as get_current_user returns them
    Questions,      \* questions asked, after enrichment from the session memory
    Replies,        \* texts of clarification replies
    Candidates,     \* statements the model may propose
    Rows,           \* rows a table may hold: [company, project, path]
    MaxReplies,     \* MAX_CLARIFICATION_TURNS (3)
    MaxSessions,    \* clarification sessions (bound)
    MaxAsks         \* requests (bound)

ClarificationRows ==
    [user : Callers, question : Questions, replies : Seq(Replies),
     status : {"awaiting", "resolved"}, ref : Nat \cup {None}]

\* The scopes of an account agree (see AccountUser).
ASSUME DialogueAssumption ==
    /\ MaxReplies \in Nat \ {0} /\ MaxSessions \in Nat /\ MaxAsks \in Nat
    /\ None \notin Nat /\ None \notin Callers \cup ClarificationRows
    /\ \A u \in Callers : u.scopeType = "project" => u.dataScope = "org"

VARIABLES
    clarification,  \* the sessions, rows of agent_task_checkpoint
    auditLog,       \* agent_nl2sql_audit
    sqlCache,       \* the tenant's cache: at most one entry per question
    query,          \* the local state of each open request
    asks,           \* requests so far
    cutShort        \* history: sessions with a request lost on the way

dialogueVars == <<clarification, auditLog, sqlCache, query, asks, cutShort>>

Sessions == 1..MaxSessions

\* The question is the original one and the replies, as compose_refined_question
\* puts them together; ref is the audit row just written.  Whether the statement is
\* to be executed is decided where it is first asked for.
Asking(at, user, question, session) ==
    [at |-> at, user |-> user, question |-> question, session |-> session,
     generated |-> None, ref |-> None]
Idle == Asking("free", None, <<>>, None)

DialogueInit ==
    /\ clarification = [d \in Sessions |-> None]
    /\ auditLog = <<>> /\ sqlCache = {} /\ cutShort = {}
    /\ query = [r \in Requests |-> Idle] /\ asks = 0

GoOn(r, at) == query' = [query EXCEPT ![r].at = at]
Done(r) == query' = [query EXCEPT ![r] = Idle]
-----------------------------------------------------------------------------
Begin(r, asking) ==
    /\ query[r] = Idle /\ asks < MaxAsks
    /\ asks' = asks + 1
    /\ query' = [query EXCEPT ![r] = asking]
    /\ UNCHANGED <<clarification, auditLog, sqlCache, cutShort>>

BeginQuery(r, user, question) == Begin(r, Asking("generate", user, <<question>>, None))

\* get_clarification_session and the checks of append_clarification_reply, on the
\* row as it is read: one's own, still awaiting, fewer replies than the limit.
\* Every other follow-up is an error without effect.
BeginFollowUp(r, d, reply) ==
    LET session == clarification[d]
    IN  /\ session # None /\ session.status = "awaiting" /\ Len(session.replies) < MaxReplies
        /\ Begin(r, Asking("reply", session.user,
                           <<session.question>> \o Append(session.replies, reply), d))

\* append_clarification_reply, the write: the context it read plus one reply.
CommitReply(r) ==
    /\ query[r].at = "reply"
    /\ clarification' = [clarification EXCEPT ![query[r].session].replies = Tail(query[r].question)]
    /\ GoOn(r, "generate")
    /\ UNCHANGED <<auditLog, sqlCache, asks, cutShort>>

\* What _resolve_generation can return: the tenant's cached answer if there is one,
\* whoever it was audited for; otherwise what the model says, audited for the user.
\* Refused are generation_failed, invalid_output and audit_rejected.
Outcome(status, candidate, auditedFor) ==
    [status |-> status, candidate |-> candidate, auditedFor |-> auditedFor]
Cached(question) == {e \in sqlCache : e.question = question}
Generations(user, question) ==
    IF Cached(question) # {} THEN {e.generated : e \in Cached(question)}
    ELSE {Outcome("refused", None, None), Outcome("clarification_required", None, None)}
         \cup {Outcome("audit_passed", c, user) : c \in {x \in Candidates : Allowed(x, user)}}

Passed(q) == q.generated.status = "audit_passed"
Unclear(q) == q.generated.status = "clarification_required" /\ q.session = None
AfterGenerate(q) ==
    IF Unclear(q) THEN {"session"}
    ELSE IF ~ Passed(q) THEN {"audit"}
    ELSE IF q.session # None THEN {"resolve"} ELSE {"execute", "audit"}

Generate(r) ==
    /\ query[r].at = "generate"
    /\ \E g \in Generations(query[r].user, query[r].question) :
          LET q == [query[r] EXCEPT !.generated = g]
          IN  \E at \in AfterGenerate(q) : query' = [query EXCEPT ![r] = [q EXCEPT !.at = at]]
    /\ UNCHANGED <<clarification, auditLog, sqlCache, asks, cutShort>>

\* create_clarification_session.
OpenSession(r, d) ==
    /\ query[r].at = "session"
    /\ clarification[d] = None /\ \A e \in 1..(d - 1) : clarification[e] # None
    /\ clarification' = [clarification EXCEPT ![d] =
         [user |-> query[r].user, question |-> Head(query[r].question), replies |-> <<>>,
          status |-> "awaiting", ref |-> None]]
    /\ GoOn(r, "audit")
    /\ UNCHANGED <<auditLog, sqlCache, asks, cutShort>>

Record(q, status, ranFor) ==
    auditLog' = Append(auditLog, [user |-> q.user, status |-> status, ranFor |-> ranFor,
                                  candidate |-> IF ranFor = None THEN None ELSE q.generated.candidate])

\* What follows the audit row, in a follow-up and otherwise.
AfterAudit(r, next) ==
    query' = [query EXCEPT ![r] =
        CASE next = "free" -> Idle
          [] next = "result" -> [@ EXCEPT !.at = "result", !.ref = Len(auditLog) + 1]
          [] OTHER -> [@ EXCEPT !.at = next]]

\* _write_generation_audit_row.
CommitAudit(r) ==
    LET q == query[r]
    IN  /\ q.at = "audit"
        /\ Record(q, IF Passed(q) THEN "audited" ELSE q.generated.status, None)
        /\ AfterAudit(r, IF ~ Passed(q) THEN "free" ELSE IF q.session # None THEN "result" ELSE "store")
        /\ UNCHANGED <<clarification, sqlCache, asks, cutShort>>

ExecuteMutCached(r) ==                \* executes what the cache holds
    LET q == query[r]
    IN  /\ q.at = "execute"
        /\ Record(q, "executed", q.generated.auditedFor)
        /\ AfterAudit(r, IF q.session # None THEN "result" ELSE "free")
        /\ UNCHANGED <<clarification, sqlCache, asks, cutShort>>

\* execute_readonly_sql: the candidate is audited again, for this caller; then MySQL
\* returns rows or an error, always an error when it cannot resolve a condition.
Execute(r) ==
    LET q == query[r]
    IN  /\ q.at = "execute"
        /\ \/ /\ Allowed(q.generated.candidate, q.user) /\ Resolves(q.generated.candidate, q.user)
              /\ Record(q, "executed", q.user)
           \/ Allowed(q.generated.candidate, q.user) /\ Record(q, "failed", None)
           \/ ~ Allowed(q.generated.candidate, q.user) /\ Record(q, "rejected", None)
        /\ AfterAudit(r, IF q.session # None THEN "result" ELSE "free")
        /\ UNCHANGED <<clarification, sqlCache, asks, cutShort>>

\* resolve_clarification_session without a result, before the statement is run.
Resolve(r) ==
    /\ query[r].at = "resolve"
    /\ clarification' = [clarification EXCEPT ![query[r].session].status = "resolved"]
    /\ \E at \in {"execute", "audit"} : GoOn(r, at)
    /\ UNCHANGED <<auditLog, sqlCache, asks, cutShort>>

AfterResult(r) ==
    IF auditLog[query[r].ref].status = "audited" THEN GoOn(r, "store") ELSE Done(r)

ResolveWithResultMutStale(r) ==       \* names the latest row of the log
    /\ query[r].at = "result"
    /\ clarification' = [clarification EXCEPT ![query[r].session].status = "resolved",
                                              ![query[r].session].ref = Len(auditLog)]
    /\ AfterResult(r)
    /\ UNCHANGED <<auditLog, sqlCache, asks, cutShort>>

\* resolve_clarification_session again, with the audit row as the result.
ResolveWithResult(r) ==
    /\ query[r].at = "result"
    /\ clarification' = [clarification EXCEPT ![query[r].session].status = "resolved",
                                              ![query[r].session].ref = query[r].ref]
    /\ AfterResult(r)
    /\ UNCHANGED <<auditLog, sqlCache, asks, cutShort>>

\* _store_nl2sql_cache; an answer that came from the cache is stored again.
Store(r) ==
    LET q == query[r]
    IN  /\ q.at = "store"
        /\ sqlCache' = (sqlCache \ Cached(q.question))
                        \cup {[question |-> q.question, generated |-> q.generated]}
        /\ Done(r)
        /\ UNCHANGED <<clarification, auditLog, asks, cutShort>>

\* The worker, the database or Redis fails: what is committed stays.
LoseQuery(r) ==
    /\ query[r] # Idle
    /\ cutShort' = cutShort \cup ({query[r].session} \ {None})
    /\ Done(r)
    /\ UNCHANGED <<clarification, auditLog, sqlCache, asks>>

\* The time to live of a cached answer ends.
ExpireAnswer(e) ==
    /\ sqlCache' = sqlCache \ {e}
    /\ UNCHANGED <<clarification, auditLog, query, asks, cutShort>>
-----------------------------------------------------------------------------
DialogueNext ==
    \/ \E r \in Requests :
         \/ \E u \in Callers, q \in Questions : BeginQuery(r, u, q)
         \/ \E d \in Sessions, t \in Replies : BeginFollowUp(r, d, t)
         \/ CommitReply(r) \/ Generate(r) \/ CommitAudit(r) \/ Execute(r)
         \/ Resolve(r) \/ ResolveWithResult(r) \/ Store(r) \/ LoseQuery(r)
         \/ \E d \in Sessions : OpenSession(r, d)
    \/ \E e \in sqlCache : ExpireAnswer(e)

DialogueSpec == DialogueInit /\ [][DialogueNext]_dialogueVars
-----------------------------------------------------------------------------
\* What a table may show a user: apply_data_scope, and the company-wide metrics.
MayShow(row, table, user) ==
    \/ InDataScope(row, TableColumns[table], user)
    \/ table = "metric_catalog" /\ row.company = user.company /\ row.project = None

\* Every row of the tables a statement itself selects from that it returned to a user is
\* one the list endpoints would show that user too, whoever's answer the cache held and
\* whatever its own condition says.  Of the rows that SELECTs nested in it read, nothing
\* is said: execute_readonly_sql has only their tables and columns checked.
AnswersInScope ==
    \A i \in DOMAIN auditLog :
        LET a == auditLog[i]
        IN  a.status = "executed" =>
              \A combination \in [DOMAIN a.candidate.from -> Rows] :
                  Returns(a.candidate, combination, a.ranFor) =>
                      \A k \in DOMAIN a.candidate.from :
                          MayShow(combination[k], a.candidate.from[k].table, a.user)

\* A session that is resolved was replied to, within the limit, and names the audit
\* row of its own user's answer; except while that answer is being recorded, or when
\* a request was lost on the way.
ResolvedHasResult ==
    \A d \in Sessions :
        clarification[d] # None /\ clarification[d].status = "resolved" =>
            /\ Len(clarification[d].replies) \in 1..MaxReplies
            /\ IF clarification[d].ref # None
               THEN /\ auditLog[clarification[d].ref].user = clarification[d].user
                    /\ auditLog[clarification[d].ref].status \in {"audited", "executed", "failed", "rejected"}
               ELSE d \in cutShort \/ \E r \in Requests : query[r].session = d
=============================================================================
