------------------------------ MODULE SessionMemory ------------------------------
(***************************************************************************)
(* The conversation memory of one user's session (services/memory): the    *)
(* last messages, a context and a summary in Redis, with a time to live,   *)
(* and the count and summary once more in MySQL.  Every message is a read  *)
(* of Redis, a write of Redis and a transaction, in this order.            *)
(***************************************************************************)
EXTENDS Backend

CONSTANTS
    Contexts,       \* values of the context entry that is followed (project_id)
    Kept,           \* messages kept in Redis (20)
    MaxTurns        \* requests (bound)

Speakers == {"user", "assistant"}
SessionKeys ==
    [messages : Seq([no : Nat, role : Speakers]), count : Nat, context : Contexts \cup {None},
     summary : Nat \cup {None}]
SummaryRows == [count : Nat, summary : Nat \cup {None}]

ASSUME MemoryAssumption ==
    /\ Kept \in Nat \ {0} /\ MaxTurns \in Nat
    /\ None \notin Nat /\ None \notin Contexts /\ None \notin SessionKeys \cup SummaryRows

VARIABLES
    inRedis,        \* the session key: None, or messages, count, context, summary
    summaryRow,     \* agent_session_summary: None, or count and summary
    turn,           \* the local state of each open request
    turns,          \* requests so far; a turn's number stands for its texts
    said,           \* history: what was appended since the key last expired, until requests overlap
    overlapped,     \* history: two requests, or a request and an expiry, overlapped
    torn            \* history: a request failed between its two writes

memoryVars == <<inRedis, summaryRow, turn, turns, said, overlapped, torn>>

\* cached is what Redis returned, todo the messages still to append.
NoTurn == [at |-> "free", no |-> 0, todo |-> <<>>, context |-> None, cached |-> None]

MemoryInit ==
    /\ inRedis = None /\ summaryRow = None
    /\ turn = [r \in Requests |-> NoTurn]
    /\ turns = 0
    /\ said = <<>> /\ overlapped = FALSE /\ torn = FALSE

InTurn(r) == turn[r] # NoTurn
Someone == \E r \in Requests : InTurn(r)

\* merge_session_context: a value that is given replaces the one that is there.
Merge(existing, incoming) == IF incoming # None THEN incoming ELSE existing
ContextOf(session) == IF session = None THEN None ELSE session.context

StartTurn(r, todo, context) ==
    /\ ~ InTurn(r) /\ turns < MaxTurns
    /\ turns' = turns + 1
    /\ turn' = [turn EXCEPT ![r] =
         [at |-> "get", no |-> turns + 1, todo |-> todo, context |-> context, cached |-> None]]
    /\ overlapped' = (overlapped \/ Someone)
    /\ UNCHANGED <<inRedis, summaryRow, said, torn>>

\* POST /agent/ask and /agent/nl2sql: prepare_request_context reads the session (of a
\* MySQL row only the summary is left), the request is served (see AgentDag and
\* Nl2sqlDialogue), and both sides of it are recorded with that context.  Without a
\* session_id or a Redis client nothing is read or recorded.
BeginAsk(r, incoming) ==
    StartTurn(r, <<"user", "assistant">>, Merge(ContextOf(inRedis), incoming))

\* POST /memory/session: one message, with or without a summary.
BeginUpsert(r, role, incoming) == StartTurn(r, <<role>>, incoming)

\* append_session_memory, first step: the key is read.
GetKey(r) ==
    /\ turn[r].at = "get"
    /\ turn' = [turn EXCEPT ![r].at = "set", ![r].cached = inRedis]
    /\ UNCHANGED <<inRedis, summaryRow, turns, said, overlapped, torn>>

Message(t) == [no |-> t.no, role |-> Head(t.todo)]
Summary(t) == IF Head(t.todo) = "assistant" THEN t.no ELSE None
Messages(t) == Append(IF t.cached = None THEN <<>> ELSE t.cached.messages, Message(t))
LastOfMutFirst(s, n) == IF Len(s) <= n THEN s ELSE SubSeq(s, 1, n)

\* messages[-n:]
LastOf(s, n) == IF Len(s) <= n THEN s ELSE SubSeq(s, Len(s) - n + 1, Len(s))

\* The session as it is written back.  The count is that of the kept messages and
\* the new one, and the summary of a key that expired is not fetched from MySQL.
Extended(t) ==
    [messages |-> LastOf(Messages(t), Kept),
     count |-> Len(Messages(t)),
     context |-> Merge(ContextOf(t.cached), t.context),
     summary |-> IF Summary(t) # None THEN Summary(t)
                 ELSE IF t.cached = None THEN None ELSE t.cached.summary]

\* setex: the key is overwritten with what was read plus one message.
SetKey(r) ==
    /\ turn[r].at = "set"
    /\ inRedis' = Extended(turn[r])
    /\ said' = IF overlapped THEN <<>> ELSE Append(said, [message |-> Message(turn[r]), context |-> turn[r].context])
    /\ turn' = [turn EXCEPT ![r].at = "row"]
    /\ UNCHANGED <<summaryRow, turns, overlapped, torn>>

AfterRow(t) ==
    IF Len(t.todo) = 1 THEN NoTurn
    ELSE [t EXCEPT !.at = "get", !.todo = Tail(@), !.cached = None]

RowMutSummary(t) == [count |-> Len(Messages(t)), summary |-> Summary(t)]

\* The row that is found or inserted: a summary that is not given is kept.
Row(t) ==
    [count |-> Len(Messages(t)),
     summary |-> IF Summary(t) = None /\ summaryRow # None THEN summaryRow.summary
                 ELSE Summary(t)]

CommitRow(r) ==
    /\ turn[r].at = "row"
    /\ summaryRow' = Row(turn[r])
    /\ turn' = [turn EXCEPT ![r] = AfterRow(@)]
    /\ UNCHANGED <<inRedis, turns, said, overlapped, torn>>

\* Redis or the database fails, a second insert of the row meets the unique index,
\* or the worker is lost: the transaction is rolled back, Redis keeps what it has.
FailTurn(r) ==
    /\ InTurn(r)
    /\ torn' = (torn \/ turn[r].at = "row")
    /\ turn' = [turn EXCEPT ![r] = NoTurn]
    /\ UNCHANGED <<inRedis, summaryRow, turns, said, overlapped>>

\* The time to live of the key ends.
ExpireKey ==
    /\ inRedis # None
    /\ inRedis' = None /\ said' = <<>>
    /\ overlapped' = (overlapped \/ Someone)
    /\ UNCHANGED <<summaryRow, turn, turns, torn>>
-----------------------------------------------------------------------------
MemoryNext ==
    \/ \E r \in Requests :
         \/ \E c \in Contexts \cup {None} :
              \/ BeginAsk(r, c)
              \/ \E role \in Speakers : BeginUpsert(r, role, c)
         \/ GetKey(r) \/ SetKey(r) \/ CommitRow(r) \/ FailTurn(r)
    \/ ExpireKey

MemorySpec == MemoryInit /\ [][MemoryNext]_memoryVars
-----------------------------------------------------------------------------
\* Requests that do not overlap each other or an expiry lose nothing: the session
\* holds the latest messages said since it last expired, in that order, and the
\* context entry last named in them.  (Of two overlapping requests one is lost.)
SessionFollowsUnlessOverlapped ==
    inRedis # None /\ ~ overlapped =>
        /\ LET n == IF Len(said) < Kept THEN Len(said) ELSE Kept
           IN  inRedis.messages = [i \in 1..n |-> said[Len(said) - n + i].message]
        /\ LET named == {i \in DOMAIN said : said[i].context # None}
           IN  inRedis.context = IF named = {} THEN None
                                 ELSE said[CHOOSE i \in named : \A j \in named : j <= i].context

\* Between requests the row in MySQL tells the same story as the key in Redis, as
\* far as it tells one: the count (which is no longer that of all messages once the
\* window is full) and the summary; unless requests overlapped or one failed
\* between the two writes.
CopiesAgreeUnlessTorn ==
    inRedis # None /\ ~ overlapped /\ ~ torn /\ ~ Someone =>
        /\ summaryRow # None /\ summaryRow.count = inRedis.count
        /\ inRedis.count <= Kept + 1
        /\ inRedis.summary # None => summaryRow.summary = inRedis.summary
=============================================================================
