# Formal model of the construction-site safety platform

TLA+ modules, TLC configurations and TLAPS proofs for the backend under
`src/backend/app`. Every definition is translated from the source and
`PROJECT.json` ("map") names its lines; this document says what is modelled, how
to read it, what the checks and proofs show, and what is not covered.

Contents: 1 the system · 2 inventory · 3 modules and code · 4 runs and bounds ·
5 properties · 6 divergences found · 7 fairness and deadlock · 8 proofs ·
9 what is left out · 10 plan

## 1. The system

A FastAPI application over MySQL (SQLAlchemy sessions, `autoflush=False`) and
Redis, with optional Milvus, Neo4j and a language model behind adapters. Handlers
are synchronous functions that run in a thread pool, and several workers may serve
one database, so any two requests may overlap.

One fact about the database shapes every model here. Each request owns one
session. The permission dependency queries first, so InnoDB's REPEATABLE READ
snapshot is as old as the request. The handler checks and computes on that
snapshot, and what it changed becomes visible at COMMIT, as `UPDATE ... WHERE
id = ?` of the columns whose value differs from the one that was read. There is no
version column and no `SELECT ... FOR UPDATE` in the repository, so nothing
compares a row at COMMIT with the row that was read. A handler is therefore two
steps in the models, a *Begin* (or *StartType*) that takes the snapshot and makes
the checks, and a *Commit*; any other request may commit in between, and a failure
in between is a rollback.

Elsewhere one request writes to two places (Redis and MySQL, MySQL and Milvus, MySQL
and Neo4j, a row and an HTTP call) or commits several times. Nothing makes these writes
one: each is a step of its own in the models, and the request may be lost between any
two.

## 2. Inventory

State, operations, interactions, what is hard, and what makes each part correct.

| Component | State | Operations | Talks to | Hard behaviour |
|---|---|---|---|---|
| Work orders (`services/work_orders`, `domain/work_orders.py`, `domain/hazard_workflow.py`, `core/permissions.py`) | `safety_work_order`, `work_order_flow_log` | create, confirm, accept, submit_result, review_pass, review_reject, escalate | hazards, profiles, rules; called by the approval queue | stale transitions, escalation racing a submit, NULL subcontractors |
| Hazards (`services/hazards`) | `hazard` | report (with its order); closed by a review only | work orders | hazard and order must close together |
| Rule triggers (`services/rules`) | rule-created orders, `rule_trigger_log` | create orders for fired rules unless an open one exists | profiles, work orders | check-then-insert |
| Profiles (`services/profiles`, `domain/risk.py`, `weights.py`, `dynamic_factors.py`) | three `*_risk_profile` tables | read, rank, recalculate (project, then worker, then subcontractor, one transaction each) | rules, cache | find-or-insert, partial column updates, one type failing after another committed |
| Profile cache (`infrastructure/cache.py`) | Redis `cache:profile:*` with time to live and a negative marker | read-through, delete before COMMIT | profiles | stale refill, outage in mid-loop |
| Agent router, registry, DAG executor (`services/agents`) | `agent_dag_run`, `agent_dag_step_run` | ask: classify, plan, evaluate, commit | approval queue, read services | four places decide whether a step runs |
| Approval queue (`approval_queue.py`) | `agent_approval_request` | queue, approve, reject, execute | work orders | decision races, effect and mark in two transactions |
| Prompt registry, feedback (`prompt_registry.py`) | `agent_prompt_version` | sync from the file, activate, serve | router | two activations, a sync that meets one |
| Conversation memory (`services/memory`) | Redis session, `agent_session_summary` | append, keep the latest, resolve a follow-up | router, NL2SQL | read-modify-write, two copies |
| NL2SQL (`services/nl2sql`) | `nl2sql_clarification_session`, audit rows, answer cache | generate, audit, execute, clarify, record | memory | an answer cached for another scope, five commits in a request |
| Webhooks (`services/webhooks`) | `webhook_delivery_log` | test, rule trigger, overdue order, overdue batch | work orders | crash between the steps, late answers, batches |
| Cases and vectors (`services/cases`, `services/rag`) | `accident_case_library`, Milvus collection | import, re-ingest, search | attribution | import racing re-ingestion |
| Case backtest (`services/cases/backtest.py`) | – (a report) | indicators to facts, rate, judge | risk rules | thresholds that live in three places |
| Knowledge graph (`services/graph`) | Neo4j nodes and edges | sync, neighbours | profiles, attribution | statement order, half a sync |
| Accident attribution (`domain/bayesian`, `services/bayesian`) | `cpt_learned.json` | train, analyse by L2 or L3 | cases, profiles, graph | a file read while it is written |
| Authentication (`core/security.py`, `core/rbac.py`, `services/auth`) | tokens, `user_account`, `auth_role`, `user_role` | login, OAuth, refresh, permission check, seed | everything | tokens that outlive an account |
| Reports, dashboard, metrics, scale tools | – | read-only or offline | – | – |
| Frontend, scripts, migrations | – | – | – | – |

Each component with its status is in `PROJECT.json` ("components"), and each
thing that is hard to test is listed at its line under "hazards", with the
properties that catch it or the reason why none does yet.

## 3. Modules and code

```
WorkOrderDomain ── WorkOrderFlow ──┬── WorkOrderProperties ──┬── MCWorkOrder
                                   │   (implements           └── WorkOrder_proofs
                                   │    RectificationRecord)
                                   └── AgentApproval ── AgentProperties ──┬── MCAgent
                                                                         └── AgentApproval_proofs
RiskScores ── ProfileFlow ── ProfileProperties ──┬── MCProfile
                                                 └── ProfileFlow_proofs
Backend ─┬─ WebhookDelivery ── WebhookProperties ──┬── MCWebhook
         │    (implements DeliveryLedger)          └── WebhookDelivery_proofs
         ├─ AgentDag ── AgentDagProperties ──┬── MCServices
         │    (implements AskContract)       └── AgentDag_proofs
         ├─ AuthSessions, PromptRegistry ──┬── MCServices
         │                                 └── Administration_proofs
         ├─ SessionMemory, CaseLibrary, GraphSync,
         │  AccessScope ── SqlAudit ── Nl2sqlDialogue ──┬── MCServices
         │                                              └── Services_proofs
         └─ Attribution,
            CaseBacktest (with RiskScores) ──┬── MCServices
                                             └── Analysis_proofs
```

An operator with `Mut` in its name is a deliberately broken variant of the
definition it stands before. No specification uses it; it shows that a property
fails when the code has that bug.

**WorkOrderDomain** has no state: the transition table, the role × action matrix
and the membership checks, with SQL NULL as the constant `None`.

**WorkOrderFlow** is the workflow as overlapping requests run it. `orders`,
`hazards`, `flowLog` and `profiles` are the tables, `session[r]` is the request's
open transaction. `CreateHazard` and `CreateWorkOrder` only insert and are one
step; what is posted may name any project in scope, subcontractor, rule and source
(`Bodies`), the source being a hazard, the project itself (`own`, as a rule's order has
it) or something else. With one session in an instance they are the one request too. `BeginTransition`/`CommitTransition` are `transition_work_order`;
`BeginReviewPass`/`CommitReviewPass` the review that closes order and hazard,
flushes, recalculates the project and commits once (`Flushed` is the session's own
view after the flush). `BeginEscalate`/`CommitEscalate` are the escalation, which
writes no flow log, and `BeginRecalculate`/`CommitRecalculate` the recalculation
with the rule orders it creates. `Abort` is every exception, lost connection or
crash before COMMIT.

**RectificationRecord** is what orders and hazards tell their readers, without requests,
views or transactions: the steps on record of each order, none before the one it needs,
the status they allow to show, and the hazard that closes in the same step as the review
of its order passes. `WorkOrderProperties` maps the tables and the flow log to it.

**AgentApproval** composes the queue with `WorkOrderFlow`: `approvals` is the
queue, `agent[r]` the approval endpoint a request serves, `effects` a history
variable. A request keeps its target and what else its payload says of project, rule and
source (`Asked`); `CreateBody` is the order that the payload, before the target, makes of
it. The execution runs the ordinary handler, which commits, and then
`RecordExecution` marks the request in a second transaction. With `Faults`, a
worker or a connection may be lost anywhere (`LoseRequest`, `LateFailure`).

**AgentDag** is one `POST /agent/ask`: classification and planning are operators
over *classes* of keywords, context fields and the caller; `EvaluateStep` is one
iteration of the executor, `CommitRun` its single COMMIT, `FailAsk` a rollback.

**RiskScores** is the arithmetic of the three calculators with the weights,
factors and rules of `config/`, in integers: scores in hundredths of a point,
ratios in ten-thousandths.

**ProfileFlow** is reading and recalculating profiles on one calendar day. `rows`
has today's rows of each key (subject, project), in insertion order. `Lookup` and
`Fill` are the two halves of `read_profile_cache`; `StartType`, `Invalidate` (one
per subject, before the COMMIT) and `CommitType` are one type of a recalculation,
`NextType` opens the next type's transaction. `Insertable` is the three unique
indexes, which do not apply to a NULL project. `Written` inserts, or updates just
the columns that changed. `past` and `raced` are history variables.

**Backend** holds the two constants the modules below share. Each of them has its
properties at its end.

**WebhookDelivery** is a dispatch in its three steps per event: `CreateLog` commits the
row as pending, `Send` is the HTTP exchange, `Finalize` the second transaction; a batch
(`Batches`) goes on with the next order. The receiver may have processed an event whose
answer came too late (`Exchanges`). `LoseDispatch` is a lost worker or an exception no
handler expects. **DeliveryLedger** is what the log promises, without requests or
batches, and `WebhookProperties` maps the tables to it.

**AskContract** is the abstract agent endpoint: an ask gets the status it deserves, and
the queue gets the write it waits for in the same step. `AgentDag` implements it
(`KeepsContract`); planner, registry, access check and executor are four places in the
code that have to agree for that.

**SessionMemory** is one session: `GetKey`, `SetKey` and `CommitRow` are the read of
Redis, the write of Redis and the transaction of one message, `FailTurn` a failure
between them, `ExpireKey` the end of the time to live.

**AccessScope** and **SqlAudit** are operators: what `apply_data_scope` returns to a
user, which candidate statements `audit_sql` refuses and which condition it adds, and
what the statement then returns. The audit walks into nested SELECTs (`TablesOf`,
`TermsOf`) but appends every condition to the outer WHERE, so a statement with one runs
only if the names of those conditions resolve there (`Resolves`), the rows of its own
tables are filtered (`Scoped`), and those the nested SELECT reads are not.
**Nl2sqlDialogue** is the request in the order of its
commits: `BeginQuery` or `BeginFollowUp` and `CommitReply`, `Generate` (cache or model),
`CommitAudit`, `Execute`, `Resolve` and `ResolveWithResult`, `Store`, or `OpenSession`.

**PromptRegistry**: `BeginSync`/`CommitSync` register the texts of the file as new
versions, `BeginActivate`/`CommitActivate` switch the active one; `EditPrompt` changes
the file.

**CaseLibrary**: `BeginImport`/`CommitImport` upsert a batch, `ReadCases`, `Upsert` and
`Mark` are the three steps of a re-ingestion (rows selected and the session closed,
vectors written, rows marked), `Hits` is the search with its fallback to MySQL.

**GraphSync**: a sync goes through the kinds of rows in the order of the source
(`Phase`, `NextRows`; within a kind, the order MySQL returns) and makes for each row the
MERGE statements `StatementsOf` it. `row` is the row begun and `Advance` what is left of
the sync; `RunStatement` runs one statement, a transaction of its own. `Neighbors` is what
the endpoint shows.

**AuthSessions**: `Login`, `OAuthCallback`, `Refresh` and `IssuePair` hand out tokens,
`BeginCall` is the check of a token, its account and a permission, `Administer` and
`Seed` change accounts and roles.

**Attribution**: the access to the project (403), the gate on the number of cases, the
choice of the level, the project's profile, which must exist (404), evidence from the
three kinds of profile, each with its own level, and from the graph, both inferences with
their divisions (`Shares`), training (`BeginTrain`, `OpenFile`, `WriteFile`:
the file is empty in between). **CaseBacktest** reads a case's indicators one by one and
judges it with the calculators of `RiskScores`.

**MCServices** composes these nine services. They share no state beyond what their
modules say, so a behaviour chooses one in its initial state (`service`), and the state
spaces add up instead of multiplying.

Abstractions that need an argument:

- **Data.** Rows of `rule_trigger_log`, responsible users, due and review times,
  uploaded files and all texts are left out: no modelled guard reads them. Dates
  are a set (`PastDue`), and any processing order may be late, which over-approximates
  the clock.
- **Scope.** Company and tenant filters are a set of projects per caller; a row
  whose project is NULL is visible only to a caller whose set names `None`; in the
  approval queue, to the callers in `CompanyWide`, whom no list of projects filters.
- **Keys.** Fresh keys come from finite sets. A COMMIT that needs one when none is
  left cannot happen, so runs that create many orders have spare keys.
- **One step for the second transaction.** `RecordExecution` reads and writes in
  one step: it overwrites unconditionally, so a writer in between gives an outcome
  that an order of whole steps gives as well.
- **Rule orders of profiles.** `WorkOrderFlow` takes from the project's profile
  what changes during a day (overdue and major overdue hazards) and the rules they
  fire; `ProfileFlow` has the rows and scores of all three types without the orders.
- **Rounding.** Python's `round` and the binary fractions differ from `RiskScores` only on
  exact ties, which are rounded up here.
- **Statements.** A SQL statement is its tables with aliases, its columns and its
  comparisons with literals, joined by AND or by OR, and the tables and comparisons of the
  SELECTs nested in its select list and conditions; the language model may propose any of
  a set of them. SELECTs in FROM, unions, parsing, LIMIT and masking are left out.
- **Bodies.** An identifier that no row has counts as none, and of the sources an order
  can name only the hazard and the project are told apart, because closing and the
  duplicate check look at these.
- **Numbers of the attribution.** Signals and factor weights are whole percentages. A
  probability that is served is a pair, parts and their total, and two answers are
  compared as fractions: the raise of the named type by 1.35 is 27 to 20, the cap at 95
  percent 19 to 20, and each answer is divided by its own total after both. Rounding to
  four and six places is left out.
- **A case** is one text that stands for all its columns; every query matches it, so
  ranking plays no part.
- **Inputs never sent.** The agent never asks for the action `timeout`, the queue
  drops `attachments` (so it cannot submit a result), and no code produces the
  statuses `rejected` (orders), `expired`, `cancelled` (approvals) or `failed`
  (DAG steps).

## 4. Runs and bounds

| Run | Instance | States | Question |
|---|---|---|---|
| `interleaved` | 2 requests, 1 order, 1 hazard, all endpoints, log ≤ 7 | 151 305 | What holds however requests overlap? |
| `two_orders` | 2 requests, 2 orders naming 1 hazard, log ≤ 5 | 386 596 | Do orders and hazards close together? |
| `one_at_a_time` | 1 request, 3 orders, 2 hazards, all endpoints, log ≤ 5 | 490 970 | What holds when handlers do not overlap? |
| `overlap` | 2 requests, 1 order, patch and escalation | violation | Are statuses only changed along the table? |
| `duplicate_rule_order` | 2 requests, 3 orders, recalculation | violation | Do recalculations never repeat an open rule order? |
| `agent_faults` | 2 requests, 1 approval, 2 orders, faults | 95 766 | What holds of the queue under overlap and loss? |
| `agent_one_at_a_time` | 1 request, 2 approvals, 3 orders | 144 856 | What holds when requests do not overlap? |
| `agent_executed_twice` | 2 requests, 1 approval, 3 orders | violation | Is an approval executed at most once? |
| `profile_cache` | 2 requests, 1 project, 1 worker of 1 subcontractor, 2 scopes, 1 change | 32 248 | What may cache and rows say, and does the cache heal? |
| `profile_torn_row` | 2 recalculations of 1 project, 2 changes | violation | Does every level fit its score? |
| `webhook` | 2 requests, 2 deliveries of 2 orders and 1 trigger, 2 scopes | 80 785 | Does the log keep the ledger, and does every delivery settle? |
| `services` | one of nine services, each with 2 overlapping requests | 756 619 | What does each of them keep under overlap and loss? |

`services` adds up: agent runs 276 033 states (every ask with 2 projects, 1 hazard and 1
order), memory 19 241, NL2SQL 108 350, prompts 85 186, cases 33 214, graph 92 720,
authentication 75 188, attribution 64 786, backtest 1 901.

Why these bounds. A race needs two requests and one row; two requests already give
every pair of handlers in every order, and each may be followed by any number of
later ones. `MaxLog` bounds how often an order goes round: 5 transitions are a
complete rectification, and 7 leave room for a rejection and a second submission
with a stale one in between. The callers of `MCWorkOrder` are the four kinds of
`project_user` row the matrix tells apart, including an officer without a
subcontractor; the tokens of all of them name none. `Major = {}` in the interleaved runs keeps rule orders from
exhausting the one or two keys; rule orders are exercised by `one_at_a_time` and
`duplicate_rule_order`. In `profile_cache`, the subcontractor is the subject that is
read (`Popular`), the recalculation names the project (`Filters`) and asks for
workers and subcontractors (`Wanted`), because that pair interacts: the
subcontractor's score counts the worker rows committed just before. A row of an
earlier day for the company-wide key makes the two scopes differ, and the worker's
facts change between 0 and 3 violations, across the raise to high. The project
calculator is exercised by `profile_torn_row`. With company-wide and project-wide
recalculations together (`Filters = {p1, None}`, 320 368 states, four minutes) the
same properties hold; there `RowsSoundUnlessRaced` meets the doubled rows without a
project, which the regular instance does not have.

In `webhook`, two deliveries are enough for a batch of two orders that is lost between
them, and for a single notice beside it. In `services`: the memory keeps two messages
(`Kept = 2`), so a second turn of two messages replaces those of the first; the dialogue has a
company-wide caller and an officer of one project, so an answer cached for the one is
asked for by the other, and the candidates are a join under OR, a table with
company-wide rows, a statement only one caller may run and two with a nested SELECT: one
in which the scope's conditions resolve for the company-wide caller alone, one in which
they never do; three prompt versions of two
agents allow a rollback and a further registration; the five batches of cases contain a
change of text, of tenant, a text removed and a case named twice; two syncs of the graph
overlap two changes in MySQL; three administrative changes suspend an account, empty a
role and undo one of them. `L2Min = 1` and `L3Min = 2` stand for 50 and 200 cases, so
that three changes of the library cross both; five requests for an analysis name a type
or none, lack the access or a profile, and ask for a level or leave it open. Four indicators exhaust the thresholds
the backtest combines. Symmetry is used where only
safety is checked.

## 5. Properties

*Work orders, any interleaving.* `StatusExplained`: a status is the one its last
log entry leads to, or an escalation that the history records. `StatusEarned`:
dispatch, acceptance, evidence and review are logged in that order (its last conjunct,
`NoStepSkipped`), and every status, in the table or in a stale view, is backed by the
log, whatever overwrote whatever. `HazardClosedByReview`,
`ClosedOrderClosesHazard`: hazards close through a review only, and an order that
closes takes its hazard with it. `KeepsRecord`: `WorkOrderFlow` implements
`RectificationRecord`, so every COMMIT, with all it writes to orders, log and hazards, is
one step of the record or none. `ActorsEntitled`: who acted belonged to the
subcontractor the order names, NULL never matching NULL.

*Work orders, handlers that do not overlap.* `LegalStatusChanges`, `LogIsOnePath`,
`HazardFollowsOrder`, `EvidenceKept`, `ProfileNotOverstated`. These say what serial
execution guarantees and thereby what overlap costs; none of them speaks of overlap
itself. `NoDuplicateRuleOrder`: a recalculation, alone or in a review, does not add an
open order for a rule, project and source that has one, posted by hand or not. It is about
steps, because `POST /work-orders` takes any rule and source and checks nothing: orders
posted by hand may repeat an open one even one at a time.

*Approval queue.* `NoEffectUnapproved`. `ExecutedMeansEffect`: what is marked executed has
had its effect, and the tables show it as the request asked, an order with the project,
the hazard, the rule and the source of its payload, which overrides the target's.
`OnlyOrdinarySteps`: every step of queue and workflow together is a step of `WorkOrderFlow` with the endpoints the executor calls, so the
queue opens no way around the workflow (a refinement, the mapping being the
identity on the tables). Without overlap: `ExecutedAtMostOnce`,
`RefusedMeansNoEffect`, `LegalApprovalChanges`; under overlap the code keeps none of the
three, and only what it costs is checked there.

*Agent runs.* `OnlyReadsExecuted`. `KeepsContract`: `DagSpec` implements
`AskContract`, the refinement mapping taking the ask, the run's status and the tools in
the queue; it fails as soon as one of planner, registry, access check and executor
disagrees with the others about any ask. `ReviewRequested`: a run that waits for a
person has a step marked for review.

*Webhooks.* `KeepsLedger`: `WebhookSpec` implements `DeliveryLedger`: written down
before sent, sent and settled at most once, `success` only for what the receiver took,
whatever times out, is lost or overlaps. `PendingExplained`: a row is pending only while
one request delivers it or because that request was lost, and what a batch has gone past
is settled. `Settles`: every delivery gets an outcome unless its request is lost.

*Memory.* `SessionFollowsUnlessOverlapped`: the session holds the latest messages in
their order and the context last named. `CopiesAgreeUnlessTorn`: the row in MySQL tells
the same story as the key in Redis.

*NL2SQL.* `AnswersInScope`: a row of a statement's own tables that was returned to a user
is one the list endpoints would show that user, whoever's answer the cache held and
whatever the statement's own WHERE says, OR and nested SELECTs included. It claims nothing
of the rows a nested SELECT reads, to which the audit adds no condition (section 9).
`ResolvedHasResult`: a resolved clarification names the audit row of its
own user's answer, unless a request was lost on the way.

*Prompts.* `OneVersionServedUnlessRaced`: an agent is served exactly the version last
registered or activated.

*Cases.* `SearchCurrentUnlessCrossed`: a search says of an embedded case what the library
says now, under the tenant it belongs to now.

*Graph.* `SyncedProjectIsComplete`: once a sync has completed that read the rows as they
are, the neighbours of an active project show every relation MySQL has, whatever syncs
failed half-way or overlapped it.

*Authentication.* `HandlersEntitledUnlessOvertaken`: whatever tokens are out, a handler
called with a bearer token runs only for an active account that an active role entitles as
the tables are now. Callers without a token, whom `auth_mode=mock` takes from the headers,
are not in it.

*Attribution.* `AutoServed`: who leaves the choice of the level open is never refused for
the level chosen. And of the probabilities served, each divided by its total, that of the
type named in the request is not lower than without the name, and no other is higher,
unless the named one stood above 95 percent, where the cap lowers it (`CutDown`).

*Backtest.* `PassingCaseKeepsPassing`: a further warning indicator never makes a passing
case fail, which needs the backtest's own thresholds, the rule files and the calculators
to move together.

The names with *Unless* state the exception that the code really has: they do not find
the overlap they exempt, they show that nothing else has its effect. The history
variables (`overlapped`, `torn`, `raced`, `crossed`, `cutShort`, `overtaken`,
`abandoned`) record just that: what these overlaps cost is described in section 9.

*Profiles.* `NothingInvented`: a cached answer is one the tables gave at some time.
`FreshUnlessRaced`: a cache entry disagrees with the tables only if somebody read
the subject while it was recalculated; deleting before the COMMIT is safe
otherwise, whatever fails. `RowsSoundUnlessRaced`: one row per key and the level of
its score, with the two exceptions the code has. `CacheHeals`: once recalculations
stop, the cache comes to agree with the tables and stays so.

## 6. Divergences found

Each is a run that TLC must find violated; the quoted lines are in `PROJECT.json`.

1. `overlap` / `LegalStatusChanges`: a transition that began before an escalation
   and commits after it takes the order out of `overdue_escalated`, a change that is
   not in the documented table.
2. `duplicate_rule_order` / `NoDuplicateRuleOrder`: two overlapping recalculations
   create two open orders for one rule, against the plan's acceptance criterion.
3. `agent_executed_twice` / `ExecutedAtMostOnce`: two overlapping executions of an
   approved create request make two orders; the plan says it cannot be repeated.
4. `profile_torn_row` / `LevelFitsScore`: two overlapping recalculations leave
   23.4 points with the level `high` in one row; the data dictionary defines levels
   by score interval.

## 7. Fairness and deadlock

The safety runs assume no fairness: a request may stop anywhere. `FairProfileSpec`,
used by `profile_cache` for `CacheHeals`, assumes two things. Weak fairness of
`Serve(r)` for each request: handlers contain no unbounded loop or wait, so a
request that was begun takes its next step or fails (`Fail` is a disjunct of
`Serve`). Weak fairness of `Expire(s)`: every fill is a SETEX with a time to live,
so Redis drops every entry eventually. Neither says that requests arrive or succeed.

`FairWebhookSpec`, used by `webhook` for `Settles`, assumes weak fairness of `Work(r)`,
the steps a dispatching worker takes by itself: the HTTP client has a timeout and the
loop runs over a finite batch. Losing the request (`LoseDispatch`) remains possible at
every step and is not fair; that is why the property exempts abandoned deliveries.

Deadlock is checked in `profile_cache`, where something can always happen
(requests begin for ever). It is switched off in the other runs, where an
instance really stops: in the work-order and approval runs when the keys and the log
bound are used up and every order is closed or escalated, in `webhook` when the rows of
the log are used up, in `services` when the one ask is answered or a bound on requests,
changes or cases is reached.

## 8. Proofs

TLAPS proves, for all values of the constants that satisfy the named assumptions,
every safety property and every refinement that a passing run checks. Each assumption
stands in the module that declares its constants, and TLC evaluates it on the instance:
`DomainAssumption`, `FlowAssumption`, `ApprovalAssumption`, `AsksAssumption`,
`ProfileAssumption`, `FactsAssumption`, `DagAssumption`, `AskAssumption`, `WebhookAssumption`,
`PromptAssumption`, `AuthAssumption`, `MemoryAssumption`, `CaseAssumption`,
`GraphAssumption`, `DialogueAssumption`, `AttributionAssumption`, `BacktestAssumption`.
They say that `None` is none of the values it stands beside, that bounds and facts are
numbers, that what is asked has the form of a request, which sets of names are disjoint
and which are finite. Two restrict the system:
`DialogueAssumption` has account users, whose project scope comes with the data scope
`org` (a development header user may combine others, see section 9), and
`GraphAssumption` has distinct keys for the nodes of different labels, as Neo4j does.

| Theorem | Statement |
|---|---|
| `TypeCorrect` | `Spec => []TypeOK` |
| `RowsAlwaysStand` | `Spec => []RowsStand` |
| `AlwaysEarned`, `NeverSkips` | `Spec => []StatusEarned`, `Spec => []NoStepSkipped` |
| `AlwaysExplained` | `Spec => []StatusExplained` |
| `AlwaysEntitled` | `Spec => []ActorsEntitled` |
| `ReviewedHazards`, `ClosedTogether` | `Spec => []HazardClosedByReview`, `Spec => []ClosedOrderClosesHazard` |
| `WorkflowKeepsRecord` | `Spec => KeepsRecord` (that is, `Record!RecordSpec`) |
| `LegalOneAtATime` | `OneRequest`: `Spec => LegalStatusChanges` |
| `OnePath`, `NoEvidenceLost` | `OneRequest`: `Spec => []LogIsOnePath`, `Spec => []EvidenceKept` |
| `HazardsFollow` | `OneRequest`: `Spec => []HazardFollowsOrder` |
| `OneOrderPerRule`, `NeverOverstated` | `OneRequest`: `Spec => NoDuplicateRuleOrder`, `Spec => []ProfileNotOverstated` |
| `AgentTypeCorrect` | `AgentSpec => []AgentTypeOK` |
| `ApprovedFirst` | `AgentSpec => []NoEffectUnapproved` |
| `QueueIsOrdinary` | `AgentSpec => OnlyOrdinarySteps` |
| `QueueAlwaysEarned`, `QueueKeepsGuarantees` | `AgentSpec => []` of `StatusEarned`; of `StatusExplained`, `ActorsEntitled`, `HazardClosedByReview` and `ClosedOrderClosesHazard` |
| `QueueKeepsRecord` | `AgentSpec => KeepsRecord` |
| `ExecutedIsDone` | `AgentSpec => []ExecutedMeansEffect` |
| `OnceEach`, `RefusedIsUndone` | `OneRequest`, `~ Faults`: `AgentSpec => []ExecutedAtMostOnce`, `AgentSpec => []RefusedMeansNoEffect` |
| `LegalDecisions` | `OneRequest`, `~ Faults`: `AgentSpec => LegalApprovalChanges` |
| `ExecutesOnlyReads`, `WaitingIsReviewed` | `DagSpec => []OnlyReadsExecuted`, `DagSpec => []ReviewRequested` |
| `AgentKeepsContract` | `DagSpec => KeepsContract` (that is, `Contract!ContractSpec`) |
| `FreshCache`, `CachedWasCommitted` | `ProfileSpec => []FreshUnlessRaced`, `ProfileSpec => []NothingInvented` |
| `SoundRows` | `ProfileSpec => []RowsSoundUnlessRaced` |
| `DeliveryImplementsLedger` | `WebhookSpec => KeepsLedger` (that is, `Ledger!LedgerSpec`) |
| `PendingAlwaysExplained` | `WebhookSpec => []PendingExplained` |
| `EntitledHandlers` | `AuthSpec => []HandlersEntitledUnlessOvertaken` |
| `OneVersionServed` | `PromptSpec => []OneVersionServedUnlessRaced` |
| `SessionFollows`, `CopiesStayTogether` | `MemorySpec => []` of `SessionFollowsUnlessOverlapped`; of `CopiesAgreeUnlessTorn` |
| `AnswersStayInScope`, `ResolvedNamesResult` | `DialogueSpec => []AnswersInScope`, `DialogueSpec => []ResolvedHasResult` |
| `SearchStaysCurrent` | `CaseSpec => []SearchCurrentUnlessCrossed` |
| `GraphShowsAll` | `GraphSpec => []SyncedProjectIsComplete` |
| `AutoAlwaysServed` | `AttributionSpec => []AutoServed` |
| `PassingStaysPassing` | `BacktestSpec => PassingCaseKeepsPassing` |
| `GraverProjectNoLowerLevel`, `GraverWorkerNoLowerLevel`, `GraverSubNoLowerLevel` | graver facts never give a lower level, by each of the three calculators |

`OneRequest` says that there is one request, one handler at a time (an insert takes the
free session too), for any number of orders, hazards, approvals and callers; `~ Faults` that no handler is lost between its
two transactions. These are the conditions of the runs `one_at_a_time` and
`agent_one_at_a_time`. That they are needed is what the runs of section 6 show.

*NeverSkips.* `NoStepSkipped` is not inductive: a stale request writes a status that
says nothing about the log. `StatusEarned` adds that every status in the table
*and in every open session's view* is backed by the log. It survives stale
writes because log entries are never lost: what a session saw was earned when it
looked and still is when it commits. There is one lemma per action, and
`LoggedEarned` is the step they share.

*Rows and sessions.* `RowsStand` says what overlap cannot disturb. `Linked`: an order or
a hazard that another row names exists, and the order made for a hazard names it back.
`StillTrue`: the tables still say what an open session saw, except for statuses, levels
and evidence, and a hazard that it saw closed is closed. `SessionStands`: the caller of
an open session may take the action on the order. The lemmas named `...Effects` state
once what each COMMIT does to tables and log; `AlwaysExplained`, `AlwaysEntitled`, `ReviewedHazards` and
`ClosedTogether` each go through them.

*WorkflowKeepsRecord.* A COMMIT writes what its session decided on an older view, and
must still be one step of the record. That the step it logs has the steps it needs on
record follows from `StatusEarned` (`RecordsStep`), as does that a status an escalation
saw was accepted; that the hazard a review closes is exactly the one its order was made
for, and still open or closed, follows from `Linked` and `StillTrue`. Views, aborts and
recalculations that fire no rule are stutters. *QueueKeepsRecord* is the same step by
step, because every step of the queue is one of the workflow.

*One request at a time.* With `OneRequest`, `AllFresh`: the open session saw the rows as
they are, because nobody else commits. The transition it found legal is legal at its
COMMIT (`LegalOneAtATime`), the log goes on where it ended (`OnePath`), and images are
merged into the list as it is (`NoEvidenceLost`). `OneOrderPerRule` and `NeverOverstated`
use it for the snapshot of a recalculation: the open rule orders and hazards it counted
are all there are. Overdue hazards only become fewer when one is closed, and then the
same transaction recalculates (`OwnProject` is the property's exception).

*ApprovedFirst.* Likewise `ApprovalBacked` says that whoever executes a request saw
it approved, and that `approved_at`, once set, stays, although the status may be
overwritten by a racing decision. *QueueIsOrdinary* maps every action of
the queue to one of the workflow or to a stutter; `QueueAlwaysEarned` and
`QueueKeepsGuarantees` then follow from the workflow's own step lemmas.
*ExecutedIsDone* needs `ExecutionBacked`: a handler that has committed and not yet marked
its request has recorded its effect, as asked; no step changes the columns of an order
that `CreateBody` fills in. Without overlap or faults, `Sole` says more: the
number of effects of a request is 1 once it is `Finished` (executed, or about to be marked
so) and 0 before, and whoever decides or executes a request serves one that is still
pending or approved.

*ExecutesOnlyReads.* `ReadsInv` adds that an ask starts without the results of an
earlier one and has one of the two modes; that a single step is harmless is a lemma
about `StepStatus` alone (`StepHarmless`), for any plan.

*AgentKeepsContract.* `PlanShape`: a plan that is not for a restricted wish consists of
plain steps that depend on earlier ones only, followed by the write, if one is asked for.
`PlainGoesWell` and `WriteWaits` say what the executor makes of either kind when
everything before went well. `ContractInv` carries this along the run, together with the
queue entries of the open transaction; `DeservedStatus` is the commit and `ContractStep`
the refinement. A plan that is blocked as a whole needs no shape. *WaitingIsReviewed*
takes from the same invariant which step it is that waits.

*FreshCache.* `FreshInv` follows the subjects outside `raced`: a reader's snapshot
is still what the tables say (`ReadersCurrent`), no reader and recalculation
share the subject (`RacesNoted`), and what a recalculation has deleted stays out of
the cache until it commits (`StayInvalid`). At the COMMIT the entry of such a
subject is therefore missing; `SameAnswers` shows that the COMMIT does not touch
the answers about any other subject. *CachedWasCommitted* needs `PastInv`
besides: current answers, and the snapshots of open readers, are among the
answers given so far. *SoundRows* rests on `SoundInv`: for a subject that no two requests
worked on at once (`OverlapsNoted`), what a recalculation is about to write was computed
from the rows as they are and is sound itself (`WritesSound`).

*DeliveryImplementsLedger* needs `WebhookInv`: the delivery a request works on is its
own (`OwnDelivery`), pending and, before it is sent, unsent; its result is `success` only
if the receiver took it. Every step of the dispatcher is then a step of the ledger or a
stutter (`StepImplements`). *PendingAlwaysExplained* adds `SettledBatch`, that the rows a
batch has gone past have an outcome; `SettledStays` is why they keep it when another
request finalizes.

*OneVersionServed.* `PromptInv` says what a request may rely on while it is alone: the
rows it read are the rows as they are (`SeesAll`), so what it archives is all that is
active. *EntitledHandlers* needs no word about tokens: `BeginCall` reads the tables
again, and every change of accounts or roles overtakes the handlers that are running
(`ChangeOvertakes`).

*Memory, dialogue, cases, graph.* `MemoryInv` has the shape of `PromptInv`: unless turns
overlapped, what a turn has read is what Redis holds, so writing it back only adds.
`DialogueInv` says that a statement was audited for the user it was executed for
(`AuditedForUser`, cached or not) and that a request which follows up goes on with a
session of its own user and names its own audit row; *AnswersStayInScope* then then is a fact
about one statement, that each row of its own tables satisfies the condition `audit_sql`
added to the bracketed WHERE, whatever is nested inside. `CaseInv` follows a row from its selection to its mark: unless
scripts crossed, it still is what was read (`SeenIsNow`), then what was stored
(`StoredIsNow`), and a mark means a vector of the present text and tenant. `GraphInv` says
of a sync that read the present rows that each of their statements holds in the graph or
is left to run, a row's node first (`Progress`); nothing is ever deleted, so other syncs
do no harm, and an edge finds both its ends because their kinds come first.

*Analysis.* The attribution adds up weights, scores and cases with the fold of the
community modules. `SumsExist`, `FixedSum` and `NaturalSum` show that such a sum over a
finite set of natural numbers exists and is a natural number, `ShiftedSum` that raising
one part by an amount raises the sum by as much. `RaisedShares` is the argument of
*AutoAlwaysServed*: if one part grows and the others stay, its fraction of the new total is
no less and theirs are no more. `ExpertScoresRaised` and `LearnedScoresRaised` apply it to
the two inferences; for L3 the cap at 95 percent leaves the part no smaller unless it was
above that. TLC does not reach the cap, which takes four cases of one type; there the
proof alone stands. `AttributionInv` is that the learned tables, in the file and in the
hands of whoever is writing them, hold natural numbers, that a caller who waits for a
calculation with them found a file, and the two promises of the answers given.
*PassingStaysPassing* goes through the three calculators:
a further indicator makes the facts graver (`GraverReading`), graver facts never lower the
level, keep the expected rules expected (`ExpectedGrows`) and the rules of the files that
they name triggered (`ExpectedFires`). The three theorems on levels are stated for all
facts, not only for those a backtest reads.

Each invariant was checked by TLC before it was proved.

What stays with TLC: the two liveness properties (`CacheHeals`, `Settles`), because
liveness under fairness and ENABLED are beyond this prover, and the four properties of
section 6, which do not hold. The library's induction theorems take an operator as a
parameter and cannot be used; where a proof needs induction over numbers or over a
finite set it takes the smallest counterexample instead (`SmallestOf`, `SumIsNatural`),
which the theorem on well-founded orders gives. No module has a RECURSIVE operator.

## 9. What is left out, and what the models tolerate

Not modelled: reports, dashboards, metrics and scale tools (read-only aggregation and
offline load tools), the frontend, scripts and migrations. Files on disk: pure I/O, with
one hazard noted. Agent feedback appends rows that only its own listing reads. Documents
are ingested by hand in one pass; chunking is text processing and ranking the vector
store's. The live OAuth mode answers 501 in the code. Uncalled code:
`save_task_checkpoint`, `record_webhook_delivery`, `update_work_order_status`. Enabling
any of these would need a module.

Behaviour that the code has, that no document forbids, and that the properties exempt:

- *Cache.* An answer stored by a reader of one scope is served to another's;
  `FreshUnlessRaced` accepts an answer that is right for any scope.
- *Webhooks.* Nothing is retried or resumed. A delivery that timed out is `failed`
  although the receiver may have taken it, and a lost one stays pending.
- *Memory.* The count saturates at `Kept + 1`, being computed from the window. Two
  overlapping messages lose one.
- *Rule orders.* `POST /work-orders` may make a second open order for a rule; only
  recalculations look for one.
- *NL2SQL.* The audit reads nested SELECTs for their tables, fields and literals, but puts
  every scope condition on the outer WHERE: what a nested SELECT reads is not filtered, or
  the statement fails because the condition names what is unknown there. SELECTs in FROM
  and unions are not modelled. The audit filters by organisation for the scope `org` only; a project-scoped
  account always has it, a development header user may not. The condition a cached answer
  shows may be the one of another caller's scope; the rows are filtered anew. A
  clarification whose request is lost between two commits stays resolved without a
  result, and one that used up its replies keeps waiting.
- *Prompts.* Overlapping activations leave two active versions or, after two more, none;
  then every sync fails on the version number. A sync after a rollback activates the
  file's text again.
- *Cases.* An import during a re-ingestion leaves a row marked although its vector has
  the former text; a row moved to another tenant keeps its vector there until it is
  embedded again.
- *Graph.* Nodes and edges of rows that are gone are never deleted. The neighbour query
  fetches at most 50 before hidden ones are dropped, and only project nodes carry the
  project that hides them. That two concurrent MERGEs without a constraint may make a node
  or an edge twice is not modelled.
- *Authentication.* With `auth_mode=mock`, the default, a call without a bearer token gets
  a user built from its headers, and with `rbac_enforce` off no permission is checked;
  neither is modelled. An account whose roles list no permissions falls back to the defaults
  of those roles; a refresh token is not replaced when used; the seed re-activates what
  was suspended.
- *Attribution.* One file of learned tables serves all tenants and is emptied before it
  is written, so a request that reads it then fails. Naming a type multiplies its
  probability by 1.35, cuts it at 95 percent and divides all by the new total, so every
  other type falls and a named one that was above 95 percent may fall too.
- *Backtest.* An examination score of 0 counts as none; an indicator that changes the type
  of profile drops the facts of the former one.

## 10. Plan

Done: the work-order core with hazards, rule orders and recalculation; the approval
queue over it; the record of the rectification that both implement; the agent run with
its contract; scores, profiles and their cache; webhooks with their ledger; the nine
services; the theorems of section 8.

Model-checked in part only: a token that names a subcontractor (half of what
`ActorsEntitled` says) would need callers that take the run `interleaved` past its time;
the theorem `AlwaysEntitled` covers it.

Left, in this order:

1. Two projects in the work-order instance, for the fallback of `_close_related_hazard`,
   which looks for a hazard by number without its project.
2. A bound for the sums in a subcontractor's profile, as the one of the attribution.
