# Verification of open-intent-router

TLA+ models, TLC configurations and TLAPS proofs for open-intent-router: the part that
keeps the state of a conversation consistent, the machinery around it that delivers,
retries, times out and recovers, and the algorithms that decide what a model or an agent
gets to read.

The repository is an HTTP service (FastAPI, SQLAlchemy over PostgreSQL/asyncpg; an
in-process "Memory" backend exists for tests and local use). A user request becomes a
Turn; a router chooses a direct reply, a Plan, or an agent; an external agent is handed a
Run with a deadline and reports back with events that may come late, repeatedly or never;
an agent the service calls itself answers at once. Finished Turns, Plans, Runs and Results
feed the long-term memory, which is kept in canonical rows and mirrored in an external
index. Several replicas of the service share the database, so every request handler and
background task is an actor, and a database transaction is the unit of atomicity.

## Inventory

| component | state | operations | what is hard | what makes it correct |
|---|---|---|---|---|
| Delegated Runs (`repositories/delegated_runs.py`, `turn_transactions.py`) | Run row (status, version, event sequence, last event) | start, progress, clarify, complete, fail, cancel, timeout | `complete` computes its writes from rows read before its transaction; commands are late or repeated | one Result per Turn; a terminal Run comes with its event, outbox row and Step; completed is final |
| their Memory backend | the same, in lists and dictionaries | the same | no locks and no unique keys; rollbacks by hand | a Turn is decided once |
| Deadline sweeper (`delegated_run_timeout_runtime.py`) | the batch in hand | list overdue, time out one by one | races with final events, crash in a batch, an error in a batch | every overdue Run ends |
| Canonical Turns (`turn_service.py`, `turns.py`, `turn_route_completion.py`) | status, version, references | start, attach, route-only completion | retried requests, several Runs of a Turn | a sealed Turn never reopens; every seal is announced |
| Router (`router_service.py`) | none of its own | route | attempts of one request overlap; the model may return anything | answers agree, targets are candidates, nothing is taken back |
| Plans and their executor (`plan_service.py`, `plan_executor.py`, `database.py`) | status, current Step, Step statuses, claim with a lease | create, confirm, cancel, execute, resume, claim, renew, finish, recover | lease expiry while the agent works; Plan read and rewritten as a whole | status and Steps fit together; a claim can be finished or recovered; the executor keeps to the dependencies |
| Canonical invocations, orphan reconciler (`canonical_invocations.py`, `invocation_service.py`, `orphan_turn_reconciler.py`) | Run, Result, Turn | start, complete; classify, repair | retries, handlers that die, repairs that race with the owner | one outcome per Turn, the same for everyone who asks |
| Turn outbox (`turn_outbox.py`) | event rows: attempts, claim, next attempt | add, claim, complete, fail | expired claim finishing late, retries, dead letters | an event is delivered or dead-lettered |
| Execution tickets, agent event intake, OAC adapter | ticket rows: status, claim, cursor | issue, claim, apply, consume, release, expire | a claim lost between two services | a ticket is consumed once, by an event that is stored; its cursor follows the Run |
| Execution trace (`execution_trace_service.py`, `execution_traces.py`) | an append-only list, gaps in the process | record, repair, snapshot, stream | failed writes, commits out of order, restarts | the trace never claims to be complete when it is not |
| Memory formation (`memory_formation*.py`) | captured Turns, jobs | capture, freeze, claim, finish | leases, late Turns | every Turn is in one job and formed with it |
| Structured formation | marks on Plans, Runs, Results; jobs; task memories | save, publish, mark, reconcile, process | none of it is one transaction | a task memory shows the last state and never goes back |
| Memory decisions and management (`memory_policy*.py`, `memory_management.py`) | open decisions, claims on them | evaluate, decide, confirm, reject | read, claim, apply and complete are calls of their own | memory rests on evidence; one change per revision |
| Memory lifecycle and index (`memory_lifecycle*.py`, `memory_index*.py`, repairs) | items, revisions, index operations, the external index | add, update, delete, index, retry, repair, govern | late workers, lost answers of the index, repairs beside workers | a deletion is final; index work is not forgotten |
| Context pipeline (`context_service.py`, `context_pipeline_service.py`, providers, `agent_context_service.py`) | one assembly | collect, govern, deduplicate, resolve, fit | slow and failing providers; order of the stages | the hard budget; nothing denied has influence |
| Knowledge handles | one-time handles, an expiry thread | issue, consume, expire, close | a thread and a condition variable | a body is given once, in time, and erased |
| Agent registry | definitions, audit records, a copy per process | create, update, delete, admin writes, load | optimistic revisions, fallbacks | records, rows and copies agree |
| Observability, HTTP API, configuration, LLM clients, prompts | none | read, wire, translate | text | not modelled |

`PROJECT.json` lists each component with its files, and 40 hazards: places in the code
where something hard to test can go wrong, each with the properties about it.

## Modules

| module | models | checked by | proved in |
|---|---|---|---|
| `DelegatedRuns` | Turns, Runs, Plans, events, Results, outbox keys and the sweeper over the PostgreSQL backend | `races`, `session_plan`, `eventually`, `overdue_shared` | `DelegatedRunsProofs` |
| `MemoryRuns` | the same commands in the Memory backend | `races` | `MemoryRunsProofs` |
| `TurnLifecycle` | what anybody may rely on about a Turn: an abstract specification | as a property of `races`, `agreement` | |
| `Invocations` | agents the service calls itself, and the orphan reconciler | `agreement` | `AgreementProofs` |
| `TurnOutbox` | the outbox rows and the consumers that deliver them to Memory Formation | `eventually` | `FormationProofs` |
| `FormationJobs` | captured Turns, the jobs they are frozen into, the idle sweeper and the workers | `formation` | `FormationProofs` |
| `ExecutionTickets` | Tickets, and the intake of agent events on the native API and the OAC adapter | `events` | `EventsProofs` |
| `ExecutionTraces` | the facts of a Turn, gaps, repairs, snapshot and stream | `events`, `trace_skipped` | `EventsProofs` |
| `Routing` | `RouterService.route` from the request to the answer | `requests` | `RequestsProofs` |
| `PlanClaims` | the executor's claims of Steps, leases and recovery, on both repositories | `requests` | `RequestsProofs` |
| `MemoryLifecycle`, `MemoryIndexing` | canonical memory rows; index operations, workers, repairs (the second extends the first) | `memory` | `MemoryIndexingProofs` |
| `StructuredFormation` | task memories from Plans, Runs and Results | `memory` | `FormationProofs` |
| `MemoryDecisions` | from a candidate to a change of memory, and the decisions left to the user | `agreement` | `AgreementProofs` |
| `AgentRegistry` | definitions, audit records and copies | `agreement`, `registry_again` | `AgreementProofs` |
| `ContextAssembly` | the governed pipeline of the three assemblies of a request | `context` | `ContextProofs` |
| `KnowledgeHandles` | one-time handles and their expiry thread | `context` | `ContextProofs` |

The modules whose names begin with `MC` give the constants of a run their values. Where
several components share a run (`MCEventually`, `MCEvents`, `MCRequests`, `MCAgreement`,
`MCMemory`, `MCContext`) they share no variable: the variable `focus` says which of them a
behaviour is about, and the others stay as they begin. This is a disjoint union of their
state graphs, so each component is checked exactly as it would be alone. In `MCBackends`,
`part` chooses in the same way between the Memory backend and parts of what can happen
over the database (see Bounds). A *cast* (`MCCasts`, `MCTraceCasts`, `MCDecisionCasts`,
...) is a bound of the same kind: it names the actors and faults that may take part in a
behaviour, so that each interesting group of three or four meets without all of them
meeting at once.

How the components meet. The transaction that seals a Turn in `DelegatedRuns` takes an
`outbox` key, which is `AddEvent` in `TurnOutbox`; the capture in `Deliver` there is
`AppendTurn` in `FormationJobs`; what the worker of a job does with a candidate is
`MemoryDecisions` and `StructuredFormation`; an accepted decision is an operation of
`MemoryLifecycle`; its index operation is worked off in `MemoryIndexing`; what recall may
return is a fact of `ContextAssembly`, whose result the model of `Routing` reads. Each
hand-over is idempotent by a deterministic id, which is why the parts can be studied
separately: a repeated hand-over is a stuttering step of the part that receives it.
`ExecutionTickets` stands before the pipeline: its `run` and `event` are those of
`DelegatedRuns` with only the fields a Ticket is compared with, and the refusals that Turn
and Plan may cause are `Refused`, which may happen to any command. `ExecutionTraces`
observes: it changes nothing else.

### DelegatedRuns

Each variable is a table: `turn` (canonical_turns), `run` (agent_runs), `plan` (plans and
plan_steps), `event` (agent_events by primary key), `result` (agent_results), `outbox`
(the `turn.<status>:<turn>` idempotency keys of turn_outbox). `txn[k]` is what request
handler `k` inside `complete` has read, `sweep[w]` the batch sweeper `w` works through,
`now` the clock that deadlines are compared with.

A store operation that is one transaction with its rows locked is one action: `Start`,
`Progress`, `Clarify`, `Fail`, `Cancel`, `SweepTimeout`, `CancelUnstarted`, `AttachPlan`
and `CompleteRouteOnly` (compare-and-set on the Turn's version), `ConfirmPlan`
(compare-and-set on the Plan's). `complete` is not one transaction: the Run row, the Turn
row and the Plan are read by three separate statements, the bundle is computed, and the
coordinator commits it in a new transaction that compares the versions of Turn and Plan
(and not of the Run). PostgreSQL's default READ COMMITTED is in force (no isolation level
is configured), so anything can commit between two of those steps: `CompleteReadRun`,
`CompleteReadTurn`, `CompleteReadPlan`, `CompleteCommit`, with `CompleteAbort` for a
refusal, a rollback or the death of the handler.

A refused command and the replay of a stored event change no row; they are stuttering
steps. A command's expected version ranges over all versions the Run has had, so commands
arrive late and repeatedly; event and Result ids are chosen by the agents and may be
reused. Several Runs of one Turn are real: a retried request id is routed again, the LLM
may choose another agent, and the delegation key then differs; a further attempt may also
end in a direct reply, which replaces the Turn's references. Data is abstracted: tenants
and users (the ownership checks are equalities that hold for the commands modelled),
payloads, timestamps and error texts are left out. A deadline is fixed per Run.

### MemoryRuns and TurnLifecycle

`MemoryRuns` uses the variables of `DelegatedRuns`. Nothing a Memory store awaits ever
suspends, so every command is one step, `complete` included. In place of row locks and
unique keys there is `update_if_version`, which refuses a terminal Turn (`Updatable`), an
outbox that returns the row it already has (`AddIdempotent`), and rollbacks from
snapshots. A `complete` that the sealed Turn refuses restores everything but the Plan,
which was saved before (`MemCompleteRefused`). The list of Results accepts an id twice;
`result[x]` is the last.

`TurnLifecycle` is the abstract specification: a Turn is open until one step decides its
outcome, its answer and its one notice, and nothing changes these afterwards. It is
implemented twice: by `Invocations` (`ImplementsTurnLifecycle`) and, for each Turn, by the
Memory backend (`TurnsAreDecidedOnce`). The database backend does *not* implement it for
delegated Runs (see Observations, `SealedTurnUnchanged`); what it keeps is
`TurnNeverReopens` and `OneResultPerTurn`.

### Invocations

One Turn, whose routed request is invoked and retried by handlers in `Managed`, while
handlers in `Direct` call `/invoke` with the same request id and leave the Turn alone.
`start_run`, `complete_run` and the reconciler's `repair` are transactions with the Turn
locked (`StartRun`, `CompleteRun`, `RepairTurn`); between them a handler reads rows
without a lock (`ReadRows`), the agent answers (`InvokerReturns`) and anybody dies
(`Dies`). `repair` holds the Turn's lock from its first read to its commit, which is
`TurnUnlocked`. A Turn is repaired when its Runs and Results identify one outcome, and
left to an operator when they do not (`RepairAmbiguous`).

### TurnOutbox

`row[e]` is a row of turn_outbox, `consumer[k]` what replica `k` is doing inside
`MemoryFormationTurnCompletedConsumer.run_once`. `claim` and `complete` are one
conditional UPDATE each and one action each (`Claim`, `Complete`; a lost claim makes
`complete` raise, and the exception handler then calls `fail`). `fail` of the database
repository selects the row under the condition "claimed by me" and then updates it by its
primary key alone, without a lock: `FailRead` and `FailWrite`. `Raise` stands for every
exception between claim and complete. The lease token of a claim is a fresh uuid; `token`
numbers the claims of a row instead.

Time appears as the two comparisons the code makes: `due` (available_at has come) and
`expired` (lease_expires_at has passed). `LeaseExpires` may happen at any moment to a
claim whose consumer died and, up to `MaxStalls` times, to one that is still working. The
order in which `claim` prefers rows is not modelled: any claimable row may be taken.

### FormationJobs and StructuredFormation

`capture[t]` is a row of memory_formation_turns, `job[j]` one of memory_formation_jobs,
`idle[s]` says that the deadline shared by a session's pending Turns has passed,
`worker[w]` is what a worker does inside `run_once`. Appending a Turn (with the window job
it may complete) and creating an idle job hold the session's advisory lock: `AppendTurn`,
`IdleJob`. Turns arrive in any order, so a late one may be older than Turns already
frozen; `Oldest` and `SameRange` are the selection and the idempotency key of the code.
Claiming (`ClaimJob`, `ReapJobs`) also settles the jobs whose lease expired on their last
attempt. A worker reads the clock, then calls `complete_job` or `fail_job`, which compare
owner, token and lease with that clock: `ReadClock`, `CompleteJob`, `FailJob`. A failed
`complete_job` falls into the handler that calls `fail_job`. Since a claim increments
`attempt_count` and nothing else does, the count serves as the token. The branches of the
code for a range that already has a job are part of `WindowJob` and `IdleJob`; the lemma
`RangeIsNew` shows that they are never taken.

`StructuredFormation` follows one Plan, Run or Result (the cast's subject) from the row to
its task memory: whoever saves a row publishes a job for the new state and then marks the
row (`SavePlan`, `PublishPlan`, `MarkPlan` and the like for Runs and Results); `Reconcile`
repeats both for rows that are behind; workers take the jobs in any order, twice if a
lease ends, and `EvaluateCandidate` and `ApplyDecision` write the memory in two calls.
States are ordered by `source_order`; the text of a projection is left out.

### ExecutionTickets

`ticket[k]` is a row of execution_tickets, `handler[h]` the request a handler works on. A
request takes three transactions on two stores: the Ticket is claimed, the event is
applied to the Run, the Ticket is consumed (final events and notes) or released with an
advanced cursor (progress). Anything may happen between them, and each is an action:

- `Resolve`, `ClaimNative` (`record` of the native API reads Ticket and Run, claims, and
  compares the event's sequence and version with the cursor: `InPlace`), `ClaimAdapter`
  (the OAC adapter, with the Ticket or by legacy correlation, which must be unique);
- `ApplyProgress`, `ApplyError`, `ApplyNote`, `ApplyDuplicate`, and `ApplyResult` with
  `CommitResult`, because `complete` reads the Run before its transaction and does not
  compare it again;
- `Consume`, `ReleaseAfterProgress`, `ReleaseClaim`; an error goes to `Fail`, where the
  native route releases its claim (`ReleaseRejected`) and the adapter keeps it until the
  lease lapses. `Crash` ends a request anywhere; the adapter's quarantine after a claim
  has the same effect.

Time is abstracted: a lease may lapse and a Ticket may expire at any moment, which
includes the moment between reading the clock and the conditional UPDATE. The adapter
passes the client's `created_at` as the clock, so its claims may fail or succeed whatever
the lease (`Late`, `Claimable`). The lease token is secret and fresh, so `holder` names
the request that knows the row's token. A message is an event id, a route, a kind and the
optional sequence and version (0 when absent); `started`, `progress` and `clarify` are one
kind, `error` and `cancelled` another.

### ExecutionTraces

A caller records the facts of its call one after the other (`FactsOf`), each in a
transaction of its own. A write that fails becomes a gap in the process; the next
successful write flushes the gaps (`FlushTakesGaps`, `FlushGaps`, `SettleGap`), a later
write of the fact records its repair (`RecordRepair`). The database draws the offset at
the INSERT and shows the row at the commit (`InsertRow`, `CommitRow`); the Memory
repository does both at once. A client reads a snapshot and follows the stream from its
watermark (`ReadSnapshot`, `OpenStreamAtWatermark`, `PollStream`). A content is new in
every call for the facts that are stamped with the time of the call.

### Routing and PlanClaims

`Routing` follows the attempts of one request: `StartTurn`, `LoadPlan`, then a decision
from a fixed question, from the current Step of a Plan, from governed knowledge or from
the model, whose output is arbitrary as far as its schema allows; `Corrected` is the
pipeline of corrections in the order of the code. `_after_route` stores the Plan
(`AfterPlan`), binds it to the Turn (`AttachRead`, `AttachStore`) or completes the Turn
(`CompleteRead`, `CompleteStore`), each with a read and a conditional write of its own.
`PlanAdvances` and `InvokeFromRoute` are what an agent does meanwhile.

`PlanClaims` is one Plan and the requests inside `PlanExecutor.execute`, or inside
`/invoke` with the Plan's id (`InvokeStep`), which claims the current Step without asking
whether it is ready: `LoopReload` decides from one read (its branch that closes a Plan
with a failed Step, or with all Steps completed, has no action: `StatusFits` shows that
the loop never finds such a Plan), `ClaimStep` (Memory, under the lock) or `ClaimRead` and
`ClaimWrite` (database) take the claim, `Invoke` hands the key to the agent, `FinishRead`
and `FinishWrite` store the outcome with up to `MaxTries` attempts, `RenewClaim` and
`LeaseExpires` race, `ApplyEvent`, `Confirm` and `CancelUnstarted` are the other writers.
The mapping of `DelegatedRuns` onto the same rows is the transitions by Runs; what they
have in common (the Plan's arithmetic) is defined in both from the same code.

### MemoryLifecycle, MemoryIndexing, MemoryDecisions

`MemoryLifecycle` has the canonical rows and their outbox: `item`, `revs`, `events`,
`ops`. All memories of the model compete for one `memory_key`; ids are stable hashes, so a
memory is known by its ADD and a revision by its UPDATE. `MemoryIndexing` adds the
external index (`provider`), the index worker (`Claim`, `ReadItem`, `Scan`,
`ApplyAdd`/`ApplyUpdate`/`ApplyDelete`, `SetReady`, `Complete`, `Close`, or `CallFails`,
`Fail`, `ShowFailure`), the repair service with its two listings and its compensations,
and the governed repair of an administrator. A call of the external index may fail before
or after it took effect.

`MemoryDecisions` follows the candidates of one `memory_key` through hard rules,
semantics, policy and verifier (`EvaluateCandidate`, operators `HardRules`, `Semantics`,
`Policy`), their commit (`ApplyDecision`, with the expected revision), and what is left to
the user: `OpenDecision`, `ClaimResolution`, `ApplyResolution`, `CompleteResolution`,
`DeleteMemory`, each with a place to stop (`RequestStops`) and repeated requests with
their keys.

### AgentRegistry, ContextAssembly, KnowledgeHandles

`AgentRegistry`: a host reads a definition and changes it on the condition of its revision
(`HostReads`, which loads first when the copy is empty, and `Mutate`, which also writes
the audit record); the admin API reads and writes without one; every request then loads
its process's copy, from the database or the file (`ReadAll`, `StoreCopy`, `Load` with its
three backends and the fallback).

`ContextAssembly`: up to three assemblies of a request. Providers answer, fail or time out
one by one (`Collect`, `CollectFails`), the clock moves, then `Assemble` is the
uninterrupted computation: `Govern`, `Sorted`, `Dedupe` (a fold of `Keep`),
`ResolveConflicts`, `SelectAndProject` (a fold of `Select`, with the source budgets of the
stage, `Limits`), and for an agent `Fitting`, which cuts its input. A fact's text, key and
value are numbers of which only equality is used; its size is in characters.

`KnowledgeHandles`: `Issue` and `Present` hold the service's lock, `Judge` happens after
it; `Issue` reads the clock before it takes the lock; `SchedulerTurn` is one turn of the
expiry thread's loop, which sleeps on a condition variable that `Notified` wakes.

## Runs

| run | question | result |
|---|---|---|
| `races` | two Runs of one Turn on either backend. Database: two handlers in `complete`, stale commands, further attempts, direct replies; then the sweeper, which may crash or meet a taken outbox key. Memory: all commands and the sweeper | holds |
| `session_plan` | three Turns of a session on one Plan, with the sweeper | holds |
| `eventually` | do overdue Runs end, one Run per Turn, with a sweeper that crashes; is every outbox event delivered or given up, with stalls and crashes | holds |
| `formation` | two workers and the sweeper, a window and a structured job, with a crash or a stall: ranges, outcomes, progress | holds |
| `events` | Tickets on three routes with crashes, lapses and expiry; traces with failing writes, retries and restarts | holds |
| `requests` | overlapping attempts to route one request; executors that lose and take over claims | holds |
| `agreement` | one outcome of a Turn, a memory and a definition with several writers | holds |
| `memory` | memories with index, repairs and deletion; task memories | holds |
| `context` | three assemblies over small worlds; one-time handles | holds |
| `overdue_shared` | do overdue Runs end, with two Runs of one Turn | violated |
| `trace_skipped` | is every event streamed, when commits are out of order | violated |
| `registry_again` | does an edit replace the definition it was based on, when agents are created again | violated |

The properties are stated, with the code behaviour each is about, at the end of each
module. Deadlock checking is off because the system may stop: agents need not answer, and
clocks, ids and calls are bounded.

**Bounds.** Ids are finite sets. In `races`, with two handlers, two Runs, two event ids
and two Result ids every pair of commands can meet, reuse an id, and find the other's
write. Over the database its behaviours are of two parts: "handlers" has any number of
handlers inside `complete` before a deadline passes, "sweeper" lets deadlines pass with
one handler in `complete` at a time; two handlers in `complete` and the sweeper never meet
in one run, but the theorems cover them. In `session_plan` a third event id lets two
completions and a failure follow each other on one Plan. `MaxClock` passes every deadline
that is checked (in `session_plan` the first one). `AttachBound` caps the attempts that
attach a Plan and change the version only. `BatchSize` is 1 in `eventually`, so that Runs
wait behind a full batch, and 2 elsewhere. Its outbox delivers one event and suppresses
one; two attempts give one retry and one dead letter, and one stall with one crash lets a
row be taken over from a consumer that is alive and from one that is dead.

In `formation`, two Turns of one session make a window of two or two idle ranges, `Jobs`
holds an id for every job these can need, and the one fault is a death or a stall. In
`events`, two handlers and two Tickets give every overlap of two requests on one Run, on
the same Ticket or not; the five messages have each kind, each route, a progress event
numbered by its agent, and ids that are reused for another kind of event. Versions and
sequences need no bound: the two event ids are used up after two writes. The trace casts
give each kind of call, two or three calls, and up to two failing writes: a gap, its
report and its repair, and a second gap or call in between.

In `requests`, two attempts, two agents and one text: every answer can meet every other
one. The Plan lists its two Steps in the other order than they depend on each other, the
first being its current Step; two calls of the executor or of `/invoke`, two claims (one
taken over), one event or user action, one stall, both repositories. The theorems cover
every other acyclic Plan. What a stored Plan may ask of its requester is `PlanActions` and
`Policies`: shown or silent, run at once or by the host. In `agreement`, four handlers
(two managed, one direct, each once) and two repairers; at most four of the writers of a
memory at a time, by cast; two agents, three writes and four requests of the registry,
since an edit, its reload and a second edit between them are three. In `memory`, two
attempts of an index operation, two claims, and casts of a worker with another worker, a
repair, a governor, an update or a second memory of the key. In `context`, the worlds are
all subsets of two groups of facts: one about memories and their conflicts, one about
duplicates, denials and sizes; two route budgets, one that fits and one that does not; an
agent gets its knowledge before the call or asks for it, and requires it or not. Handles:
two, two consumers, two bindings, a clock that passes the expiry; an expiry computed
before the lock is at most `Delay` old when it is stored.

Ids that are interchangeable form symmetry sets (events, Results, handlers, Tickets,
attempts); runs with liveness properties use no symmetry.

**Fairness.** `FairSpec` (and its share of `eventually`) assumes weak fairness of the
sweepers that are not crash prone: the lifespan task runs `run_once` in a loop and
survives its exceptions, so a replica that stays up keeps sweeping. Nothing is assumed of
agents, users or request handlers. The outbox and the jobs assume weak fairness of each
consumer's and worker's `run_once` (loops that catch every exception), of the idle
sweeper, and of the clock: a lease that nobody completes expires and a retry becomes due.
Failures of the processor are unlimited; crashes and stalls are finitely many. In the
outbox that matters: claiming does not count as an attempt, so an event under which every
consumer dies would be claimed for ever and never become a dead letter. Formation jobs
count the attempt when they are claimed. `context` assumes weak fairness of the expiry
thread: it is a thread of the operating system, and the condition variable wakes it when
its timeout has passed.

**Violations.** Three statements of the repository do not hold of the code; `PROJECT.json`
quotes them. `overdue_shared`: the second timeout of a Turn meets the unique outbox key
`turn.timed_out:<turn>`; the IntegrityError ends the batch at every sweep. What does hold
is stated too: overdue Runs that are alone in their Turn end (`eventually`).
`trace_skipped`: two handlers commit in the other order than they drew their offsets, and
the client's cursor passes the late row; the Memory repository has no such gap
(`NothingSkippedInMemory`). `registry_again`: a definition that is deleted and created
again has revision 1 again, so an edit based on its predecessor replaces it; without
deletions and the admin API edits are safe (`EditsBuildOnTheirBaseHere`).

## Proofs

Every theorem holds for all values of the constants that satisfy the module's assumptions
(any number of Turns, Runs, Plans, handlers, sweepers, consumers, Tickets and so on).

`DelegatedRunsProofs`, from `ConstantsOK` and `DelegationKeysOK`:

| theorem | statement |
|---|---|
| `TypeCorrect` | `Spec => []TypeOK` |
| `SafetyInvariant` | `Spec => []SafetyInv` |
| `AtMostOneResult`, `SealsAreAnnounced` | two of its parts, by name |
| `SealedTurnsStaySealed` | `Spec => TurnNeverReopens` |
| `CompletedRunsAreFinal` | `Spec => CompletedRunIsFinal` |
| `RunsAccountedFor` | `Spec => []RunsAreAccountedFor` |
| `PlanInvariant` | `Spec => []PlanInv` |
| `PlansShowTheirSteps`, `FinishedRunsSettleSteps` | its parts that runs check |

The argument. `OneResultPerTurn` is not inductive: `complete` commits a Turn row it
computed from an old read, so one must know what that row was. `SafetyInv` adds
`SnapshotCurrent` (a Turn row read by a handler is the current row, or has a smaller
version: every write of a Turn bumps its version, so equality at commit means the row is
unchanged) and `ResultSeals` (a Result exists only on a sealed Turn whose `completed`
outbox key is taken, so a second completion meets the unique key). A completed Run is
final for the same reason: only a commit could rewrite it, and its Turn's key is taken.
`RunsAreAccountedFor` follows the same commits: a terminal Run's event is stored by the
step that ends it (lemma `EventStep`), and a Run leaves the references of its Turn only by
a direct reply, which later steps never unmark (`ReferenceStep`). `PlanInv` is the same
argument for Plans: a Plan row read by `complete` is current or older
(`PlanSnapshotCurrent`), a stored row's status fits its Steps, and a Step that is settled
stays settled, so a finished Run's Step cannot become open again. The lemma `NextCases`
reduces a step to the four ways it can move Turn, Run and outbox, so that each invariant
is argued once per move rather than once per action.

`MemoryRunsProofs`, from the same assumptions: `MemoryTypeCorrect`, `MemoryInvariant` and
`MemoryDecidesOnce` (`MemSpec => TurnsAreDecidedOnce`: each Turn implements
`TurnLifecycle`; `races` checks it as `DecidedOnceInMemory`). The inductive invariant is
`OpenTurnsAreBlank`: a Turn that is still open has neither Results nor outbox keys. A step
then does one of three things to Turns: it leaves them, it keeps one open, or it decides
one that was open (`MemTurnCases`); only the last must be shown to be the abstract `End`,
and there the invariant says that answer and notice appear for the first time. The steps
shared with the database are those of `Next` (`AlikeIsNext`), so their type lemmas are
reused.

`AgreementProofs`, three components. From `InvocationsAssumption`: `InvocationsInvariant`,
`AnswersAgreeWithTurn` (`InvSpec => []InvocationsAgree`) and `TurnDecidedOnce` (`InvSpec
=> ImplementsTurnLifecycle`, a refinement). Besides `TurnShowsResult` the invariant says
that an open Turn has no Result, notice or answer (`OpenIsUndecided`), that a repairer
between its reads and its commit holds the lock and sees an open Turn (`LockHolds`), and
that a handler about to commit has an old version or an open Turn (`ReadIsOldOrOpen`). The
last two are why a repair and a late completion exclude each other.

From `RegistryAssumption`: `RegistryAlwaysAgrees` (`RegistryAgrees`) and
`EditsAlwaysBuildOnTheirBase` (`EditsBuildOnTheirBaseHere`, the behaviours without
deletions and admin writes; with them `registry_again` shows the claim is false). The
audit record explains the row (`TrailExplains`); where nobody else writes, copies are as
new as the rows (`CalmHolds`); and while definitions are only added and edited, whatever a
process or a request has read of one is older than the row or is the row (`EditsHold`), so
an edit that the revision check admits was made from the row it replaces.

From `DecisionsAssumption` (no worker is named like the operations of clients):
`DecisionsInvariant`, `MemoriesAreGrounded` (`MemoryIsGrounded`), `RevisionsChangeOnce`
(`OneChangePerRevision`) and `ResolutionsAgree` (`ResolutionAgrees`). `DecisionsInv`
follows a decision through calls that are transactions of their own: what a worker is
about to verify or apply has been judged (`WorkersJudged`), a decision that waits is
honest and knows what it is about (`DecisionsWait`), the user is asked once, when the
worker ends (`AskedOnce`), a claim is about a decision that waits (`ClaimsHold`), and a
request that applies or completes does so in the name of the claim (`RequestsClaimed`). A
revision that was replaced is known (`RevisionsKnown`) and does not return, which is why
two decisions never change the same one.

`FormationProofs`, three components. `OutboxInvariant` and `OutboxIsSafe` (`OutboxSafe`,
which is the type invariant, `NothingLost`, `AttemptsDecide` and `ClaimsRespected`; the
first three also have a theorem of their own). `NothingLost` needs `DeliveredIsEffective`:
a consumer that is past delivery has had the effect of its event, whether or not it still
holds the claim. That makes it irrelevant for `NothingLost` who completes the row.
Captures and audits are never undone. `ClaimsRespected` says who may: it needs
`ClaimsNumbered` (no two consumers have the same claim of a row), and every step but a
claim `KeepsClaims`. It says nothing of `fail`, whose write is not conditional
(`CompletedStaysCompleted`, Observations).

From `FormationConstants`: `JobsInvariant`, `JobsAreSafe` (`JobsSafe`: types,
`RangesPartition`, `FormedWithJob`, `WaitingHasAttempts`, `JobClaimsRespected`) and
`JobOutcomesAreFinal`. `JobsInv` strengthens the properties by `FrozenHasJob` (a Turn
names a job exactly when it is no longer pending) and `UnusedJobsAreEmpty` (a job id not
yet used has no Turns). From them `RangeIsNew` follows: pending Turns never form the range
of an existing job, so a new job's Turns belong to it alone. `JobClaimsRespected` (a job
stays claimed until the worker that claimed it last ends it, or is put aside with an
expired lease) follows from `JobClaimsNumbered` and `KeepsJobClaims`, as for the outbox.

`StructuredInvariant`, `FormedMemoryIsKept` (`StructuredKept`) and `FormedMemoryGoesOn`
(`StructSpec => TaskNeverRewinds`). A publisher marks what has its job (`HoldKnown`); a
worker that updates knows the older revision it replaces, and one that finds nothing to do
knows that the state is remembered (`WorkKnown`); a decision on record is of a job and
remembered (`DecisionsKnown`). Each of these survives the steps of others because of
`Onward`: jobs keep their order, the memory goes on while it exists, and a revision that
was replaced does not come back.

`EventsProofs`, two components. From `TicketConstants` and `NoneIsNoRow`:
`TicketInvariant`, `TicketsAreSafe` (`TicketSafe`: types, `ConsumedByStoredEvent`,
`CursorNotAhead`, `OneEventPerPlace`), `TicketsOnlyMoveForward` and
`LostReleasesAreRepairable` (`LostReleaseIsRepairable`). `TicketInv` has two layers.
`EventInv` is about Runs and events only: progress events are not ahead of an open Run
(`EventsBehind`), so a new one, whose sequence must exceed the Run's, takes a fresh place.
`RequestInv` is about requests: the holder of a lease works on that Ticket
(`HolderIsBusy`), the cursor stays where the holder read it (`HeldCursor`, so that
`Advances`, which compares with the request's copy, moves the row forward), an applied
final event is on record (`AppliedIsStored`) and an applied progress event is not ahead of
the Run (`AppliedBehind`), whether or not the claim is still held. Both are kept because
events are never rewritten and Runs never reopen (`Grows`). `RequestCases` reduces a step
to the nine things that can happen to a request. For repairs, `RepairInv` says that an
admitted progress event takes the place of its cursor or the next one, and that the cursor
moves as a whole (`AdmittedInPlace`). So the only Ticket of a Run trails the Run's events
by at most one, the one a replay can still report.

From `TraceConstants`: `TraceInvariant`, `TracesAreHonest` (`TraceIsHonest`) and
`NothingIsSkippedInMemory` (`NothingSkippedInMemory`; over PostgreSQL the run
`trace_skipped` shows that rows are skipped). A fact whose write failed is there, waits
for its repair or was reported (`FailureIsKnown`); a repair is of a fact that is there
(`RepairsAreTrue`); while none was refused, the facts a call has begun to write are stored
but for the one at hand (`CallsAreGood`); the watermark is a last row (`LastRow`); and in
the Memory repository offsets are drawn and shown in one step (`MemoryInOrder`).

`RequestsProofs`, two components. From `PlanClaimsAssumption`: `ClaimsTypesHold`,
`ClaimsAlwaysFit` (`ClaimFits`; what a request holds is a Plan of an earlier version or
one that still has the Steps of the row), `SettledStepsStay` (`StepsAreFinal`) and
`ClaimsAreSafe` (`ClaimsSafe`), for any acyclic dependencies in any order and any current
Step to begin with: the answer of a language model may list a Step before the one it
depends on (`openai_compatible.py:259-287` refuses cycles only). An open Plan's current
Step is one to work on, unless nothing has been begun (`CurrentHolds`); a Step that is
under way has its dependencies completed or is one that an agent's event or a request of
its own began (`BegunInTurn`, with the history variable `early`); and a request past the
choice of its Step has chosen such a one (`ExecOrdered`). Without a cycle some Step that
is not done has all its dependencies done, so an open Plan always offers one
(`SomethingToDo`). `StatusFits` asks this only while no Step is under way before its
dependencies (`Unready`); otherwise the executor may really raise its conflict.

From `RoutingAssumption`: `RoutingInvariant`, `AnswersAlwaysHold` (`AnswersHold`),
`AnswersStayWithinCandidates` (`WithinCandidates`) and `TheRouterNeverRewinds`
(`RouterNeverRewinds`). `RouteInv` has a functional part and one about attempts. Every
correction of the pipeline keeps an answer `Shaped` (its action has a target, and its Plan
the agents and the policy it needs): `DeniedShaped`, `NormalizedShaped`, `PlannedShaped`,
`CollapsedShaped`, `PolicyShaped` and, composed, `CorrectedShaped`. For attempts: what was
read of a Plan stays true of it, since the same version means the same row; the id of an
attempt's own Plan is free until it is stored; an open Turn with a Plan is bound to the
Plan of every answer that was returned; and a completed Turn never changes (`FinalOK`).

`MemoryIndexingProofs`: `IndexInvariant`, `UpdatesAlwaysBuildOnLast`
(`UpdatesBuildOnLast`), `IndexWorkAlwaysKept` (`IndexWorkIsKept`) and `DeletionsAreFinal`
(`DeletionIsFinal`). `IndexInv` says of a worker that its operation is of the memory it
handles and that it completes an addition or an update only when nothing is left to do
(`WorkerOK`), of a repairer that what it may undo is a record the index has handed out
(`RepairerOK`), and of an administrator that the deletion read exists (`GovernorOK`).
`Carried` is the argument for all of them: operations keep their memory, and what was
served is never owed again.

`ContextProofs`, two components. From `TtlAssumption`: `HandlesAreGivenOnce`
(`GivenOnceInTime`): the body of a handle is in one place, stored, in the hands of one
consumer or given (`InOnePlace`).

From `ContextConstants`: `RequiredKnowledgeAlwaysArrives` (`RequiredKnowledgeArrives`),
`HardBudgetAlwaysHolds` (`HardBudget`), `EligibleAlwaysDecide` (`OnlyEligibleInfluence`)
and `ConflictsAlwaysSettled` (`ConflictsSettled`), for any worlds of facts, budgets,
limits and times. The assumption says that a request finds finitely many facts that have
names of their own (`candidate_id`), that there is one current input, and that critical
facts differ in their reference: the providers write `request:`, `agent:` and `plan:`
before the id (`context_providers.py:106-166, 341-372`), and `ContextAssembly` defines
which values a fact may have (`Fact`, the fields of `ContextCandidate`).

The argument. Each of the three steps of an assembly is a set operation or a fold over a
sorted list, so it is first shown what these compute. The sort key is a strict total order
(`StrictOrder`), so every candidate has exactly one rank and `Sorted` lists every one
once, in order (`Ranks`, `EveryRank`, `SortedLists`). A fold over a list satisfies the
equation of its last element (`FoldToTheRight`), so what it keeps follows step by step:
`Dedupe` keeps a candidate unless one before it that was kept is the same fact
(`DedupeSays`), and critical ones come first, so they stay. `Select` counts what it holds
(`Counted`: the characters of the payload and the tokens of each source are sums over its
items, within their limits) and leaves nothing out unless it did not fit and is not
critical (`Complete`; `SelectOneMore`, `SelectionSays`). A contested group keeps one value
or gives way to a notice (`GroupSays`, `ResolveSays`). Composed, they say of an assembly
what the three properties ask (`AssembledSays`), provided its candidates are well formed
(`GoodCands`). The inductive invariant `PipelineInv` supplies that: what a provider has
answered was served from the facts of this request under its own source (`ServedBy`), two
providers never serve the same source, and a finished assembly is the pipeline's answer to
what was collected for it (`AssembledOf`). TLC checked `PipelineInv` on the worlds of
`context` before it was proved. `RequiredKnowledgeArrives` is about the refusal after the
cut and needs only `AssemblyInv`.

**Only model-checked.** Every safety invariant and every action property of a passing run
has a theorem. Out of the prover's reach are ENABLED and liveness under fairness:
`OverdueRunsTerminate`, `EventsSettle`, `TurnsGetFormed` and `ExpiredBodyErased` are what
TLC finds for the casts and bounds above. The three statements of the runs that expect a
violation are refuted, so they have none.

## Observations

Statements of the repository that TLC refutes, kept as definitions (under "claims" at the
end of their modules) without a run of their own. None contradicts what the runs show: the
property in brackets is what does hold.

- `RunOutcomeStable` (`delegated_runs.py:305`): `complete` reads the Run, a cancellation
  or timeout commits, then `complete` reads the Turn, whose version still matches at
  commit, and the Run becomes completed. `docs/App-Desc/contracts/api.md:308-309`: 终态竞争依赖
  expected state version，迟到方不会覆盖已经提交的 … [`CompletedRunIsFinal`]
- `SealedTurnUnchanged` (`delegated_runs.py:976`): the timeout of a second Run rewrites a
  sealed Turn, because timeout looks at the Run only. The requirements document, line
  1159: 重复、迟到、乱序或伪造 Ticket 不能改变已封闭 Turn. [`TurnNeverReopens`, `OneResultPerTurn`] `fail`
  in turn seals a Turn one of whose other Runs is still open (`delegated_runs.py:363`); in
  Memory a second overdue Run of a sealed Turn never ends, and its error ends the batch.
- `CompletedStepHasRun` (`MemoryRuns`): a `complete` that the sealed Turn refuses leaves
  the Plan it saved first (rollback at `delegated_runs.py:541`). [`TurnsAreDecidedOnce`]
- `CompletedStaysCompleted` (`turn_outbox.py:223`, against
  `tests/test_turn_outbox_repositories.py:84`): a consumer inside `fail` has read its row
  when its lease expires; another consumer claims and completes the event; the first then
  writes `retry` by primary key, and the completed event is delivered again.
  [`OutboxSafe`, `EventsSettle`]
- `RejectedWroteNothing` (`agent_event_service.py:156`; `api.md:299`: 拒绝路径不产生部分业务写入): the
  lease lapses while the event is being applied; the event is committed, the consume or
  release is refused, and the agent is answered with a conflict. A replay repairs it while
  the Ticket lives. [`LostReleaseIsRepairable`]
- `OnePlanPerRequest` (`router_service.py:924`; requirements document, line 601): a retry
  whose first attempt died after storing its Plan stores a second one. [`AttemptsAgree`]
- `InvokedAfterDependencies` (`invocation_service.py:403-424`;
  `openspec/specs/plan-executor/spec.md:22`: The Plan Executor SHALL execute a step only
  after all step dependencies have completed successfully): the current Step of a Plan
  that a language model has made need not be ready. `/invoke` with the Plan's id claims it
  all the same, and an agent's event may begin any Step; from then on the executor takes
  such a Step for one under way and may execute it. [`ClaimsSafe`: the executor begins no
  such Step itself]
- `FreshKeyAfterBlocked` (`database.py:727-763`; the auto-formation design, line 224:
  blocked 后显式恢复则创建新 attempt/key): an executor reads row and Step for a claim; another one
  claims the Step, and its agent answers blocked; the first then claims it with the key it
  computed, which that agent has seen. [`ClaimsSafe`]
- `NothingLeft` (`docs/App-Desc/architecture/mem0-memory-integration.md:204`): a worker
  that had scanned the index before the deletion adds its record after it.
  [`DeletionIsFinal`: canonical rows do not return; the repair removes the orphan]
- `RefusedOnlyIfChanged` (`db/models.py:461-469`; `api.md:230`): the unique constraint of
  the ORM includes the lifecycle status, so while the deletion of one memory is pending,
  that of its successor with the same key is refused; the schema file
  (`sql/postgresql_schema.sql:581-583`) has an index on active rows instead. Both are
  modelled (`KeyFree`).
- `SummaryIsGoverned` (`agent_context_service.py:727-770`;
  `memory-context-governance/spec.md:61`): the summary an agent is sent was made at
  dispatch and may hold what has expired by the invocation. [`OnlyEligibleInfluence`]
- `AppliedCanComplete` (`memory_management.py:865`; tasks.md:137): a confirmation that
  took effect before its request stopped cannot be completed once the memory has changed.
  [`ResolutionAgrees`]
- The state of a Plan can stay unpublished: a later save inherits `last_event_id`
  (`plan_service.py:53-59`), the reconciler then asks for a job under the identity of the
  earlier event (`memory_integration.py:241-242`), and that job exists with another
  content (`repositories/memory_formation.py:1312`). [`TaskNeverRewinds`,
  `StructuredKept`]

Facts a reader of the code may want to know, found while translating: the context provider
cache keys include stage, consumer and agent, so it never hits; `CurrentInputProvider`
sets no conflict key; an agent's input may exceed its budget after all items have been
cut, since summaries are kept. `get_structured_formation_publisher()` returns None, and
`FormationReconciler` and `TurnCaptureService` are built by tests only. The policy never
produces the sweeper's trigger, the application's verifier is None, and no verifier can
authorise a deletion. A pending decision about a deleted memory can be neither confirmed
(unless it is that deletion) nor rejected; after a purge a repeated confirmed ADD is
recorded as a conflict. A retried route answers "incomplete", because facts without a time
of their own conflict with their first recording; a gap whose integrity report conflicts
blocks the later ones until the process restarts, and a restart forgets all gaps. The
admin API of the registry writes no audit record. `complete_delete` and
`record_delete_failure` of the lifecycle service are not called by the application, and
`run_tenant` of the repair service only by a script.

## Not modelled

Row locks and their order (each transaction is one step; a PostgreSQL deadlock aborts one
side, which is a stuttering step), ownership checks, payload validation, text and prompts,
what a language model says beyond its schema, HTTP and configuration. `PROJECT.json` lists
every component and the reason.

- Event intake and adapter: Ticket signatures, the correlation of identities, event times,
  the trusted in-process route (except for the note it stores), the adapter's routing,
  confirmation and cutover.
- Plans: building a Plan from text; statuses other than pending in the Plan of a language
  model; the bound on the Steps one call executes.
- Memory: the extraction of candidates from text, listings, usage links, the writes of
  hosts that bypass formation, the watermark of completed jobs, the setting that turns
  Formation off, the fields of the external provider, and the calls one by one in which it
  deletes duplicate records (`MemoryIndexing` deletes them in one step); one key per
  behaviour in `MemoryLifecycle` and `MemoryDecisions`.
- Execution trace: recovered states, read failures, the normalisation of schema version 1.
- Context: wording, debug projections, and the cache.
- Memory observability and the debug console read and aggregate what others store and
  change no state; the LLM clients and the HTTP layer are I/O.

## Plan

Done: the models and runs of all components listed as modelled, the two refinements of
`TurnLifecycle`, and theorems for every safety invariant and action property that a run
checks.

Left, in this order:

1. A composition of `TurnOutbox` and `FormationJobs` that shows every sealed, eligible
   Turn formed or given up.
2. The adapter's cutover, and recall with its usage links.
