------------------------ MODULE StructuredFormation ------------------------
(***************************************************************************)
(* Task memory formed from Plans, Runs and results.  Whoever changes a row *)
(* publishes a formation job for the new state and then marks the row as   *)
(* published; FormationReconciler repeats both for rows that are behind.   *)
(* Workers process the jobs in any order and write one memory per object.  *)
(* Nothing of this is one transaction: rows, jobs, marks and memories are  *)
(* each read and written by themselves, and processes stop in between.     *)
(*                                                                         *)
(* A behaviour is about one Plan, one Run or one result.  The text of a    *)
(* projection is left out; a state is known by its source_order.           *)
(***************************************************************************)
EXTENDS Naturals, FiniteSets

CONSTANTS
    Writer,          \* requests that change a row and publish it
    FormationWorker, \* FormationJobWorkers
    StructCasts,     \* bound: a subject, the publishers and workers that take part,
                     \* and what may happen: "events" (Plan writes that carry one),
                     \* "crash", "lease" (jobs outlive their workers), "forget";
                     \* a behaviour has one cast
    StartStatus,     \* the status a Run is stored with
    MaxVersion,      \* bound: state_version of the Plan
    StructAttempts,     \* max_attempts of a job
    MaxStops       \* bound: publishers that stop in the middle

ASSUME StructuredAssumption ==
    /\ StructAttempts \in Nat \ {0} /\ MaxVersion \in Nat \ {0}
    /\ StartStatus \subseteq {"running", "pending"}

Reconciler == "reconciler"
Publisher == Writer \cup {Reconciler}

VARIABLES
    members,   \* the cast of this behaviour
    plan,      \* state_version, the version that set last_event_id, formation_published_version
    run,       \* status, formation_published_order
    outcome,   \* the stored result, its marks and its capsule
    holds,     \* the copy a publisher works with
    jobs,      \* memory_formation_jobs
    works,     \* what a worker is doing
    task,      \* the memory of the object
    decided,   \* decision events of lifecycle operations
    forgotten, \* the memory has been deleted at some time
    stops

structVars ==
    <<members, plan, run, outcome, holds, jobs, works, task, decided, forgotten, stops>>
rows == <<plan, run, outcome>>

Nobody == [kind |-> "none"]
NoTask == [order |-> 0, rev |-> <<"none">>]
NoWork == [stage |-> "idle"]

JobId ==
    ({"plan"} \X {"event", "state"} \X (1..MaxVersion))
      \cup ({"run"} \X {"running", "pending", "blocked", "completed", "failed", "cancelled"})
      \cup {<<"result">>}

StructInit ==
    /\ members \in StructCasts
    /\ plan = [version |-> 0, last |-> 0, published |-> 0]
    /\ run = [status |-> "none", published |-> 0, delegated |-> FALSE]
    /\ outcome = [stored |-> FALSE, owned |-> TRUE, suppressed |-> FALSE, published |-> FALSE,
                  captured |-> FALSE, capsule |-> FALSE]
    /\ holds = [w \in Publisher |-> Nobody]
    /\ jobs = [j \in JobId |-> [status |-> "none", order |-> 0, attempts |-> 0]]
    /\ works = [k \in FormationWorker |-> NoWork]
    /\ task = NoTask
    /\ decided = {} /\ forgotten = FALSE /\ stops = 0

-----------------------------------------------------------------------------
(* Changes of the rows.                                                    *)

Free(w) == w \in members /\ holds[w] = Nobody
Hold(w, h) == holds' = [holds EXCEPT ![w] = h]
PlanCopy(version, named) ==
    [kind |-> "plan", stage |-> "publish", order |-> version,
     job |-> <<"plan", IF named = version THEN "event" ELSE "state", IF named = 0 THEN version ELSE named>>]
RunCopy(status) == [kind |-> "run", stage |-> "read", status |-> status, order |-> 0]
ResultCopy(stage) == [kind |-> "result", stage |-> stage]

\* save_plan, claim_step, save_claimed_step, cancel: one write increases the
\* version.  Only a write for an event replaces last_event_id.  The writer
\* publishes its version under the event it came with.
SavePlan(w, named) ==
    LET v == plan.version + 1
    IN  /\ "plan" \in members /\ Free(w)
        /\ v <= MaxVersion
        /\ named => "events" \in members
        /\ plan' = [plan EXCEPT !.version = v, !.last = IF named THEN v ELSE @]
        /\ Hold(w, PlanCopy(v, IF named THEN v ELSE 0))
        /\ UNCHANGED <<members, run, outcome, jobs, works, task, decided, forgotten, stops>>

\* A private request: the same write marks the version as published.
SaveSuppressed ==
    LET v == plan.version + 1
    IN  /\ {"plan", "events"} \subseteq members /\ 0 < plan.version /\ v <= MaxVersion
        /\ plan' = [plan EXCEPT !.version = v, !.published = v]
        /\ UNCHANGED <<members, run, outcome, holds, jobs, works, task, decided, forgotten, stops>>

\* A Delegated Run moves the Plan with its event; nobody publishes this.
SaveByRun ==
    LET v == plan.version + 1
    IN  /\ {"plan", "events"} \subseteq members /\ 0 < plan.version /\ v <= MaxVersion
        /\ plan' = [plan EXCEPT !.version = v, !.last = v]
        /\ UNCHANGED <<members, run, outcome, holds, jobs, works, task, decided, forgotten, stops>>

\* InvocationService stores a Run as running and publishes it; a Delegated Run
\* is stored as pending and published by nobody.
AddRun(w) ==
    /\ "run" \in members /\ Free(w) /\ run.status = "none"
    /\ \E s \in StartStatus :
         /\ run' = [run EXCEPT !.status = s, !.delegated = (s = "pending")]
         /\ IF s = "running" THEN Hold(w, RunCopy(s)) ELSE holds' = holds
    /\ UNCHANGED <<members, plan, outcome, jobs, works, task, decided, forgotten, stops>>

Later ==
    IF run.delegated
    THEN IF run.status \in {"pending", "running", "blocked"}
         THEN {"running", "blocked", "completed", "failed", "cancelled"} \ {run.status} ELSE {}
    ELSE IF run.status = "running" THEN {"blocked", "completed", "failed"} ELSE {}

UpdateRun(w) ==
    /\ Free(w)
    /\ \E s \in Later :
         /\ run' = [run EXCEPT !.status = s]
         /\ IF run.delegated THEN holds' = holds ELSE Hold(w, RunCopy(s))
    /\ UNCHANGED <<members, plan, outcome, jobs, works, task, decided, forgotten, stops>>

\* add_result.  A damaged row may name another owner than its Run.
AddResult(w) ==
    /\ "result" \in members /\ Free(w) /\ ~outcome.stored
    /\ \E owned, suppressed \in BOOLEAN :
         /\ outcome' = [outcome EXCEPT !.stored = TRUE, !.owned = owned, !.suppressed = suppressed]
         /\ IF owned /\ ~suppressed THEN Hold(w, ResultCopy("publish")) ELSE holds' = holds
    /\ UNCHANGED <<members, plan, run, jobs, works, task, decided, forgotten, stops>>

-----------------------------------------------------------------------------
(* FormationReconciler reads the rows that are behind.                     *)

RunOrder(s) ==
    CASE s = "running" -> 1
      [] s = "blocked" -> 2
      [] OTHER -> 3

RunBehind == run.status # "none" /\ run.published < RunOrder(run.status)
ResultBehind == outcome.stored /\ (~outcome.captured \/ (~outcome.suppressed /\ ~outcome.published))

\* list_formation_pending of the three repositories.  A Plan is published again
\* under its last_event_id, or under its version when it has none.
Reconcile ==
    /\ Free(Reconciler)
    /\ \/ /\ plan.published < plan.version
          /\ Hold(Reconciler, [PlanCopy(plan.version, plan.last) EXCEPT
                                 !.job[2] = IF plan.last = 0 THEN "state" ELSE "event"])
       \/ RunBehind /\ Hold(Reconciler, RunCopy(run.status))
       \/ /\ ResultBehind
          /\ Hold(Reconciler, ResultCopy(IF ~outcome.owned THEN "foreign"
                                         ELSE IF outcome.suppressed THEN "capture" ELSE "publish"))
    /\ UNCHANGED <<members, plan, run, outcome, jobs, works, task, decided, forgotten, stops>>

-----------------------------------------------------------------------------
(* StructuredFormationPublisher.                                           *)

\* add_job: a job with this idempotency_key must carry the same command.
Conflict(j, order) == jobs[j].status # "none" /\ jobs[j].order # order
Queued(order) == [status |-> "queued", order |-> order, attempts |-> 0]
QueueJob(j, order) ==
    jobs' = IF jobs[j].status = "none" THEN [jobs EXCEPT ![j] = Queued(order)] ELSE jobs

Go(w, stage) == Hold(w, [holds[w] EXCEPT !.stage = stage])
HoldsFact(w, kind, stage) == holds[w] # Nobody /\ holds[w].kind = kind /\ holds[w].stage = stage

\* publish_plan; on a conflict the publisher gives up without a mark.
PublishPlan(w) ==
    /\ HoldsFact(w, "plan", "publish")
    /\ IF Conflict(holds[w].job, holds[w].order)
       THEN jobs' = jobs /\ Hold(w, Nobody)
       ELSE QueueJob(holds[w].job, holds[w].order) /\ Go(w, "mark")
    /\ UNCHANGED <<members, rows, works, task, decided, forgotten, stops>>

\* mark_formation_published of the Plan: only upwards.
MarkPlan(w) ==
    /\ HoldsFact(w, "plan", "mark")
    /\ plan' = [plan EXCEPT !.published = IF @ < holds[w].order THEN holds[w].order ELSE @]
    /\ Hold(w, Nobody)
    /\ UNCHANGED <<members, run, outcome, jobs, works, task, decided, forgotten, stops>>

\* publish_run_transitions: what has been published is read once; a Run that
\* never was is first published as running.
ReadPublished(w) ==
    /\ HoldsFact(w, "run", "read")
    /\ Hold(w, [holds[w] EXCEPT !.order = run.published,
                                !.stage = IF run.published < 1 THEN "create" ELSE "target"])
    /\ UNCHANGED <<members, rows, jobs, works, task, decided, forgotten, stops>>

PublishCreate(w) ==
    /\ HoldsFact(w, "run", "create")
    /\ QueueJob(<<"run", "running">>, 1)
    /\ Go(w, "markCreate")
    /\ UNCHANGED <<members, rows, works, task, decided, forgotten, stops>>

MarkRun(order) == run' = [run EXCEPT !.published = IF @ < order THEN order ELSE @]

MarkCreate(w) ==
    /\ HoldsFact(w, "run", "markCreate")
    /\ MarkRun(1)
    /\ Hold(w, [holds[w] EXCEPT !.order = 1, !.stage = "target"])
    /\ UNCHANGED <<members, plan, outcome, jobs, works, task, decided, forgotten, stops>>

\* _run_event_type and the source_order publish_run gives it.
EventOrder(s) ==
    CASE s \in {"completed", "failed"} -> 3
      [] s = "blocked" -> 2
      [] OTHER -> 1

PublishTarget(w) ==
    /\ HoldsFact(w, "run", "target")
    /\ IF RunOrder(holds[w].status) <= holds[w].order
       THEN jobs' = jobs /\ Hold(w, Nobody)
       ELSE QueueJob(<<"run", holds[w].status>>, EventOrder(holds[w].status)) /\ Go(w, "markTarget")
    /\ UNCHANGED <<members, rows, works, task, decided, forgotten, stops>>

MarkTarget(w) ==
    /\ HoldsFact(w, "run", "markTarget")
    /\ MarkRun(RunOrder(holds[w].status))
    /\ Hold(w, Nobody)
    /\ UNCHANGED <<members, plan, outcome, jobs, works, task, decided, forgotten, stops>>

\* publish_result and its mark; the reconciler goes on with the capsule.
PublishResult(w) ==
    /\ HoldsFact(w, "result", "publish")
    /\ QueueJob(<<"result">>, 1)
    /\ Go(w, "mark")
    /\ UNCHANGED <<members, rows, works, task, decided, forgotten, stops>>

MarkResult(w) ==
    /\ HoldsFact(w, "result", "mark")
    /\ outcome' = [outcome EXCEPT !.published = TRUE]
    /\ Go(w, "capture")
    /\ UNCHANGED <<members, plan, run, jobs, works, task, decided, forgotten, stops>>

\* capture and capture_records: a suppressed Run leaves an audit event only.
Capture(w) ==
    /\ HoldsFact(w, "result", "capture")
    /\ outcome' = [outcome EXCEPT !.capsule = ~outcome.suppressed]
    /\ Go(w, "markCapture")
    /\ UNCHANGED <<members, plan, run, jobs, works, task, decided, forgotten, stops>>

MarkCapture(w) ==
    /\ HoldsFact(w, "result", "markCapture")
    /\ outcome' = [outcome EXCEPT !.captured = TRUE]
    /\ Hold(w, Nobody)
    /\ UNCHANGED <<members, plan, run, jobs, works, task, decided, forgotten, stops>>

\* A result of another owner is marked as handled and never used.
SkipForeign(w) ==
    /\ HoldsFact(w, "result", "foreign")
    /\ outcome' = [outcome EXCEPT !.published = TRUE, !.captured = TRUE]
    /\ Hold(w, Nobody)
    /\ UNCHANGED <<members, plan, run, jobs, works, task, decided, forgotten, stops>>

\* The publisher's process stops, or a call of it fails: its copy is gone.
PublisherStops(w) ==
    /\ holds[w] # Nobody /\ "crash" \in members /\ stops < MaxStops
    /\ Hold(w, Nobody)
    /\ stops' = stops + 1
    /\ UNCHANGED <<members, rows, jobs, works, task, decided, forgotten>>

-----------------------------------------------------------------------------
(* FormationJobWorker and MemoryFormationProcessor.                        *)

Doing(k, stage) == works[k].stage = stage
Step(k, stage) == works' = [works EXCEPT ![k].stage = stage]
JobOf(k) == works[k].job

TakeJob(k, j) ==
    /\ k \in members /\ Doing(k, "idle") /\ jobs[j].status = "queued"
    /\ jobs' = [jobs EXCEPT ![j].status = "running", ![j].attempts = @ + 1]
    /\ works' = [works EXCEPT ![k] = [stage |-> "evaluate", job |-> j, token |-> jobs[j].attempts + 1,
                                      op |-> "none", rev |-> NoTask.rev]]
    /\ UNCHANGED <<members, rows, holds, task, decided, forgotten, stops>>

\* policy.evaluate of a certain, canonical candidate: an unknown object is
\* added, a known one updated from the revision that is read here.
EvaluateCandidate(k) ==
    /\ Doing(k, "evaluate")
    /\ works' = [works EXCEPT ![k].stage = "check",
                   ![k].op = IF task = NoTask THEN "add"
                             ELSE IF task.rev[2] = JobOf(k) THEN "noop" ELSE "update",
                   ![k].rev = task.rev]
    /\ UNCHANGED <<members, rows, holds, jobs, task, decided, forgotten, stops>>

\* Mutant of SuppressStale: the order is not compared.
SuppressNothing(k) ==
    /\ Doing(k, "check")
    /\ Step(k, "apply")
    /\ UNCHANGED <<members, rows, holds, jobs, task, decided, forgotten, stops>>

\* _suppress_stale_structured_decision reads the memory again.
SuppressStale(k) ==
    /\ Doing(k, "check")
    /\ works' = [works EXCEPT ![k].stage = "apply",
                   ![k].op = IF task # NoTask /\ jobs[JobOf(k)].order <= task.order THEN "noop" ELSE @]
    /\ UNCHANGED <<members, rows, holds, jobs, task, decided, forgotten, stops>>

Decision(k) == <<works[k].op, JobOf(k)>>
Replayed(k) == works[k].op = "noop" \/ Decision(k) \in decided
Accepted(k) ==
    /\ ~Replayed(k)
    /\ IF works[k].op = "add" THEN task = NoTask ELSE task.rev = works[k].rev

\* lifecycle.apply: an operation with a decision on record changes nothing, an
\* addition needs a free key, an update the revision that was read.
ApplyDecision(k) ==
    /\ Doing(k, "apply")
    /\ Replayed(k) \/ Accepted(k)
    /\ task' = IF Accepted(k) THEN [order |-> jobs[JobOf(k)].order, rev |-> Decision(k)] ELSE task
    /\ decided' = IF Accepted(k) THEN decided \cup {Decision(k)} ELSE decided
    /\ Step(k, "complete")
    /\ UNCHANGED <<members, rows, holds, jobs, forgotten, stops>>

Owns(k) == jobs[JobOf(k)].status = "running" /\ jobs[JobOf(k)].attempts = works[k].token
Retry(j) == [jobs EXCEPT ![j].status = IF jobs[j].attempts < StructAttempts THEN "queued" ELSE "dead"]

\* Mutant of ApplyFails: a refused change ends the job.
ApplyGivesUp(k) ==
    /\ Doing(k, "apply") /\ ~Replayed(k) /\ ~Accepted(k)
    /\ jobs' = IF Owns(k) THEN [jobs EXCEPT ![JobOf(k)].status = "done"] ELSE jobs
    /\ works' = [works EXCEPT ![k] = NoWork]
    /\ UNCHANGED <<members, rows, holds, task, decided, forgotten, stops>>

\* The store refuses; fail_job if the lease is still the worker's.
ApplyFails(k) ==
    /\ Doing(k, "apply") /\ ~Replayed(k) /\ ~Accepted(k)
    /\ jobs' = IF Owns(k) THEN Retry(JobOf(k)) ELSE jobs
    /\ works' = [works EXCEPT ![k] = NoWork]
    /\ UNCHANGED <<members, rows, holds, task, decided, forgotten, stops>>

FinishJob(k) ==
    /\ Doing(k, "complete")
    /\ jobs' = IF Owns(k) THEN [jobs EXCEPT ![JobOf(k)].status = "done"] ELSE jobs
    /\ works' = [works EXCEPT ![k] = NoWork]
    /\ UNCHANGED <<members, rows, holds, task, decided, forgotten, stops>>

\* The lease of a job runs out, its worker may go on.
JobLeaseEnds(j) ==
    /\ "lease" \in members /\ jobs[j].status = "running"
    /\ jobs' = Retry(j)
    /\ UNCHANGED <<members, rows, holds, works, task, decided, forgotten, stops>>

\* A worker whose job has been given up stops.
WorkerStops(k) ==
    /\ ~Doing(k, "idle") /\ ~Owns(k)
    /\ works' = [works EXCEPT ![k] = NoWork]
    /\ UNCHANGED <<members, rows, holds, jobs, task, decided, forgotten, stops>>

\* The user or the TTL deletes the memory.
ForgetTask ==
    /\ "forget" \in members /\ task # NoTask
    /\ task' = NoTask /\ forgotten' = TRUE
    /\ UNCHANGED <<members, rows, holds, jobs, works, decided, stops>>

-----------------------------------------------------------------------------
PublisherStep(w) ==
    \/ PublishPlan(w) \/ MarkPlan(w)
    \/ ReadPublished(w) \/ PublishCreate(w) \/ MarkCreate(w) \/ PublishTarget(w) \/ MarkTarget(w)
    \/ PublishResult(w) \/ MarkResult(w) \/ Capture(w) \/ MarkCapture(w) \/ SkipForeign(w)

FormationStep(k) ==
    \/ EvaluateCandidate(k) \/ SuppressStale(k) \/ ApplyDecision(k) \/ ApplyFails(k) \/ FinishJob(k)

StructNext ==
    \/ \E w \in Writer :
         \/ \E named \in BOOLEAN : SavePlan(w, named)
         \/ AddRun(w) \/ UpdateRun(w) \/ AddResult(w)
    \/ SaveSuppressed \/ SaveByRun \/ Reconcile
    \/ \E w \in Publisher : PublisherStep(w) \/ PublisherStops(w)
    \/ \E k \in FormationWorker :
         \/ FormationStep(k) \/ WorkerStops(k)
         \/ \E j \in JobId : TakeJob(k, j)
    \/ \E j \in JobId : JobLeaseEnds(j)
    \/ ForgetTask

-----------------------------------------------------------------------------
(* Properties.                                                             *)

\* Jobs run in any order, are repeated and are worked on by two workers at
\* once: the memory of a Plan or Run never goes back to an earlier state
\* while it exists.
TaskNeverRewinds ==
    [][task # NoTask /\ task' # NoTask => task.order <= task'.order]_structVars

\* No state is lost between two workers: when a job is done and the memory was
\* never deleted, the memory shows the state of the job or a later one.
DoneJobIsRemembered ==
    \A j \in JobId : jobs[j].status = "done" /\ ~forgotten => jobs[j].order <= task.order

\* A mark is a promise: the published version of a Plan has a job or was
\* written by a private request, and so have the states of a Run and a result
\* that are marked; a result of another owner never has one.
MarkedMeansQueued ==
    /\ \A v \in 1..MaxVersion : \A w \in Publisher :
         HoldsFact(w, "plan", "mark") /\ holds[w].order = v =>
           \E j \in JobId : jobs[j].status # "none" /\ jobs[j].order = v
    /\ run.published >= 1 => jobs[<<"run", "running">>].status # "none"
    /\ outcome.published => (outcome.owned <=> jobs[<<"result">>].status # "none")
    /\ ~outcome.owned \/ outcome.suppressed => ~outcome.capsule

\* A state that was stored is on its way to memory once it is marked, and in
\* memory once its job is done.
StructuredKept == DoneJobIsRemembered /\ MarkedMeansQueued

=============================================================================
