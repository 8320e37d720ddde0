----------------------------- MODULE PlanClaims -----------------------------
(***************************************************************************)
(* Execution of a Plan's Steps by the service itself: PlanService,         *)
(* PlanExecutor and the part of InvocationService that claims a Step,      *)
(* renews the claim while the agent works and stores the outcome.          *)
(*                                                                         *)
(* A Plan is executed by whoever calls execute or resume: several          *)
(* requests, on several replicas, may work on the same Plan.  A request to *)
(* an agent (POST /invoke) may name a Plan too: it claims and executes the *)
(* current Step without the executor.  A claim with a lease keeps them     *)
(* apart, and an idempotency key that goes with the claim lets the agent   *)
(* recognise a repeated execution.  Requests of agents (apply_agent_event) *)
(* and of the user (confirm, cancel) write to the same rows.               *)
(*                                                                         *)
(* A Plan of the language model may list a Step before the Steps it        *)
(* depends on, and may name any Step as its current one: the schema        *)
(* refuses cycles only.  Its Steps are taken to begin pending.             *)
(*                                                                         *)
(* Both repositories are modelled.  `store' says which one is in use: the  *)
(* Memory repository claims under its lock, the database repository reads  *)
(* row and Step first and then updates them conditionally.                 *)
(***************************************************************************)
EXTENDS Naturals, FiniteSets

CONSTANTS
    StepCount,    \* the Plan's Steps are 1..StepCount, in the Plan's order
    DependsOn,    \* depends_on of every Step, without cycles, in any order
    AgentOf,      \* the agent of every Step
    Executor,     \* requests that may be inside execute, resume or invoke
    MaxClaims,    \* bound: claims ever taken
    MaxCalls,     \* bound: calls of execute, resume and invoke
    MaxEvents,    \* bound: agent events and user actions applied
    MaxStalls,    \* bound: leases lost by an executor that still works
    MaxTries,     \* attempts of finish_claimed_step
    Stores        \* the repositories considered: a subset of {"database", "memory"}

Steps == 1..StepCount

ASSUME PlanClaimsAssumption ==
    /\ StepCount \in Nat \ {0}
    /\ DependsOn \in [Steps -> SUBSET Steps]
    /\ \A S \in SUBSET Steps :    \* _validate_no_cycles
          S # {} => \E s \in S : DependsOn[s] \cap S = {}
    /\ MaxClaims \in Nat /\ MaxCalls \in Nat /\ MaxEvents \in Nat /\ MaxStalls \in Nat
    /\ MaxTries \in Nat \ {0}
    /\ Stores \subseteq {"database", "memory"}

StepStatus == {"pending", "running", "blocked", "completed", "failed", "cancelled"}
Active == {"pending", "running", "blocked"}
TERMINAL_STATUSES == {"completed", "failed", "blocked", "cancelled"}

NoKey == <<0, 0>>
NoClaim == [id |-> 0, step |-> 0, version |-> 0, key |-> NoKey, lease |-> "none"]

VARIABLES
    store,      \* the repository in use
    plan,       \* the row of plans with its plan_steps
    exec,       \* what each request inside execute or invoke is doing
    claims,     \* claims taken so far (their ids are fresh uuids)
    calls,      \* calls of execute, resume and invoke so far
    keys,       \* execution keys handed to agents so far
    events,     \* events and actions applied so far
    stalls,     \* leases that lapsed under a working executor
    early       \* history: Steps begun before their dependencies by an agent's
                \* event or by a request that passed the executor by

claimVars == <<store, plan, exec, claims, calls, keys, events, stalls, early>>

-----------------------------------------------------------------------------
(* The Plan's arithmetic.                                                  *)

Done(st, s) == \A d \in DependsOn[s] : st[d] = "completed"
ReadySteps(st) == {s \in Steps : st[s] = "pending" /\ Done(st, s)}
First(S) == IF S = {} THEN 0 ELSE CHOOSE s \in S : \A t \in S : s <= t

\* Mutant of NextStep: a Step that is being executed is passed over.
NextPending(st) == First({s \in Steps : st[s] \in {"pending", "blocked", "failed"}})

NextStep(st) ==
    First(ReadySteps(st) \cup {s \in Steps : st[s] \in {"running", "blocked", "failed"}})

Some(st, x) == \E s \in Steps : st[s] = x
AllCompleted(st) == \A s \in Steps : st[s] = "completed"

\* Of two alternatives the code tries in order, the first one that applies.
PlanStatus(st) ==
    CASE Some(st, "cancelled") -> "cancelled"
      [] ~Some(st, "cancelled") /\ Some(st, "failed") -> "failed"
      [] ~Some(st, "cancelled") /\ ~Some(st, "failed") /\ Some(st, "blocked") -> "blocked"
      [] AllCompleted(st) -> "completed"
      [] OTHER -> IF NextStep(st) # 0 THEN "running" ELSE "pending"

AdvanceStep(current, proposed) ==
    IF \/ current \in {"completed", "failed", "cancelled"}
       \/ (current = "blocked" /\ proposed = "running")
    THEN current ELSE proposed

\* The validator of the schema runs on every read: it fills in a missing
\* current Step of an active Plan and drops that of a finished one.
ReadCurrent(p) ==
    IF p.status \in {"completed", "failed", "cancelled"} THEN 0
    ELSE IF p.current # 0 THEN p.current
    ELSE LET active == {s \in Steps : p.steps[s] \in {"running", "blocked"}}
         IN  IF ReadySteps(p.steps) # {} THEN First(ReadySteps(p.steps)) ELSE First(active)

GetPlan == [plan EXCEPT !.current = ReadCurrent(plan)]

SelectStep(p, resuming) ==
    LET c == p.current
    IN  IF /\ c # 0 /\ Done(p.steps, c)
           /\ (p.steps[c] = "running" \/ (resuming /\ p.steps[c] = "blocked"))
        THEN c ELSE First(ReadySteps(p.steps))

-----------------------------------------------------------------------------
(* The repository's writes.                                                *)

\* save_if_version: a claim survives a write that leaves the Plan running,
\* and follows its version.
Saved(p) ==
    [p EXCEPT !.version = plan.version + 1,
              !.claim = IF p.status = "running" /\ plan.claim.id # 0
                        THEN [plan.claim EXCEPT !.version = plan.version + 1]
                        ELSE NoClaim,
              !.attempt = plan.attempt]

\* save_plan: refused unless the Plan is still the one that was read.
SavePlan(p, version) == plan.version = version /\ plan' = Saved(p)

Free(c) == c.id = 0 \/ c.lease = "expired"

\* What claim_step computes from the row before it writes.
ClaimPlan(s) ==
    LET mine == plan.claim.lease = "expired" /\ plan.claim.step = s
        attempt == IF mine THEN plan.attempt ELSE plan.attempt + 1
    IN  [step |-> s, attempt |-> attempt,
         key |-> IF mine THEN plan.claim.key ELSE <<s, attempt>>,
         allowed |-> {"pending", "blocked"} \cup (IF mine THEN {"running"} ELSE {})]

MayClaim(r) ==
    /\ plan.status \in Active
    /\ Free(plan.claim)
    /\ plan.steps[r.step] \in r.allowed

Claimed(r) ==
    [plan EXCEPT !.status = "running", !.current = r.step, !.version = @ + 1,
                 !.action = FALSE, !.attempt = r.attempt,
                 !.steps[r.step] = "running",
                 !.claim = [id |-> claims + 1, step |-> r.step, version |-> plan.version + 1,
                            key |-> r.key, lease |-> "fresh"]]

\* Mutant of MayFinish: the version is not compared.
MayFinishOwn(e) == plan.claim.id = e.claim /\ plan.claim.step = e.step

\* save_claimed_step
MayFinish(e) ==
    /\ plan.claim.id = e.claim
    /\ plan.claim.step = e.step
    /\ plan.claim.version = e.snap.version
    /\ plan.version = e.snap.version

Finished(p) == [p EXCEPT !.version = plan.version + 1, !.claim = NoClaim, !.attempt = plan.attempt]

-----------------------------------------------------------------------------
NoRead == [step |-> 0, attempt |-> 0, key |-> NoKey, allowed |-> {}]
BlankPlan == [status |-> "pending", current |-> 0, version |-> 0, action |-> FALSE,
           attempt |-> 0, claim |-> NoClaim, steps |-> [s \in Steps |-> "pending"]]
Idle == [pc |-> "idle", resuming |-> FALSE, alone |-> FALSE, snap |-> BlankPlan, step |-> 0,
         read |-> NoRead, claim |-> 0, outcome |-> "none", tries |-> 0]

ClaimsInit ==
    /\ store \in Stores
    /\ \E s \in Steps : plan = [BlankPlan EXCEPT !.version = 1, !.current = s]
    /\ exec = [h \in Executor |-> Idle]
    /\ claims = 0 /\ calls = 0 /\ keys = {} /\ events = 0 /\ stalls = 0
    /\ early = {}

At(h, pc) == exec[h].pc = pc
Leave(h) == exec' = [exec EXCEPT ![h] = Idle]

\* execute / resume, with input (resuming) or without.
Begin(h, resuming) ==
    /\ At(h, "idle")
    /\ calls < MaxCalls
    /\ calls' = calls + 1
    /\ exec' = [exec EXCEPT ![h] = [Idle EXCEPT !.pc = "loop", !.resuming = resuming]]
    /\ UNCHANGED <<store, plan, claims, keys, events, stalls, early>>

\* The head of the loop in PlanExecutor.execute: one read decides.  Its branch
\* that closes a Plan with a failed Step, or with all Steps completed, has no
\* action: an active Plan never looks like that (StatusFits).
Settles(p) == Some(p.steps, "failed") \/ AllCompleted(p.steps)
Returns(p, resuming) ==
    \/ p.status \in {"completed", "failed", "cancelled"}
    \/ /\ ~Settles(p)
       /\ ((p.status = "blocked" /\ ~resuming) \/ SelectStep(p, resuming) = 0)

LoopReturn(h) ==
    /\ At(h, "loop")
    /\ Returns(GetPlan, exec[h].resuming)
    /\ Leave(h)
    /\ UNCHANGED <<store, plan, claims, calls, keys, events, stalls, early>>

LoopReload(h) ==
    /\ At(h, "loop")
    /\ ~Returns(GetPlan, exec[h].resuming)
    /\ ~Settles(GetPlan)
    /\ LET p == GetPlan
           s == SelectStep(p, exec[h].resuming)
       IN  exec' = [exec EXCEPT ![h] =
               [@ EXCEPT !.snap = p, !.step = s,
                         !.pc = IF /\ p.steps[s] = "pending"
                                   /\ p.current # s \/ p.status # "running" \/ p.action
                                THEN "select" ELSE "dispatch"]]
    /\ UNCHANGED <<store, plan, claims, calls, keys, events, stalls, early>>

\* The ready Step becomes the current one.
MakeCurrent(h) ==
    LET p == [exec[h].snap EXCEPT !.status = "running", !.current = exec[h].step, !.action = FALSE]
    IN  /\ At(h, "select")
        /\ SavePlan(p, p.version)
        /\ exec' = [exec EXCEPT ![h].pc = "dispatch", ![h].snap = plan']
        /\ UNCHANGED <<store, claims, calls, keys, events, stalls, early>>

\* ui_handoff, no invoker, or an input is missing: the Step waits.
BlockStep(h) ==
    LET p == exec[h].snap
    IN  /\ At(h, "dispatch")
        /\ SavePlan([p EXCEPT !.steps[exec[h].step] = "blocked", !.action = TRUE,
                              !.current = NextStep([p.steps EXCEPT ![exec[h].step] = "blocked"]),
                              !.status = "blocked"], p.version)
        /\ Leave(h)
        /\ UNCHANGED <<store, claims, calls, keys, events, stalls, early>>

\* PlanStateConflict: the Plan has changed since it was read.
Conflict(h) ==
    /\ exec[h].pc \in {"select", "dispatch"}
    /\ plan.version # exec[h].snap.version
    /\ Leave(h)
    /\ UNCHANGED <<store, plan, claims, calls, keys, events, stalls, early>>

\* _with_agent_context: the Plan is read again, and the Step that is current
\* now is the one that will be claimed, if it has the same agent.
Candidate(h) ==
    /\ At(h, "dispatch")
    /\ plan.status \in Active
    /\ ReadCurrent(plan) # 0
    /\ AgentOf[ReadCurrent(plan)] = AgentOf[exec[h].step]
    /\ exec' = [exec EXCEPT ![h].pc = "claim", ![h].step = ReadCurrent(plan), ![h].snap = BlankPlan]
    /\ UNCHANGED <<store, plan, claims, calls, keys, events, stalls, early>>

\* POST /invoke with a plan_id: the same without the executor, which would have
\* looked whether the current Step is ready.
InvokeStep(h) ==
    /\ At(h, "idle")
    /\ calls < MaxCalls /\ calls' = calls + 1
    /\ plan.status \in Active
    /\ ReadCurrent(plan) # 0
    /\ exec' = [exec EXCEPT ![h] = [Idle EXCEPT !.pc = "claim", !.alone = TRUE,
                                                !.step = ReadCurrent(plan)]]
    /\ UNCHANGED <<store, plan, claims, keys, events, stalls, early>>

\* The Steps begun early, with s begun now.
WithEarly(s) == early \cup ({s} \ {t \in Steps : Done(plan.steps, t)})

Take(h, r) ==
    /\ claims < MaxClaims
    /\ plan' = Claimed(r)
    /\ claims' = claims + 1
    /\ exec' = [exec EXCEPT ![h].pc = "claimed", ![h].claim = claims + 1, ![h].read = NoRead]
    /\ early' = IF exec[h].alone THEN WithEarly(r.step) ELSE early
    /\ UNCHANGED <<store, calls, keys, events, stalls>>

\* claim_step of the Memory repository, under its lock.
ClaimStep(h) ==
    /\ At(h, "claim") /\ store = "memory"
    /\ MayClaim(ClaimPlan(exec[h].step))
    /\ Take(h, ClaimPlan(exec[h].step))

\* claim_step of the database repository: two SELECTs without a lock ...
ClaimRead(h) ==
    LET r == ClaimPlan(exec[h].step)
    IN  /\ At(h, "claim") /\ store = "database"
        /\ plan.status \in Active
        /\ plan.steps[r.step] \in r.allowed
        /\ exec' = [exec EXCEPT ![h].pc = "claim_write", ![h].read = r]
        /\ UNCHANGED <<store, plan, claims, calls, keys, events, stalls, early>>

\* ... and two conditional UPDATEs.
ClaimWrite(h) ==
    /\ At(h, "claim_write")
    /\ MayClaim(exec[h].read)
    /\ Take(h, exec[h].read)

\* "Plan step is already executing", or the Plan is no longer active.
ClaimRefused(h) ==
    /\ \/ At(h, "claim") /\ store = "memory" /\ ~MayClaim(ClaimPlan(exec[h].step))
       \/ /\ At(h, "claim") /\ store = "database"
          /\ \/ plan.status \notin Active
             \/ plan.steps[exec[h].step] \notin ClaimPlan(exec[h].step).allowed
       \/ At(h, "claim_write") /\ ~MayClaim(exec[h].read)
    /\ Leave(h)
    /\ UNCHANGED <<store, plan, claims, calls, keys, events, stalls, early>>

\* get_execution_claim_key, and the agent is called with the key.
Invoke(h) ==
    /\ At(h, "claimed")
    /\ plan.claim.id = exec[h].claim
    /\ exec' = [exec EXCEPT ![h].pc = "invoking"]
    /\ keys' = keys \cup {plan.claim.key}
    /\ UNCHANGED <<store, plan, claims, calls, events, stalls, early>>

\* The agent's answer; every exception of the invoker is a failed result.
AgentAnswers(h, outcome) ==
    /\ At(h, "invoking")
    /\ exec' = [exec EXCEPT ![h].pc = "finish", ![h].outcome = outcome]
    /\ UNCHANGED <<store, plan, claims, calls, keys, events, stalls, early>>

\* finish_claimed_step: read ...
FinishRead(h) ==
    /\ At(h, "finish")
    /\ exec[h].tries < MaxTries
    /\ LET p == GetPlan
           st == [p.steps EXCEPT ![exec[h].step] = AdvanceStep(@, exec[h].outcome)]
       IN  exec' = [exec EXCEPT ![h] =
               IF p.status \in TERMINAL_STATUSES THEN [@ EXCEPT !.pc = "after"]
               ELSE [@ EXCEPT !.pc = "finish_write",
                              !.snap = [p EXCEPT !.steps = st, !.current = NextStep(st),
                                                 !.status = PlanStatus(st), !.action = FALSE]]]
    /\ UNCHANGED <<store, plan, claims, calls, keys, events, stalls, early>>

\* ... and write, if the claim and the version are still the same.
FinishWrite(h) ==
    /\ At(h, "finish_write")
    /\ MayFinish(exec[h])
    /\ plan' = Finished(exec[h].snap)
    /\ exec' = [exec EXCEPT ![h].pc = "after", ![h].snap = BlankPlan]
    /\ UNCHANGED <<store, claims, calls, keys, events, stalls, early>>

FinishRetry(h) ==
    /\ At(h, "finish_write")
    /\ ~MayFinish(exec[h])
    /\ exec' = [exec EXCEPT ![h].pc = "finish", ![h].tries = @ + 1, ![h].snap = BlankPlan]
    /\ UNCHANGED <<store, plan, claims, calls, keys, events, stalls, early>>

\* After the last attempt: fine if the Plan has ended, an error otherwise.
FinishGivesUp(h) ==
    /\ At(h, "finish")
    /\ exec[h].tries = MaxTries
    /\ exec' = [exec EXCEPT ![h] = IF plan.status \in TERMINAL_STATUSES
                                   THEN [@ EXCEPT !.pc = "after"] ELSE Idle]
    /\ UNCHANGED <<store, plan, claims, calls, keys, events, stalls, early>>

\* The rest of the loop: on with the next Step, or return; a request that is
\* not in the executor returns.
AfterInvoke(h) ==
    /\ At(h, "after")
    /\ exec' = [exec EXCEPT ![h] =
           IF exec[h].alone \/ plan.status \in TERMINAL_STATUSES \/ exec[h].outcome # "completed"
           THEN Idle
           ELSE [Idle EXCEPT !.pc = "loop", !.resuming = exec[h].resuming]]
    /\ UNCHANGED <<store, plan, claims, calls, keys, events, stalls, early>>

\* The request dies, or an exception nobody handles ends it: the claim stays.
\* (_with_agent_context: the current Step changed, the Plan ended, or the
\* claim was lost before its key was read.)
Abandon(h) ==
    /\ exec[h].pc \notin {"idle", "loop", "select", "after"}
    /\ Leave(h)
    /\ UNCHANGED <<store, plan, claims, calls, keys, events, stalls, early>>

-----------------------------------------------------------------------------
(* Leases.                                                                 *)

Holder(h) == exec[h].claim = plan.claim.id /\ plan.claim.id # 0

\* A third of the lease is over.
LeaseAges ==
    /\ plan.claim.lease = "fresh"
    /\ plan' = [plan EXCEPT !.claim.lease = "due"]
    /\ UNCHANGED <<store, exec, claims, calls, keys, events, stalls, early>>

\* The heartbeat, which runs while the agent works.
RenewClaim(h) ==
    /\ At(h, "invoking") /\ Holder(h)
    /\ plan.claim.lease = "due"
    /\ plan' = [plan EXCEPT !.claim.lease = "fresh"]
    /\ UNCHANGED <<store, exec, claims, calls, keys, events, stalls, early>>

\* Nobody renews the lease: its holder is gone, or is held up.
LeaseExpires ==
    /\ plan.claim.lease = "due"
    /\ IF \E h \in Executor : Holder(h)
       THEN stalls < MaxStalls /\ stalls' = stalls + 1
       ELSE UNCHANGED stalls
    /\ plan' = [plan EXCEPT !.claim.lease = "expired"]
    /\ UNCHANGED <<store, exec, claims, calls, keys, events, early>>

-----------------------------------------------------------------------------
(* The other writers.                                                      *)

Another == events < MaxEvents /\ events' = events + 1

\* apply_agent_event: read and compare-and-set, repeated on a conflict.  The
\* event may be about any Step.
ApplyEvent(s, status) ==
    LET p == GetPlan
        st == [p.steps EXCEPT ![s] = AdvanceStep(@, status)]
    IN  /\ Another
        /\ p.status \notin {"completed", "cancelled", "failed"}
        /\ st # p.steps
        /\ plan' = Saved([p EXCEPT !.steps = st, !.current = NextStep(st),
                                   !.status = PlanStatus(st),
                                   !.action = status \notin {"completed", "failed"} /\ @])
        /\ early' = IF status \in {"running", "blocked"} THEN WithEarly(s) ELSE early
        /\ UNCHANGED <<store, exec, claims, calls, keys, stalls>>

Confirm ==
    /\ Another
    /\ plan.status = "pending"
    /\ plan' = Saved([GetPlan EXCEPT !.status = "running"])
    /\ UNCHANGED <<store, exec, claims, calls, keys, stalls, early>>

\* cancel_unstarted, with Plan and Steps locked.
CancelUnstarted ==
    /\ Another
    /\ plan.status \in Active
    /\ ~Some(plan.steps, "running")
    /\ plan' = [plan EXCEPT !.status = "cancelled", !.current = 0, !.version = @ + 1,
                            !.action = FALSE, !.claim = NoClaim,
                            !.steps = [s \in Steps |-> IF @[s] \in {"pending", "blocked"}
                                                       THEN "cancelled" ELSE @[s]]]
    /\ UNCHANGED <<store, exec, claims, calls, keys, stalls, early>>

-----------------------------------------------------------------------------
ExecutorStep(h) ==
    \/ LoopReturn(h) \/ LoopReload(h) \/ MakeCurrent(h) \/ BlockStep(h)
    \/ Conflict(h) \/ Candidate(h) \/ InvokeStep(h) \/ ClaimStep(h) \/ ClaimRead(h) \/ ClaimWrite(h)
    \/ ClaimRefused(h) \/ Invoke(h) \/ FinishRead(h) \/ FinishWrite(h) \/ FinishRetry(h)
    \/ FinishGivesUp(h) \/ AfterInvoke(h)

ClaimsNext ==
    \/ \E h \in Executor :
          \/ \E r \in BOOLEAN : Begin(h, r)
          \/ ExecutorStep(h)
          \/ \E o \in {"completed", "blocked", "failed"} : AgentAnswers(h, o)
          \/ Abandon(h)
          \/ RenewClaim(h)
    \/ LeaseAges \/ LeaseExpires
    \/ \E s \in Steps, x \in StepStatus \ {"pending"} : ApplyEvent(s, x)
    \/ Confirm \/ CancelUnstarted

ClaimsSpec == ClaimsInit /\ [][ClaimsNext]_claimVars

-----------------------------------------------------------------------------
(* Properties.                                                             *)

\* A claim belongs to a running Plan, carries the version of the row (which
\* save_claimed_step compares) and is on a Step that is being executed or that
\* an agent's event has completed meanwhile: no writer leaves a claim behind
\* that could neither be finished nor recovered.
ClaimFits ==
    plan.claim.id # 0 =>
        /\ plan.status = "running"
        /\ plan.claim.version = plan.version
        /\ plan.steps[plan.claim.step] \in {"running", "completed"}

\* Steps that were begun, and are not settled, before their dependencies.
Unready == {s \in Steps : plan.steps[s] \in {"running", "blocked"} /\ ~Done(plan.steps, s)}

\* The Plan's status says what its Steps say, whoever wrote last, and a pending
\* or running Plan offers execute a Step to work on, whatever the order of its
\* Steps and whatever current Step it was made with: the conflict "Plan is
\* marked completed before every Step completed" is never raised, nor, while no
\* Step is under way before its dependencies, "Plan has incomplete Steps but no
\* ready Step", and the executor never finds a Plan that it would have to close.
StatusFits ==
    /\ plan.status = "completed" => AllCompleted(plan.steps)
    /\ plan.status = "failed" => Some(plan.steps, "failed")
    /\ plan.status \in Active =>
          ~Settles(plan) /\ ~Some(plan.steps, "cancelled")
    /\ plan.status \in {"pending", "running"} /\ Unready = {} => SelectStep(GetPlan, TRUE) # 0

\* An agent is only called for a Step whose dependencies are completed, though
\* Step and dependencies were read before the claim was taken and the Step is
\* read anew between the two: the executor never executes another Step than a
\* ready one, unless an agent's event or a request of its own began it before.
DependenciesFirst ==
    \A h \in Executor :
        exec[h].pc = "invoking" => Done(plan.steps, exec[h].step) \/ exec[h].step \in early

\* Executors, requests, events and lapsed claims may cross: the Plan can always
\* go on, and the executor goes on in the order of the dependencies.
ClaimsSafe == ClaimFits /\ StatusFits /\ DependenciesFirst

\* A settled Step is never changed again, neither by a late executor nor by a
\* late event.
StepsAreFinal ==
    [][\A s \in Steps : plan.steps[s] \in {"completed", "failed", "cancelled"} =>
                            plan'.steps[s] = plan.steps[s]]_claimVars

\* A claim TLC refutes (README, Observations): no Step is executed before its
\* dependencies, by whatever way it was begun.
InvokedAfterDependencies ==
    \A h \in Executor : exec[h].pc = "invoking" => Done(plan.steps, exec[h].step)

Reclaims(s) == plan'.claim.id \notin {0, plan.claim.id} /\ plan'.claim.step = s

\* A claim TLC refutes (README, Observations): a blocked Step is executed again
\* with a key no agent has seen.
FreshKeyAfterBlocked ==
    [][\A s \in Steps : Reclaims(s) /\ plan.steps[s] = "blocked" =>
                            plan'.claim.key \notin keys]_claimVars

=============================================================================
