--------------------------- MODULE DelegatedRuns ---------------------------
(***************************************************************************)
(* The delegated-run lifecycle of the PostgreSQL backend: Canonical Turns, *)
(* Agent Runs handed to external agents, the Plans whose Steps the Runs    *)
(* execute, the Agent Events and Results the agents post back, the         *)
(* transactional outbox, and the deadline sweeper.                         *)
(*                                                                         *)
(* Every store operation that is ONE database transaction with its rows    *)
(* locked (start, progress, fail, cancel, timeout, cancel_unstarted) is    *)
(* one action.  `complete' is not: it reads the Run row and the Turn row   *)
(* with two statements of a READ COMMITTED session, reads the Plan in      *)
(* another session, and commits the bundle it computed from those rows in  *)
(* a third.  It is four actions, so other transactions interleave with it. *)
(*                                                                         *)
(* A refused command, a rolled back transaction and the replay of an event *)
(* that is already stored change no row: they are stuttering steps.  A     *)
(* command can be delivered late, repeatedly, or never: its expected       *)
(* version is any version the Run has had.                                 *)
(***************************************************************************)
EXTENDS Integers, FiniteSets

CONSTANTS
  Turns,        \* Canonical Turns, one per accepted request_id
  Runs,         \* Delegated Runs, each one delegation key (unique in agent_runs)
  Plans,
  Steps,
  EventIds,     \* event ids chosen by the agents
  ResultIds,    \* result ids chosen by the agents
  Workers,      \* request handlers that can be inside `complete'
  Sweepers,     \* deadline sweepers, one per application replica
  TurnOf,       \* Run  -> Turn it was delegated for
  StepOf,       \* Run  -> Plan Step it executes, or None
  PlanOf,       \* Step -> Plan
  Position,     \* Step -> its place in plan.steps
  DependsOn,    \* Step -> Steps it depends on
  DeadlineOf,   \* Run  -> deadline_at
  RouteTurns,   \* Turns for which some routing attempt ends in a direct reply
  CrashProne,   \* Sweepers whose process may stop in the middle of a batch
  BatchSize,    \* limit of one list_overdue query
  MaxClock,     \* bound: the last clock value
  AttachBound,  \* bound: routing attempts attach a Plan below this Turn version
  None

(* What the schemas and the unique keys of the tables guarantee: a         *)
(* delegation key names at most one Run per Turn and Step, dependencies    *)
(* stay inside the Plan, and list_overdue breaks deadline ties by run_id.  *)
ASSUME ConstantsOK ==
  /\ TurnOf \in [Runs -> Turns]
  /\ StepOf \in [Runs -> Steps \cup {None}]
  /\ PlanOf \in [Steps -> Plans]
  /\ Position \in [Steps -> Nat]
  /\ DependsOn \in [Steps -> SUBSET Steps]
  /\ DeadlineOf \in [Runs -> Nat]
  /\ RouteTurns \subseteq Turns
  /\ CrashProne \subseteq Sweepers
  /\ BatchSize \in Nat \ {0}
  /\ MaxClock \in Nat
  /\ AttachBound \in Nat
  /\ None \notin Turns \cup Runs \cup Plans \cup Steps \cup EventIds \cup ResultIds
  /\ EventIds \cap Runs = {}

ASSUME DelegationKeysOK ==
  /\ \A r, q \in Runs : r # q => DeadlineOf[r] # DeadlineOf[q]
  /\ \A r, q \in Runs :
       TurnOf[r] = TurnOf[q] /\ StepOf[r] = StepOf[q] /\ StepOf[r] # None => r = q
  /\ \A s, u \in Steps : Position[s] = Position[u] => s = u
  /\ \A s \in Steps : \A d \in DependsOn[s] :
       PlanOf[d] = PlanOf[s] /\ Position[d] < Position[s]

VARIABLES
  turn,    \* canonical_turns:  status, state_version and references_text
  run,     \* agent_runs:       "absent" until started
  plan,    \* plans, plan_steps
  event,   \* agent_events by event id (primary key), None while unused
  result,  \* agent_results by result id (primary key): the Run, or None
  outbox,  \* turn_outbox: the idempotency keys "turn.<status>:<turn>" taken
  txn,     \* what each request handler inside `complete' has read so far
  sweep,   \* the batch each sweeper is working through
  now      \* wall clock

rows == <<turn, run, plan, event, result, outbox>>
vars == <<turn, run, plan, event, result, outbox, txn, sweep, now>>

-----------------------------------------------------------------------------
(* Types                                                                   *)

Active == {"pending", "running", "blocked"}
RunTerminal == {"completed", "failed", "cancelled", "timed_out"}
PlanTerminal == {"completed", "failed", "cancelled"}

(* The timeout event id is a digest of the Run id and its deadline: one    *)
(* reserved id per Run, here the Run itself.                               *)
TimeoutEventId(r) == r
AllEventIds == EventIds \cup Runs

TurnRow ==
  [status  : Active \cup RunTerminal,
   version : Nat,
   runs    : SUBSET Runs,
   results : SUBSET ResultIds,
   plan    : Plans \cup {None},
   route   : BOOLEAN]

RunRow ==
  [status : {"absent"} \cup Active \cup RunTerminal,
   version : Nat,
   seq     : Nat,
   last    : AllEventIds \cup {None}]

PlanRow ==
  [status  : Active \cup PlanTerminal,
   version : Nat,
   current : Steps \cup {None},
   steps   : [Steps -> Active \cup PlanTerminal]]

EventRow ==
  [run     : Runs,
   status  : {"running", "blocked"} \cup RunTerminal,
   seq     : Nat,
   version : Nat]

ASSUME NoneIsNoEvent == None \notin EventRow

Txn ==
  [stage   : {"run_read", "turn_read", "ready"},
   event   : EventIds,
   run     : Runs,
   result  : ResultIds,
   runrow  : RunRow,
   turnrow : TurnRow \cup {None},
   planrow : PlanRow \cup {None}]

(* The rows a handler has read at each stage.                              *)
StageOK(b) ==
  /\ b.stage = "turn_read" => StepOf[b.run] # None
  /\ b.stage \in {"turn_read", "ready"} => b.turnrow \in TurnRow
  /\ b.stage = "ready" /\ StepOf[b.run] # None => b.planrow \in PlanRow

Batch == [at : Nat, todo : SUBSET [run : Runs, version : Nat]]

TypeOK ==
  /\ turn \in [Turns -> TurnRow]
  /\ run \in [Runs -> RunRow]
  /\ plan \in [Plans -> PlanRow]
  /\ event \in [AllEventIds -> EventRow \cup {None}]
  /\ result \in [ResultIds -> Runs \cup {None}]
  /\ outbox \in [Turns -> SUBSET RunTerminal]
  /\ txn \in [Workers -> Txn \cup {None}]
  /\ \A k \in Workers : txn[k] # None => StageOK(txn[k])
  /\ sweep \in [Sweepers -> Batch]
  /\ now \in Nat

-----------------------------------------------------------------------------
(* Plans                                                                   *)

StepsOf(p) == {s \in Steps : PlanOf[s] = p}

FirstStep(S) == CHOOSE s \in S : \A u \in S : Position[s] <= Position[u]

StepsIn(p, steps, status) == {s \in StepsOf(p) : steps[s] = status}

ReadySteps(p, steps) ==
  {s \in StepsIn(p, steps, "pending") :
     DependsOn[s] \subseteq StepsIn(p, steps, "completed")}

(* A Plan as plan_builder creates it: the model validator points           *)
(* current_step_id at the first ready Step.                                *)
NewPlan(p) ==
  LET steps == [s \in Steps |-> "pending"]
  IN  [status  |-> "pending",
       version |-> 1,
       current |-> IF ReadySteps(p, steps) = {} THEN None
                   ELSE FirstStep(ReadySteps(p, steps)),
       steps   |-> steps]

RunPlan(r) == IF StepOf[r] = None THEN None ELSE PlanOf[StepOf[r]]

(* The Plan and Step that a delegation or a clarification names must both  *)
(* still be active.                                                        *)
ValidatePlanStep(r) ==
  StepOf[r] # None =>
    /\ plan[RunPlan(r)].status \in Active
    /\ plan[RunPlan(r)].steps[StepOf[r]] \in Active

(* Mutant: a cancelled Step counts as done.                                *)
PlanStateCountsCancelled(p, steps) ==
  IF StepsIn(p, steps, "completed") \cup StepsIn(p, steps, "cancelled") = StepsOf(p)
  THEN {<<"completed", None>>}
  ELSE {<<"running", s>> : s \in ReadySteps(p, steps)}

(* Plan status and current Step once a Step is completed; there is none    *)
(* when the Plan is incomplete and no Step can run (the code raises).      *)
PlanStateAfterCompletion(p, steps) ==
  LET In(status) == StepsIn(p, steps, status)
  IN  CASE In("completed") = StepsOf(p) -> {<<"completed", None>>}
        [] In("completed") # StepsOf(p) /\ In("failed") # {} -> {<<"failed", None>>}
        [] /\ In("completed") # StepsOf(p) /\ In("failed") = {}
           /\ In("blocked") # {} -> {<<"blocked", FirstStep(In("blocked"))>>}
        [] /\ In("completed") # StepsOf(p) /\ In("failed") = {}
           /\ In("blocked") = {} /\ In("running") # {}
             -> {<<"running", FirstStep(In("running"))>>}
        [] OTHER -> IF ReadySteps(p, steps) = {} THEN {}
                    ELSE {<<"running", FirstStep(ReadySteps(p, steps))>>}

(* The Plan rows that completing Step s of the row `old' can produce.      *)
CompletePlanStep(p, old, s) ==
  LET steps == [old.steps EXCEPT ![s] = "completed"]
  IN  {[status |-> st[1], version |-> old.version + 1, current |-> st[2], steps |-> steps] :
         st \in PlanStateAfterCompletion(p, steps)}

(* fail and timeout mark the Run's Step and its Plan failed whatever their *)
(* status; cancel marks them cancelled.                                    *)
ClosePlanStep(r, status) ==
  IF StepOf[r] = None THEN plan
  ELSE [plan EXCEPT ![RunPlan(r)] =
          [status  |-> status,
           version |-> @.version + 1,
           current |-> None,
           steps   |-> [@.steps EXCEPT ![StepOf[r]] = status]]]

FailPlanStep(r) == ClosePlanStep(r, "failed")

CancelPlanStep(r) == ClosePlanStep(r, "cancelled")

-----------------------------------------------------------------------------
(* Turns and Runs                                                          *)

NewTurn ==
  [status |-> "pending", version |-> 1, runs |-> {}, results |-> {},
   plan |-> None, route |-> FALSE]

AbsentRun == [status |-> "absent", version |-> 0, seq |-> 0, last |-> None]

NewRun == [status |-> "pending", version |-> 1, seq |-> 0, last |-> None]

Init ==
  /\ turn = [t \in Turns |-> NewTurn]
  /\ run = [r \in Runs |-> AbsentRun]
  /\ plan = [p \in Plans |-> NewPlan(p)]
  /\ event = [e \in AllEventIds |-> None]
  /\ result = [x \in ResultIds |-> None]
  /\ outbox = [t \in Turns |-> {}]
  /\ txn = [k \in Workers |-> None]
  /\ sweep = [w \in Sweepers |-> [at |-> 0, todo |-> {}]]
  /\ now = 0

(* Each routing attempt of a request attaches the Plan it decided on, then *)
(* delegates or waits for the user (blocked).                              *)
AttachPlan(t, p, blocked) ==
  /\ turn[t].status \notin RunTerminal
  /\ turn[t].plan \in {None, p}
  /\ turn[t].version < AttachBound
  /\ turn' = [turn EXCEPT ![t].status = IF blocked THEN "blocked" ELSE "running",
                          ![t].version = @ + 1,
                          ![t].plan = p]
  /\ UNCHANGED <<run, plan, event, result, outbox, txn, sweep, now>>

(* Mutant: the direct reply is committed without its outbox row.           *)
CompleteRouteUnannounced(t) ==
  /\ t \in RouteTurns
  /\ turn[t].status \notin RunTerminal
  /\ turn' = [turn EXCEPT ![t].status = "completed", ![t].version = @ + 1,
                          ![t].runs = {}, ![t].plan = None, ![t].route = TRUE]
  /\ UNCHANGED <<run, plan, event, result, outbox, txn, sweep, now>>

(* A routing attempt that ends in a direct reply completes the Turn and    *)
(* replaces all its references.                                            *)
CompleteRouteOnly(t) ==
  /\ t \in RouteTurns
  /\ turn[t].status \notin RunTerminal
  /\ "completed" \notin outbox[t]
  /\ turn' = [turn EXCEPT ![t] =
                [status |-> "completed", version |-> @.version + 1, runs |-> {},
                 results |-> {}, plan |-> None, route |-> TRUE]]
  /\ outbox' = [outbox EXCEPT ![t] = @ \cup {"completed"}]
  /\ UNCHANGED <<run, plan, event, result, txn, sweep, now>>

(* Mutant: start does not look at the Turn's status.                       *)
AnyTurnStarts(t) == TRUE

ValidateStartTurn(t) == turn[t].status \notin RunTerminal

AttachRun(row, r) ==
  [row EXCEPT !.status = "running",
              !.version = @ + 1,
              !.runs = @ \cup {r},
              !.plan = IF StepOf[r] = None THEN @ ELSE RunPlan(r)]

Start(r) ==
  /\ run[r].status = "absent"
  /\ ValidateStartTurn(TurnOf[r])
  /\ ValidatePlanStep(r)
  /\ StepOf[r] # None => turn[TurnOf[r]].plan \in {None, RunPlan(r)}
  /\ run' = [run EXCEPT ![r] = NewRun]
  /\ turn' = [turn EXCEPT ![TurnOf[r]] = AttachRun(@, r)]
  /\ UNCHANGED <<plan, event, result, outbox, txn, sweep, now>>

-----------------------------------------------------------------------------
(* Progress                                                                *)

ValidateProgressRun(r, v, q) ==
  /\ run[r].status \in Active
  /\ run[r].version = v
  /\ run[r].seq < q

(* Only agent_clarify touches the Plan; it needs one.                      *)
ProjectClarification(r) ==
  [plan EXCEPT ![RunPlan(r)] =
     [status  |-> "blocked",
      version |-> @.version + 1,
      current |-> StepOf[r],
      steps   |-> [@.steps EXCEPT ![StepOf[r]] = "blocked"]]]

StoreProgress(e, r, q, status) ==
  /\ run' = [run EXCEPT ![r].status = status,
                        ![r].version = @ + 1,
                        ![r].seq = q]
  /\ event' = [event EXCEPT ![e] = [run |-> r, status |-> status, seq |-> q,
                                    version |-> run[r].version + 1]]
  /\ UNCHANGED <<turn, result, outbox, txn, sweep, now>>

Progress(e, r, v, q) ==
  /\ event[e] = None
  /\ ValidateProgressRun(r, v, q)
  /\ StoreProgress(e, r, q, "running")
  /\ UNCHANGED plan

Clarify(e, r, v, q) ==
  /\ event[e] = None
  /\ ValidateProgressRun(r, v, q)
  /\ StepOf[r] # None
  /\ ValidatePlanStep(r)
  /\ plan' = ProjectClarification(r)
  /\ StoreProgress(e, r, q, "blocked")

-----------------------------------------------------------------------------
(* Completion: read, read, read, commit                                    *)

ValidateFinalRun(r, v) == run[r].status \in Active /\ run[r].version = v

(* The row is validated once the Turn has been read too, but by the values *)
(* read here: a refusal writes nothing either way.                         *)
CompleteReadRun(k, e, r, v, x) ==
  /\ txn[k] = None
  /\ event[e] = None
  /\ ValidateFinalRun(r, v)
  /\ txn' = [txn EXCEPT ![k] =
               [stage |-> "run_read", event |-> e, run |-> r, result |-> x,
                runrow |-> run[r], turnrow |-> None, planrow |-> None]]
  /\ UNCHANGED <<rows, sweep, now>>

CompleteReadTurn(k) ==
  /\ txn[k] # None
  /\ txn[k].stage = "run_read"
  /\ txn' = [txn EXCEPT ![k].turnrow = turn[TurnOf[txn[k].run]],
                        ![k].stage = IF StepOf[txn[k].run] = None THEN "ready"
                                     ELSE "turn_read"]
  /\ UNCHANGED <<rows, sweep, now>>

CompleteReadPlan(k) ==
  /\ txn[k] # None
  /\ txn[k].stage = "turn_read"
  /\ txn' = [txn EXCEPT ![k].planrow = plan[RunPlan(txn[k].run)],
                        ![k].stage = "ready"]
  /\ UNCHANGED <<rows, sweep, now>>

(* The bundle's Turn must reference its Run, its Result (appended by the   *)
(* bundle itself) and its Plan.                                            *)
ValidateBundle(b) ==
  /\ b.run \in b.turnrow.runs
  /\ StepOf[b.run] # None => b.turnrow.plan = RunPlan(b.run)

(* Mutant: the commit increments the row it finds, not the row it read.    *)
CompletedRunInPlace(b) ==
  [status |-> "completed", version |-> run[b.run].version + 1,
   seq |-> run[b.run].seq + 1, last |-> b.event]

CompletedRun(b) ==
  [status |-> "completed", version |-> b.runrow.version + 1,
   seq |-> b.runrow.seq + 1, last |-> b.event]

CompletedTurn(b) ==
  [b.turnrow EXCEPT !.status = "completed",
                    !.version = @ + 1,
                    !.results = @ \cup {b.result}]

CompletionEvent(b) ==
  [run |-> b.run, status |-> "completed", seq |-> b.runrow.seq + 1,
   version |-> b.runrow.version + 1]

(* Mutant: the last writer of the Turn wins.                               *)
LastWriterWins(b) == TRUE

(* The coordinator locks the Turn row and the Run row but compares only    *)
(* the Turn's version.                                                     *)
TurnUnchangedSinceRead(b) == turn[TurnOf[b.run]].version = b.turnrow.version

(* Mutant: the Plan is rewritten whatever its version.                     *)
OverwritePlan(b) ==
  IF StepOf[b.run] = None THEN plan' = plan
  ELSE \E row \in CompletePlanStep(RunPlan(b.run), b.planrow, StepOf[b.run]) :
         plan' = [plan EXCEPT ![RunPlan(b.run)] = row]

(* _apply_plan compares the Plan's version and rewrites row and Steps.     *)
ApplyPlan(b) ==
  IF StepOf[b.run] = None THEN plan' = plan
  ELSE LET p == RunPlan(b.run)
       IN  /\ plan[p].version = b.planrow.version
           /\ \E row \in CompletePlanStep(p, b.planrow, StepOf[b.run]) :
                plan' = [plan EXCEPT ![p] = row]

(* Mutant: the outbox has no unique key.                                   *)
NoOutboxKey(b) == event[b.event] = None /\ result[b.result] = None

(* The primary keys of agent_events and agent_results and the unique key   *)
(* of turn_outbox; a conflict rolls the whole transaction back.            *)
CompletionKeysFree(b) ==
  /\ event[b.event] = None
  /\ result[b.result] = None
  /\ "completed" \notin outbox[TurnOf[b.run]]

CompleteCommit(k) ==
  LET b == txn[k]
      t == TurnOf[b.run]
  IN  /\ b # None
      /\ b.stage = "ready"
      /\ ValidateBundle(b)
      /\ TurnUnchangedSinceRead(b)
      /\ CompletionKeysFree(b)
      /\ run' = [run EXCEPT ![b.run] = CompletedRun(b)]
      /\ result' = [result EXCEPT ![b.result] = b.run]
      /\ event' = [event EXCEPT ![b.event] = CompletionEvent(b)]
      /\ ApplyPlan(b)
      /\ turn' = [turn EXCEPT ![t] = CompletedTurn(b)]
      /\ outbox' = [outbox EXCEPT ![t] = @ \cup {"completed"}]
      /\ txn' = [txn EXCEPT ![k] = None]
      /\ UNCHANGED <<sweep, now>>

(* A refusal, a rollback or the death of the handler's process.            *)
CompleteAbort(k) ==
  /\ txn[k] # None
  /\ txn' = [txn EXCEPT ![k] = None]
  /\ UNCHANGED <<rows, sweep, now>>

-----------------------------------------------------------------------------
(* Failure, cancellation, timeout: one transaction each                    *)

(* What the three write besides the Plan.                                  *)
Close(id, r, status) ==
  LET t == TurnOf[r]
  IN  /\ run' = [run EXCEPT ![r] = [status |-> status, version |-> @.version + 1,
                                    seq |-> @.seq + 1, last |-> id]]
      /\ turn' = [turn EXCEPT ![t].status = status, ![t].version = @ + 1]
      /\ event' = [event EXCEPT ![id] = [run |-> r, status |-> status,
                                         seq |-> run[r].seq + 1,
                                         version |-> run[r].version + 1]]
      /\ outbox' = [outbox EXCEPT ![t] = @ \cup {status}]
      /\ UNCHANGED <<result, txn, now>>

ValidateFailureRun(r, v) == run[r].status \in Active /\ run[r].version = v
ValidateFailureTurn(t) == turn[t].status \notin RunTerminal

Fail(e, r, v) ==
  /\ event[e] = None
  /\ ValidateFailureRun(r, v)
  /\ ValidateFailureTurn(TurnOf[r])
  /\ "failed" \notin outbox[TurnOf[r]]
  /\ Close(e, r, "failed")
  /\ plan' = FailPlanStep(r)
  /\ UNCHANGED sweep

ValidateCancelRun(r, v) == run[r].status \in Active /\ run[r].version = v
ValidateCancelTurn(t) == turn[t].status \notin RunTerminal

Cancel(e, r, v) ==
  /\ event[e] = None
  /\ ValidateCancelRun(r, v)
  /\ ValidateCancelTurn(TurnOf[r])
  /\ "cancelled" \notin outbox[TurnOf[r]]
  /\ Close(e, r, "cancelled")
  /\ plan' = CancelPlanStep(r)
  /\ UNCHANGED sweep

Overdue(at) == {r \in Runs : run[r].status \in Active /\ DeadlineOf[r] <= at}

(* The first BatchSize overdue Runs in deadline order.                     *)
ListOverdue(at) ==
  {r \in Overdue(at) :
     Cardinality({q \in Overdue(at) : DeadlineOf[q] < DeadlineOf[r]}) < BatchSize}

SweepList(w) ==
  /\ sweep[w].todo = {}
  /\ ListOverdue(now) # {}
  /\ sweep' = [sweep EXCEPT ![w] =
                 [at |-> now,
                  todo |-> {[run |-> r, version |-> run[r].version] :
                              r \in ListOverdue(now)}]]
  /\ UNCHANGED <<rows, txn, now>>

(* run_once takes the listed Runs in order.                                *)
NextListed(w) ==
  CHOOSE i \in sweep[w].todo :
    \A j \in sweep[w].todo : DeadlineOf[i.run] <= DeadlineOf[j.run]

(* Mutant: a Run times out only strictly after its deadline.               *)
StrictlyAfterDeadline(i, at) ==
  /\ run[i.run].status \in Active
  /\ run[i.run].version = i.version
  /\ DeadlineOf[i.run] < at

ValidateTimeoutRun(i, at) ==
  /\ run[i.run].status \in Active
  /\ run[i.run].version = i.version
  /\ DeadlineOf[i.run] <= at

(* The timeout command of the batch's next Run passes every check of the   *)
(* store; only the outbox key remains.  The Turn's status is no check.     *)
TimeoutAccepted(w) ==
  /\ sweep[w].todo # {}
  /\ event[TimeoutEventId(NextListed(w).run)] = None
  /\ ValidateTimeoutRun(NextListed(w), sweep[w].at)

TimeoutKeyFree(w) == "timed_out" \notin outbox[TurnOf[NextListed(w).run]]

SweepTimeout(w) ==
  LET r == NextListed(w).run
  IN  /\ TimeoutAccepted(w)
      /\ TimeoutKeyFree(w)
      /\ Close(TimeoutEventId(r), r, "timed_out")
      /\ plan' = FailPlanStep(r)
      /\ sweep' = [sweep EXCEPT ![w].todo = @ \ {NextListed(w)}]

(* A conflict, or an event stored already, moves on to the next Run.       *)
SweepSkip(w) ==
  /\ sweep[w].todo # {}
  /\ ~TimeoutAccepted(w)
  /\ sweep' = [sweep EXCEPT ![w].todo = @ \ {NextListed(w)}]
  /\ UNCHANGED <<rows, txn, now>>

(* A taken outbox key is an IntegrityError, which run_once does not catch: *)
(* the rest of the batch is dropped.                                       *)
SweepBatchFails(w) ==
  /\ TimeoutAccepted(w)
  /\ ~TimeoutKeyFree(w)
  /\ sweep' = [sweep EXCEPT ![w].todo = {}]
  /\ UNCHANGED <<rows, txn, now>>

SweepCrash(w) ==
  /\ w \in CrashProne
  /\ sweep[w].todo # {}
  /\ sweep' = [sweep EXCEPT ![w].todo = {}]
  /\ UNCHANGED <<rows, txn, now>>

-----------------------------------------------------------------------------
(* User operations on Plans, and time                                      *)

ConfirmPlan(p) ==
  /\ plan[p].status = "pending"
  /\ plan' = [plan EXCEPT ![p].status = "running", ![p].version = @ + 1]
  /\ UNCHANGED <<turn, run, event, result, outbox, txn, sweep, now>>

ActiveRunsOf(p) == {r \in Runs : RunPlan(r) = p /\ run[r].status \in Active}

CancelUnstarted(p) ==
  /\ plan[p].status \in Active
  /\ ActiveRunsOf(p) = {}
  /\ StepsIn(p, plan[p].steps, "running") = {}
  /\ plan' = [plan EXCEPT ![p] =
                [status  |-> "cancelled",
                 version |-> @.version + 1,
                 current |-> None,
                 steps   |-> [s \in Steps |->
                                IF s \in StepsOf(p) /\ @.steps[s] \in {"pending", "blocked"}
                                THEN "cancelled" ELSE @.steps[s]]]]
  /\ UNCHANGED <<turn, run, event, result, outbox, txn, sweep, now>>

Tick ==
  /\ now < MaxClock
  /\ now' = now + 1
  /\ UNCHANGED <<rows, txn, sweep>>

-----------------------------------------------------------------------------

(* The expected versions a command can carry: those the Run has had.       *)
SeenVersions(r) == 1..run[r].version

(* An agent numbers its progress events itself: the next number, or one    *)
(* that was used already.                                                  *)
Sequences(r) == {run[r].seq, run[r].seq + 1}

AgentCommand ==
  \E e \in EventIds, r \in Runs :
    \E v \in SeenVersions(r) :
      \/ \E q \in Sequences(r) : Progress(e, r, v, q) \/ Clarify(e, r, v, q)
      \/ \E k \in Workers, x \in ResultIds : CompleteReadRun(k, e, r, v, x)
      \/ Fail(e, r, v)
      \/ Cancel(e, r, v)

CompletionStep ==
  \E k \in Workers :
    CompleteReadTurn(k) \/ CompleteReadPlan(k) \/ CompleteCommit(k) \/ CompleteAbort(k)

SweeperStep(w) ==
  SweepList(w) \/ SweepTimeout(w) \/ SweepSkip(w) \/ SweepBatchFails(w)

Next ==
  \/ \E t \in Turns, p \in Plans, blocked \in BOOLEAN : AttachPlan(t, p, blocked)
  \/ \E t \in Turns : CompleteRouteOnly(t)
  \/ \E r \in Runs : Start(r)
  \/ AgentCommand
  \/ CompletionStep
  \/ \E w \in Sweepers : SweeperStep(w) \/ SweepCrash(w)
  \/ \E p \in Plans : ConfirmPlan(p) \/ CancelUnstarted(p)
  \/ Tick

Spec == Init /\ [][Next]_vars

(* The lifespan task of every replica that stays up keeps sweeping.        *)
SweeperFairness == \A w \in Sweepers \ CrashProne : WF_vars(SweeperStep(w))

FairSpec == Spec /\ SweeperFairness

-----------------------------------------------------------------------------
(* Properties                                                              *)

Sealed(t) == turn[t].status \in RunTerminal
Finished(r) == run[r].status \in RunTerminal

(* A Run is terminal only together with everything its closing transaction *)
(* writes: the terminal event carries the Run's own status, sequence and   *)
(* version, although `complete' computes them from rows it read earlier.   *)
TerminalEventStored ==
  \A r \in Runs : Finished(r) =>
    /\ run[r].last # None
    /\ event[run[r].last] = [run |-> r, status |-> run[r].status,
                             seq |-> run[r].seq, version |-> run[r].version]

(* A finished Run has sealed its Turn, and each seal was announced in the  *)
(* outbox: the Memory consumers are told of the status the Turn shows.     *)
SealAnnounced ==
  /\ \A r \in Runs : Finished(r) => Sealed(TurnOf[r]) /\ run[r].status \in outbox[TurnOf[r]]
  /\ \A t \in Turns : Sealed(t) => turn[t].status \in outbox[t]

(* A finished Run leaves no active Plan Step behind, whatever transaction  *)
(* rewrote the Plan since.                                                 *)
FinishedRunSettlesStep ==
  \A r \in Runs : Finished(r) /\ StepOf[r] # None =>
    plan[RunPlan(r)].steps[StepOf[r]] \in PlanTerminal

(* However many handlers race to complete the Runs of a Turn, it gets at   *)
(* most one Result, of a completed Run, and its references name it.        *)
OneResultPerTurn ==
  /\ \A x, y \in ResultIds :
       result[x] # None /\ result[y] # None /\ TurnOf[result[x]] = TurnOf[result[y]] => x = y
  /\ \A x \in ResultIds : result[x] # None =>
       run[result[x]].status = "completed" /\ x \in turn[TurnOf[result[x]]].results
  /\ \A t \in Turns : \A x \in turn[t].results :
       result[x] # None /\ TurnOf[result[x]] = t

(* Why: the Turn row a handler has read is the current row, or its version *)
(* is out of date, so the version compared at commit decides whether the   *)
(* bundle was computed from what it overwrites ...                         *)
SnapshotCurrent ==
  \A k \in Workers : txn[k] # None =>
    LET row == turn[TurnOf[txn[k].run]]
    IN  txn[k].stage # "run_read" =>
          /\ txn[k].turnrow.version <= row.version
          /\ txn[k].turnrow.version = row.version => txn[k].turnrow = row

(* ... and a Result seals its Turn under the one "completed" outbox key.   *)
ResultSeals ==
  \A x \in ResultIds : result[x] # None =>
    Sealed(TurnOf[result[x]]) /\ "completed" \in outbox[TurnOf[result[x]]]

(* The inductive invariant behind these.                                   *)
SafetyInv ==
  TypeOK /\ SnapshotCurrent /\ SealAnnounced /\ ResultSeals /\ OneResultPerTurn

(* A Run its Turn does not reference was dropped by a direct reply.        *)
UnreferencedRunWasDropped ==
  \A r \in Runs :
    run[r].status # "absent" /\ r \notin turn[TurnOf[r]].runs => turn[TurnOf[r]].route

(* Every Run can be accounted for: a finished one by its terminal event,   *)
(* one missing from its Turn by the direct reply that dropped it.          *)
RunsAreAccountedFor == TerminalEventStored /\ UnreferencedRunWasDropped

(* Only the completion of every Step completes a Plan, and no later        *)
(* failure or cancellation leaves it marked completed.                     *)
CompletedPlanIsComplete ==
  \A p \in Plans : plan[p].status = "completed" =>
    \A s \in StepsOf(p) : plan[p].steps[s] = "completed"

(* A Plan that can still be delegated from has no failed Step.             *)
ActivePlanHasNoFailedStep ==
  \A p \in Plans : plan[p].status \in Active =>
    StepsIn(p, plan[p].steps, "failed") = {}

(* A blocked Plan shows the user a Step that is really waiting.            *)
BlockedPlanShowsBlockedStep ==
  \A p \in Plans : plan[p].status = "blocked" =>
    plan[p].current \in StepsIn(p, plan[p].steps, "blocked")

(* The status of a Plan fits its Steps, whichever Turns of the session     *)
(* complete, fail, cancel or ask in whatever order.                        *)
PlanShowsSteps ==
  CompletedPlanIsComplete /\ ActivePlanHasNoFailedStep /\ BlockedPlanShowsBlockedStep

(* No late event, retry or sweeper brings a sealed Turn back to life.      *)
TurnNeverReopens == [][\A t \in Turns : Sealed(t) => Sealed(t)']_vars

(* A completed Run keeps its outcome: nothing overwrites it any more.      *)
CompletedRunIsFinal ==
  [][\A r \in Runs : run[r].status = "completed" => run'[r] = run[r]]_vars

(* A stored event is never rewritten by a replay or by another command     *)
(* that carries the same id.                                               *)
EventsAreImmutable ==
  [][\A e \in AllEventIds : event[e] # None => event'[e] = event[e]]_vars

(* An overdue Run becomes terminal while some sweeper stays up.            *)
OverdueRunsTerminate ==
  \A r \in Runs : (run[r].status \in Active /\ DeadlineOf[r] <= now) ~> Finished(r)

(* Claims of the documents that TLC refutes (README, Observations).        *)

(* A committed terminal status of a Run is never replaced.                 *)
RunOutcomeStable ==
  [][\A r \in Runs : Finished(r) => run'[r].status = run[r].status]_vars

(* A sealed Turn is never changed.                                         *)
SealedTurnUnchanged ==
  [][\A t \in Turns : Sealed(t) => turn'[t] = turn[t]]_vars

=============================================================================
