---------------------------- MODULE MemoryRuns ----------------------------
(***************************************************************************)
(* The delegated-run lifecycle of the in-process Memory backend, on the    *)
(* variables of DelegatedRuns.  Nothing a store awaits ever suspends, so   *)
(* every command, `complete' included, is one step.  In place of row locks *)
(* and unique keys there is MemoryTurnRepository.update_if_version, which  *)
(* refuses a terminal Turn, an outbox that returns the row it has for a    *)
(* key, and rollbacks written by hand from snapshots.                      *)
(*                                                                         *)
(* start, progress and clarify, the listing of overdue Runs, and the       *)
(* operations on Plans do what those of the database do.                   *)
(***************************************************************************)
EXTENDS DelegatedRuns

(* Mutant: update_if_version compares the version only, which no other     *)
(* step can have changed.                                                  *)
AlwaysUpdatable(t) == TRUE

Updatable(t) == turn[t].status \notin RunTerminal

AddIdempotent(t, status) == outbox' = [outbox EXCEPT ![t] = @ \cup {status}]

MemStart(r) == Updatable(TurnOf[r]) /\ Start(r)

MemProgress(e, r, v, q) == Progress(e, r, v, q) \/ Clarify(e, r, v, q)

(* A direct reply completes the Turn with no regard to the outbox key.     *)
MemCompleteRouteOnly(t) ==
  /\ t \in RouteTurns
  /\ Updatable(t)
  /\ turn' = [turn EXCEPT ![t] =
                [status |-> "completed", version |-> @.version + 1, runs |-> {},
                 results |-> {}, plan |-> None, route |-> TRUE]]
  /\ AddIdempotent(t, "completed")
  /\ UNCHANGED <<run, plan, event, result, txn, sweep, now>>

(* The Plan a completion stores.                                           *)
CompletesStep(r) ==
  IF StepOf[r] = None THEN plan' = plan
  ELSE \E row \in CompletePlanStep(RunPlan(r), plan[RunPlan(r)], StepOf[r]) :
         plan' = [plan EXCEPT ![RunPlan(r)] = row]

(* Results are a list, which accepts an id twice; result[x] is the last.   *)
MemComplete(e, r, v, x) ==
  LET t == TurnOf[r]
  IN  /\ event[e] = None
      /\ ValidateFinalRun(r, v)
      /\ Updatable(t)
      /\ run' = [run EXCEPT ![r] = [status |-> "completed", version |-> @.version + 1,
                                    seq |-> @.seq + 1, last |-> e]]
      /\ result' = [result EXCEPT ![x] = r]
      /\ CompletesStep(r)
      /\ turn' = [turn EXCEPT ![t].status = "completed", ![t].version = @ + 1,
                              ![t].results = @ \cup {x}]
      /\ event' = [event EXCEPT ![e] = [run |-> r, status |-> "completed",
                                        seq |-> run[r].seq + 1,
                                        version |-> run[r].version + 1]]
      /\ AddIdempotent(t, "completed")
      /\ UNCHANGED <<txn, sweep, now>>

(* The Turn is sealed: the rollback restores Run, Turn, Results, events    *)
(* and outbox, and forgets the Plan that was saved before.  A repetition   *)
(* only raises the Plan's version again; it is left out (a bound).         *)
MemCompleteRefused(e, r, v) ==
  /\ event[e] = None
  /\ ValidateFinalRun(r, v)
  /\ ~Updatable(TurnOf[r])
  /\ StepOf[r] # None
  /\ plan[RunPlan(r)].steps[StepOf[r]] # "completed"
  /\ CompletesStep(r)
  /\ UNCHANGED <<turn, run, event, result, outbox, txn, sweep, now>>

(* fail and cancel check the Turn themselves, and no key stands in their   *)
(* way.                                                                    *)
MemFail(e, r, v) ==
  /\ event[e] = None
  /\ ValidateFailureRun(r, v)
  /\ ValidateFailureTurn(TurnOf[r])
  /\ Close(e, r, "failed")
  /\ plan' = FailPlanStep(r)
  /\ UNCHANGED sweep

MemCancel(e, r, v) ==
  /\ event[e] = None
  /\ ValidateCancelRun(r, v)
  /\ ValidateCancelTurn(TurnOf[r])
  /\ Close(e, r, "cancelled")
  /\ plan' = CancelPlanStep(r)
  /\ UNCHANGED sweep

MemSweepList(w) == SweepList(w)

MemTimeout(w) ==
  LET r == NextListed(w).run
  IN  /\ TimeoutAccepted(w)
      /\ Updatable(TurnOf[r])
      /\ Close(TimeoutEventId(r), r, "timed_out")
      /\ plan' = FailPlanStep(r)
      /\ sweep' = [sweep EXCEPT ![w].todo = @ \ {NextListed(w)}]

(* TurnTerminalStateError is no DelegatedRunStartConflict: everything is   *)
(* rolled back, the Plan included, and run_once ends with its batch.       *)
MemTimeoutRaises(w) ==
  /\ TimeoutAccepted(w)
  /\ ~Updatable(TurnOf[NextListed(w).run])
  /\ sweep' = [sweep EXCEPT ![w].todo = {}]
  /\ UNCHANGED <<rows, txn, now>>

MemCancelUnstarted(p) == CancelUnstarted(p)

MemAgentCommand ==
  \E e \in EventIds, r \in Runs :
    \E v \in SeenVersions(r) :
      \/ \E q \in Sequences(r) : MemProgress(e, r, v, q)
      \/ \E x \in ResultIds : MemComplete(e, r, v, x)
      \/ MemCompleteRefused(e, r, v)
      \/ MemFail(e, r, v)
      \/ MemCancel(e, r, v)

MemSweeperStep(w) ==
  MemSweepList(w) \/ MemTimeout(w) \/ SweepSkip(w) \/ MemTimeoutRaises(w)

MemNext ==
  \/ \E t \in Turns, p \in Plans, blocked \in BOOLEAN : AttachPlan(t, p, blocked)
  \/ \E t \in Turns : MemCompleteRouteOnly(t)
  \/ \E r \in Runs : MemStart(r)
  \/ MemAgentCommand
  \/ \E w \in Sweepers : MemSweeperStep(w)
  \/ \E p \in Plans : ConfirmPlan(p) \/ MemCancelUnstarted(p)
  \/ Tick

MemSpec == Init /\ [][MemNext]_vars

-----------------------------------------------------------------------------
(* Properties                                                              *)

(* What a client sees of Turn t.                                           *)
Outcome(t) ==
  IF turn[t].status \in Active THEN "open"
  ELSE IF turn[t].status = "completed" THEN "completed" ELSE "failed"

Lifecycle(t) == INSTANCE TurnLifecycle WITH
  outcome <- Outcome(t),
  answer <- turn[t].results,
  notices <- outbox[t]

(* A step leaves every Turn as it is or decides it.                        *)
DecidesOnce ==
  \A t \in Turns : Lifecycle(t)!Next \/ UNCHANGED Lifecycle(t)!vars

(* Each Turn is decided once, with one answer and one notice, whatever     *)
(* retries, late events, timeouts and direct replies meet: what a Turn     *)
(* with a synchronous agent promises too (Invocations), and the database   *)
(* does not keep for delegated Runs (SealedTurnUnchanged).                 *)
TurnsAreDecidedOnce ==
  /\ \A t \in Turns : Lifecycle(t)!Init
  /\ [][DecidesOnce]_vars

(* Claims that TLC refutes (README, Observations).                         *)

(* A Step is completed only by a completed Run.                            *)
CompletedStepHasRun ==
  \A p \in Plans : \A s \in StepsIn(p, plan[p].steps, "completed") :
    \E r \in Runs : StepOf[r] = s /\ run[r].status = "completed"
=============================================================================
