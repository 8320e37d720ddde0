------------------------ MODULE DelegatedRunsProofs ------------------------
(***************************************************************************)
(* Proofs about DelegatedRuns, for every value of its constants.           *)
(***************************************************************************)
EXTENDS DelegatedRuns, WellFoundedInduction, TLAPS

-----------------------------------------------------------------------------
(* Choosing the first of a set: plan order and deadline order.             *)

(* A nonempty set measured by a natural-valued function has a least        *)
(* member: plan.steps and the overdue query both take "the first".         *)
LEMMA LeastExists ==
  ASSUME NEW S, NEW f, S # {}, \A s \in S : f[s] \in Nat
  PROVE  \E s \in S : \A u \in S : f[s] <= f[u]
<1> DEFINE T == {f[s] : s \in S}
<1>1. T \subseteq Nat /\ T # {}
  OBVIOUS
<1>2. PICK m \in T : \A n \in T : ~(<<n, m>> \in OpToRel(<, Nat))
  BY <1>1, WFMin, NatLessThanWellFounded
<1>3. \A n \in T : m <= n
  <2>1. OpToRel(<, Nat) = {ss \in Nat \X Nat : ss[1] < ss[2]}
    BY Zenon DEF OpToRel
  <2>2. \A n \in T : n \in Nat /\ m \in Nat /\ ~(n < m)
    BY <1>1, <1>2, <2>1
  <2> QED
    BY <2>2
<1> QED
  BY <1>3

(* FirstStep picks a member of the set it is given.                        *)
LEMMA FirstStepIn ==
  ASSUME NEW S \in SUBSET Steps, S # {}
  PROVE  FirstStep(S) \in S
<1>1. \E s \in S : \A u \in S : Position[s] <= Position[u]
  <2>1. \A s \in S : Position[s] \in Nat
    BY ConstantsOK
  <2> QED
    BY <2>1, LeastExists
<1> QED
  BY <1>1 DEF FirstStep

(* The sweeper's next Run is one of its batch.                             *)
LEMMA NextListedIn ==
  ASSUME TypeOK, NEW w \in Sweepers, sweep[w].todo # {}
  PROVE  NextListed(w) \in sweep[w].todo
<1> DEFINE f == [i \in sweep[w].todo |-> DeadlineOf[i.run]]
<1>1. \A i \in sweep[w].todo : i.run \in Runs
  BY DEF TypeOK, Batch
<1>2. \A i \in sweep[w].todo : f[i] \in Nat
  BY <1>1, ConstantsOK
<1>3. \E i \in sweep[w].todo : \A j \in sweep[w].todo : f[i] <= f[j]
  <2> HIDE DEF f
  <2> QED
    BY <1>2, LeastExists
<1> QED
  BY <1>3 DEF NextListed

-----------------------------------------------------------------------------
(* Type correctness.                                                       *)

(* Completing a Step yields a well-formed Plan status and current Step.    *)
LEMMA PlanStateType ==
  ASSUME NEW p \in Plans, NEW steps \in [Steps -> Active \cup PlanTerminal],
         NEW st \in PlanStateAfterCompletion(p, steps)
  PROVE  /\ st[1] \in Active \cup PlanTerminal
         /\ st[2] \in Steps \cup {None}
<1> DEFINE Blocked == StepsIn(p, steps, "blocked")
           Running == StepsIn(p, steps, "running")
           Ready == ReadySteps(p, steps)
<1>1. Blocked \in SUBSET Steps /\ Running \in SUBSET Steps /\ Ready \in SUBSET Steps
  BY DEF StepsIn, StepsOf, ReadySteps
<1>2. \/ st = <<"completed", None>>
      \/ st = <<"failed", None>>
      \/ Blocked # {} /\ st = <<"blocked", FirstStep(Blocked)>>
      \/ Running # {} /\ st = <<"running", FirstStep(Running)>>
      \/ Ready # {} /\ st = <<"running", FirstStep(Ready)>>
  BY DEF PlanStateAfterCompletion
<1> HIDE DEF Blocked, Running, Ready
<1>3. /\ Blocked # {} => FirstStep(Blocked) \in Steps
      /\ Running # {} => FirstStep(Running) \in Steps
      /\ Ready # {} => FirstStep(Ready) \in Steps
  BY <1>1, FirstStepIn
<1> QED
  BY <1>2, <1>3 DEF Active, PlanTerminal

(* What completing a Step writes is a well-formed Plan row.                *)
LEMMA CompletePlanStepType ==
  ASSUME NEW p \in Plans, NEW old \in PlanRow, NEW s \in Steps,
         NEW row \in CompletePlanStep(p, old, s)
  PROVE  row \in PlanRow
<1> DEFINE steps == [old.steps EXCEPT ![s] = "completed"]
<1>1. steps \in [Steps -> Active \cup PlanTerminal]
  BY DEF PlanRow, PlanTerminal
<1>2. PICK st \in PlanStateAfterCompletion(p, steps) :
        row = [status |-> st[1], version |-> old.version + 1, current |-> st[2], steps |-> steps]
  BY DEF CompletePlanStep
<1>3. st[1] \in Active \cup PlanTerminal /\ st[2] \in Steps \cup {None}
  BY <1>1, <1>2, PlanStateType
<1>4. old.version + 1 \in Nat
  BY DEF PlanRow
<1> QED
  BY <1>1, <1>2, <1>3, <1>4 DEF PlanRow

(* The initial rows are well formed.                                       *)
LEMMA InitType == Init => TypeOK
<1> SUFFICES ASSUME Init PROVE TypeOK
  OBVIOUS
<1>1. \A p \in Plans : NewPlan(p) \in PlanRow
  <2> TAKE p \in Plans
  <2> DEFINE steps == [s \in Steps |-> "pending"]
             Ready == ReadySteps(p, steps)
  <2>1. steps \in [Steps -> Active \cup PlanTerminal]
    BY DEF Active
  <2>2. Ready \in SUBSET Steps
    BY DEF ReadySteps, StepsIn, StepsOf
  <2>3. NewPlan(p) = [status |-> "pending", version |-> 1,
                      current |-> IF Ready = {} THEN None ELSE FirstStep(Ready),
                      steps |-> steps]
    BY DEF NewPlan
  <2> HIDE DEF steps, Ready
  <2>4. Ready # {} => FirstStep(Ready) \in Steps
    BY <2>2, FirstStepIn
  <2> QED
    BY <2>1, <2>3, <2>4 DEF PlanRow, Active
<1>2. NewTurn \in TurnRow
  BY DEF NewTurn, TurnRow, Active
<1>3. AbsentRun \in RunRow
  BY DEF AbsentRun, RunRow
<1>4. \A w \in Sweepers : sweep[w] \in Batch
  BY DEF Init, Batch
<1> QED
  BY <1>1, <1>2, <1>3, <1>4 DEF Init, TypeOK

(* What fail, cancel and timeout write is well formed.                     *)
LEMMA CloseType ==
  ASSUME TypeOK, NEW id \in AllEventIds, NEW r \in Runs, NEW status \in RunTerminal,
         Close(id, r, status)
  PROVE  /\ turn' \in [Turns -> TurnRow]
         /\ run' \in [Runs -> RunRow]
         /\ event' \in [AllEventIds -> EventRow \cup {None}]
         /\ result' \in [ResultIds -> Runs \cup {None}]
         /\ outbox' \in [Turns -> SUBSET RunTerminal]
         /\ txn' \in [Workers -> Txn \cup {None}]
         /\ now' \in Nat
<1>1. TurnOf[r] \in Turns /\ run[r] \in RunRow /\ turn[TurnOf[r]] \in TurnRow
  BY ConstantsOK DEF TypeOK
<1>2. turn' \in [Turns -> TurnRow]
  BY <1>1 DEF TypeOK, Close, TurnRow
<1>3. run' \in [Runs -> RunRow]
  BY <1>1 DEF TypeOK, Close, RunRow
<1>4. event' \in [AllEventIds -> EventRow \cup {None}]
  BY <1>1 DEF TypeOK, Close, EventRow, RunRow
<1>5. outbox' \in [Turns -> SUBSET RunTerminal]
  BY <1>1 DEF TypeOK, Close
<1> QED
  BY <1>2, <1>3, <1>4, <1>5 DEF TypeOK, Close

(* ... and so is the Plan they leave.                                      *)
LEMMA ClosePlanStepType ==
  ASSUME TypeOK, NEW r \in Runs, NEW status \in PlanTerminal
  PROVE  ClosePlanStep(r, status) \in [Plans -> PlanRow]
<1>1. CASE StepOf[r] = None
  BY <1>1 DEF ClosePlanStep, TypeOK
<1>2. CASE StepOf[r] # None
  <2>1. StepOf[r] \in Steps /\ RunPlan(r) \in Plans
    BY <1>2, ConstantsOK DEF RunPlan
  <2>2. plan[RunPlan(r)] \in PlanRow
    BY <2>1 DEF TypeOK
  <2> QED
    BY <1>2, <2>1, <2>2 DEF ClosePlanStep, TypeOK, PlanRow
<1> QED
  BY <1>1, <1>2

(* Every operation keeps every row well formed.                            *)
LEMMA NextType == TypeOK /\ [Next]_vars => TypeOK'
<1> SUFFICES ASSUME TypeOK, [Next]_vars PROVE TypeOK'
  OBVIOUS
<1>1. ASSUME NEW t \in Turns, NEW p \in Plans, NEW blocked \in BOOLEAN,
             AttachPlan(t, p, blocked)
      PROVE  TypeOK'
  <2>1. turn' \in [Turns -> TurnRow]
    BY <1>1 DEF AttachPlan, TypeOK, TurnRow, Active
  <2> QED
    BY <1>1, <2>1 DEF AttachPlan, TypeOK
<1>2. ASSUME NEW t \in Turns, CompleteRouteOnly(t) PROVE TypeOK'
  <2>1. turn' \in [Turns -> TurnRow]
    BY <1>2 DEF CompleteRouteOnly, TypeOK, TurnRow, RunTerminal
  <2>2. outbox' \in [Turns -> SUBSET RunTerminal]
    BY <1>2 DEF CompleteRouteOnly, TypeOK, RunTerminal
  <2> QED
    BY <1>2, <2>1, <2>2 DEF CompleteRouteOnly, TypeOK
<1>3. ASSUME NEW r \in Runs, Start(r) PROVE TypeOK'
  <2>1. TurnOf[r] \in Turns /\ (StepOf[r] # None => RunPlan(r) \in Plans)
    BY ConstantsOK DEF RunPlan
  <2>2. \A row \in TurnRow : AttachRun(row, r) \in TurnRow
    <3> TAKE row \in TurnRow
    <3>1. (IF StepOf[r] = None THEN row.plan ELSE RunPlan(r)) \in Plans \cup {None}
      BY <2>1 DEF TurnRow
    <3>2. row.version + 1 \in Nat /\ row.runs \cup {r} \in SUBSET Runs
      BY DEF TurnRow
    <3> QED
      BY <3>1, <3>2 DEF AttachRun, TurnRow, Active
  <2>3. turn' \in [Turns -> TurnRow]
    BY <1>3, <2>1, <2>2 DEF Start, TypeOK
  <2>4. run' \in [Runs -> RunRow]
    BY <1>3 DEF Start, NewRun, TypeOK, RunRow, Active
  <2> QED
    BY <1>3, <2>3, <2>4 DEF Start, TypeOK
<1>4. ASSUME NEW e \in EventIds, NEW r \in Runs, NEW q \in Sequences(r),
             NEW status \in {"running", "blocked"}, StoreProgress(e, r, q, status)
      PROVE  /\ run' \in [Runs -> RunRow]
             /\ event' \in [AllEventIds -> EventRow \cup {None}]
  <2>1. run[r] \in RunRow /\ q \in Nat
    BY DEF TypeOK, RunRow, Sequences
  <2>2. run' \in [Runs -> RunRow]
    BY <1>4, <2>1 DEF StoreProgress, TypeOK, RunRow, Active
  <2>3. event' \in [AllEventIds -> EventRow \cup {None}]
    BY <1>4, <2>1 DEF StoreProgress, TypeOK, RunRow, EventRow
  <2> QED
    BY <2>2, <2>3
<1>5. ASSUME NEW e \in EventIds, NEW r \in Runs, NEW v, NEW q \in Sequences(r),
             Progress(e, r, v, q)
      PROVE  TypeOK'
  BY <1>4, <1>5 DEF Progress, StoreProgress, TypeOK
<1>6. ASSUME NEW e \in EventIds, NEW r \in Runs, NEW v, NEW q \in Sequences(r),
             Clarify(e, r, v, q)
      PROVE  TypeOK'
  <2>1. StepOf[r] \in Steps /\ RunPlan(r) \in Plans
    BY <1>6, ConstantsOK DEF Clarify, RunPlan
  <2>2. plan' \in [Plans -> PlanRow]
    BY <1>6, <2>1 DEF Clarify, ProjectClarification, TypeOK, PlanRow, Active
  <2> QED
    BY <1>4, <1>6, <2>2 DEF Clarify, StoreProgress, TypeOK
<1>7. ASSUME NEW k \in Workers, NEW e \in EventIds, NEW r \in Runs, NEW v,
             NEW x \in ResultIds, CompleteReadRun(k, e, r, v, x)
      PROVE  TypeOK'
  <2> DEFINE b == [stage |-> "run_read", event |-> e, run |-> r, result |-> x,
                   runrow |-> run[r], turnrow |-> None, planrow |-> None]
  <2>1. b \in Txn /\ StageOK(b)
    BY DEF TypeOK, Txn, StageOK
  <2> QED
    BY <1>7, <2>1 DEF CompleteReadRun, TypeOK, rows
<1>8. ASSUME NEW k \in Workers, CompleteReadTurn(k) PROVE TypeOK'
  <2> DEFINE b == [txn[k] EXCEPT !.turnrow = turn[TurnOf[txn[k].run]],
                                 !.stage = IF StepOf[txn[k].run] = None THEN "ready"
                                           ELSE "turn_read"]
  <2>1. txn[k] \in Txn /\ turn[TurnOf[txn[k].run]] \in TurnRow
    BY <1>8, ConstantsOK DEF CompleteReadTurn, TypeOK, Txn
  <2>2. b \in Txn /\ StageOK(b)
    BY <2>1 DEF Txn, StageOK
  <2>3. txn' = [txn EXCEPT ![k] = b]
    BY <1>8 DEF CompleteReadTurn
  <2> QED
    BY <1>8, <2>2, <2>3 DEF CompleteReadTurn, TypeOK, rows
<1>9. ASSUME NEW k \in Workers, CompleteReadPlan(k) PROVE TypeOK'
  <2> DEFINE b == [txn[k] EXCEPT !.planrow = plan[RunPlan(txn[k].run)], !.stage = "ready"]
  <2>1. txn[k] \in Txn /\ StageOK(txn[k]) /\ plan[RunPlan(txn[k].run)] \in PlanRow
    BY <1>9, ConstantsOK DEF CompleteReadPlan, TypeOK, Txn, StageOK, RunPlan
  <2>2. b \in Txn /\ StageOK(b)
    BY <1>9, <2>1 DEF CompleteReadPlan, Txn, StageOK
  <2>3. txn' = [txn EXCEPT ![k] = b]
    BY <1>9 DEF CompleteReadPlan
  <2> QED
    BY <1>9, <2>2, <2>3 DEF CompleteReadPlan, TypeOK, rows
<1>10. ASSUME NEW k \in Workers, CompleteCommit(k) PROVE TypeOK'
  <2> DEFINE b == txn[k]
             t == TurnOf[b.run]
  <2>1. /\ b \in Txn /\ b.stage = "ready" /\ StageOK(b)
        /\ b.turnrow \in TurnRow /\ b.runrow \in RunRow /\ b.run \in Runs
        /\ b.event \in AllEventIds /\ b.result \in ResultIds /\ t \in Turns
    BY <1>10, ConstantsOK DEF CompleteCommit, TypeOK, Txn, StageOK, AllEventIds
  <2>2. run' \in [Runs -> RunRow]
    BY <1>10, <2>1 DEF CompleteCommit, CompletedRun, TypeOK, RunRow, RunTerminal
  <2>3. turn' \in [Turns -> TurnRow]
    <3>1. CompletedTurn(b) \in TurnRow
      <4>1. /\ b.turnrow.version + 1 \in Nat
            /\ b.turnrow.results \cup {b.result} \in SUBSET ResultIds
        BY <2>1 DEF TurnRow
      <4> HIDE DEF b
      <4> QED
        BY <2>1, <4>1 DEF CompletedTurn, TurnRow, RunTerminal
    <3> QED
      BY <1>10, <2>1, <3>1 DEF CompleteCommit, TypeOK
  <2>4. event' \in [AllEventIds -> EventRow \cup {None}]
    <3>1. CompletionEvent(b) \in EventRow
      BY <2>1 DEF CompletionEvent, EventRow, RunRow, RunTerminal
    <3> QED
      BY <1>10, <2>1, <3>1 DEF CompleteCommit, TypeOK
  <2>5. /\ result' \in [ResultIds -> Runs \cup {None}]
        /\ outbox' \in [Turns -> SUBSET RunTerminal]
    BY <1>10, <2>1 DEF CompleteCommit, TypeOK, RunTerminal
  <2>6. plan' \in [Plans -> PlanRow]
    <3>1. ApplyPlan(b)
      BY <1>10 DEF CompleteCommit
    <3>2. CASE StepOf[b.run] = None
      BY <3>1, <3>2 DEF ApplyPlan, TypeOK
    <3>3. CASE StepOf[b.run] # None
      <4>1. StepOf[b.run] \in Steps /\ RunPlan(b.run) \in Plans /\ b.planrow \in PlanRow
        BY <2>1, <3>3, ConstantsOK DEF RunPlan, StageOK
      <4>2. PICK row \in CompletePlanStep(RunPlan(b.run), b.planrow, StepOf[b.run]) :
              plan' = [plan EXCEPT ![RunPlan(b.run)] = row]
        BY <3>1, <3>3 DEF ApplyPlan
      <4>3. row \in PlanRow
        BY <4>1, <4>2, CompletePlanStepType
      <4> QED
        BY <4>1, <4>2, <4>3 DEF TypeOK
    <3> QED
      BY <3>2, <3>3
  <2>7. txn' = [txn EXCEPT ![k] = None] /\ UNCHANGED <<sweep, now>>
    BY <1>10 DEF CompleteCommit
  <2> QED
    BY <2>2, <2>3, <2>4, <2>5, <2>6, <2>7 DEF TypeOK
<1>11. ASSUME NEW k \in Workers, CompleteAbort(k) PROVE TypeOK'
  BY <1>11 DEF CompleteAbort, TypeOK, rows
<1>12. ASSUME NEW e \in EventIds, NEW r \in Runs, NEW v, Fail(e, r, v) PROVE TypeOK'
  <2>1. e \in AllEventIds /\ "failed" \in RunTerminal /\ "failed" \in PlanTerminal
    BY DEF AllEventIds, RunTerminal, PlanTerminal
  <2>2. plan' \in [Plans -> PlanRow]
    BY <1>12, <2>1, ClosePlanStepType DEF Fail, FailPlanStep
  <2>3. Close(e, r, "failed") /\ UNCHANGED sweep /\ UNCHANGED txn
    BY <1>12 DEF Fail, Close
  <2> QED
    BY <2>1, <2>2, <2>3, CloseType DEF TypeOK
<1>13. ASSUME NEW e \in EventIds, NEW r \in Runs, NEW v, Cancel(e, r, v) PROVE TypeOK'
  <2>1. e \in AllEventIds /\ "cancelled" \in RunTerminal /\ "cancelled" \in PlanTerminal
    BY DEF AllEventIds, RunTerminal, PlanTerminal
  <2>2. plan' \in [Plans -> PlanRow]
    BY <1>13, <2>1, ClosePlanStepType DEF Cancel, CancelPlanStep
  <2>3. Close(e, r, "cancelled") /\ UNCHANGED sweep /\ UNCHANGED txn
    BY <1>13 DEF Cancel, Close
  <2> QED
    BY <2>1, <2>2, <2>3, CloseType DEF TypeOK
<1>14. ASSUME NEW w \in Sweepers, SweepList(w) PROVE TypeOK'
  <2>1. {[run |-> r, version |-> run[r].version] : r \in ListOverdue(now)}
          \in SUBSET [run : Runs, version : Nat]
    <3>1. ListOverdue(now) \subseteq Runs
      BY DEF ListOverdue, Overdue
    <3>2. \A r \in Runs : run[r].version \in Nat
      BY DEF TypeOK, RunRow
    <3> QED
      BY <3>1, <3>2
  <2>2. sweep' \in [Sweepers -> Batch]
    BY <1>14, <2>1 DEF SweepList, TypeOK, Batch
  <2> QED
    BY <1>14, <2>2 DEF SweepList, TypeOK, rows
<1>15. \A w \in Sweepers : \A T \in SUBSET sweep[w].todo :
         [sweep EXCEPT ![w].todo = T] \in [Sweepers -> Batch]
  BY DEF TypeOK, Batch
<1>16. ASSUME NEW w \in Sweepers, SweepTimeout(w) PROVE TypeOK'
  <2> DEFINE r == NextListed(w).run
  <2>1. r \in Runs
    BY <1>16, NextListedIn DEF SweepTimeout, TimeoutAccepted, TypeOK, Batch
  <2>2. TimeoutEventId(r) \in AllEventIds /\ "timed_out" \in RunTerminal
        /\ "failed" \in PlanTerminal
    BY <2>1 DEF TimeoutEventId, AllEventIds, RunTerminal, PlanTerminal
  <2>3. plan' \in [Plans -> PlanRow]
    BY <1>16, <2>1, <2>2, ClosePlanStepType DEF SweepTimeout, FailPlanStep
  <2>4. Close(TimeoutEventId(r), r, "timed_out") /\ UNCHANGED txn
    BY <1>16 DEF SweepTimeout, Close
  <2>5. sweep' \in [Sweepers -> Batch]
    <3> DEFINE T == sweep[w].todo \ {NextListed(w)}
    <3>1. sweep' = [sweep EXCEPT ![w].todo = T] /\ T \in SUBSET sweep[w].todo
      BY <1>16 DEF SweepTimeout
    <3> HIDE DEF T
    <3> QED
      BY <1>15, <3>1
  <2> HIDE DEF r
  <2> QED
    BY <2>1, <2>2, <2>3, <2>4, <2>5, CloseType DEF TypeOK
<1>17. ASSUME NEW w \in Sweepers, SweepSkip(w) \/ SweepBatchFails(w) \/ SweepCrash(w)
       PROVE  TypeOK'
  <2>1. sweep' \in [Sweepers -> Batch]
    <3>1. PICK T \in SUBSET sweep[w].todo : sweep' = [sweep EXCEPT ![w].todo = T]
      BY <1>17 DEF SweepSkip, SweepBatchFails, SweepCrash
    <3> QED
      BY <1>15, <3>1
  <2> QED
    BY <1>17, <2>1 DEF SweepSkip, SweepBatchFails, SweepCrash, TypeOK, rows
<1>18. ASSUME NEW p \in Plans, ConfirmPlan(p) PROVE TypeOK'
  <2>1. plan' \in [Plans -> PlanRow]
    BY <1>18 DEF ConfirmPlan, TypeOK, PlanRow, Active
  <2> QED
    BY <1>18, <2>1 DEF ConfirmPlan, TypeOK
<1>19. ASSUME NEW p \in Plans, CancelUnstarted(p) PROVE TypeOK'
  <2>1. plan' \in [Plans -> PlanRow]
    BY <1>19 DEF CancelUnstarted, TypeOK, PlanRow, PlanTerminal
  <2> QED
    BY <1>19, <2>1 DEF CancelUnstarted, TypeOK
<1>20. CASE Tick
  BY <1>20 DEF Tick, TypeOK, rows
<1>21. CASE UNCHANGED vars
  BY <1>21 DEF TypeOK, vars
<1> QED
  BY <1>1, <1>2, <1>3, <1>5, <1>6, <1>7, <1>8, <1>9, <1>10, <1>11, <1>12, <1>13,
     <1>14, <1>16, <1>17, <1>18, <1>19, <1>20, <1>21
  DEF Next, AgentCommand, CompletionStep, SweeperStep

(* Every reachable state has well-formed rows, and a handler inside        *)
(* `complete' holds exactly the rows its stage has read.                   *)
THEOREM TypeCorrect == Spec => []TypeOK
  BY InitType, NextType, PTL DEF Spec

-----------------------------------------------------------------------------
(* Turns: versions grow, sealed Turns stay sealed, snapshots are current.  *)

(* Progress and clarification; the other steps that close nothing.         *)
ProgressStep ==
  \E e \in EventIds, r \in Runs : \E v \in SeenVersions(r), q \in Sequences(r) :
    Progress(e, r, v, q) \/ Clarify(e, r, v, q)

(* The steps of Next, with the ones that close, open or reference nothing  *)
(* summed up by what they leave alone.                                     *)
LEMMA NextCases ==
  ASSUME [Next]_vars
  PROVE  \/ \E t \in Turns, p \in Plans, blocked \in BOOLEAN : AttachPlan(t, p, blocked)
         \/ \E t \in Turns : CompleteRouteOnly(t)
         \/ \E r \in Runs : Start(r)
         \/ ProgressStep /\ UNCHANGED <<turn, result, outbox, txn>>
         \/ \E e \in EventIds, r \in Runs, v \in Nat : Fail(e, r, v) \/ Cancel(e, r, v)
         \/ \E k \in Workers : CompleteCommit(k)
         \/ \E w \in Sweepers : SweepTimeout(w)
         \/ \E k \in Workers, e \in EventIds, r \in Runs, v \in Nat, x \in ResultIds :
              CompleteReadRun(k, e, r, v, x) /\ UNCHANGED <<turn, run, result, outbox>>
         \/ \E k \in Workers :
              /\ CompleteReadTurn(k) \/ CompleteReadPlan(k) \/ CompleteAbort(k)
              /\ UNCHANGED <<turn, run, result, outbox>>
         \/ UNCHANGED <<turn, run, result, outbox, txn>>
<1> DEFINE Quiet == UNCHANGED <<turn, run, result, outbox, txn>>
<1>1. ASSUME NEW w \in Sweepers, SweepList(w) \/ SweepSkip(w) \/ SweepBatchFails(w) \/ SweepCrash(w)
      PROVE  Quiet
  BY <1>1 DEF SweepList, SweepSkip, SweepBatchFails, SweepCrash, rows
<1>2. ASSUME NEW p \in Plans, ConfirmPlan(p) \/ CancelUnstarted(p)
      PROVE  Quiet
  BY <1>2 DEF ConfirmPlan, CancelUnstarted
<1>3. CASE Tick \/ UNCHANGED vars
  BY <1>3 DEF Tick, rows, vars
<1>4. \A e, r, v, q : Progress(e, r, v, q) \/ Clarify(e, r, v, q)
        => UNCHANGED <<turn, result, outbox, txn>>
  BY DEF Progress, Clarify, StoreProgress
<1>5. \A k, e, r, v, x : CompleteReadRun(k, e, r, v, x) => UNCHANGED <<turn, run, result, outbox>>
  BY DEF CompleteReadRun, rows
<1>6. \A k : CompleteReadTurn(k) \/ CompleteReadPlan(k) \/ CompleteAbort(k)
        => UNCHANGED <<turn, run, result, outbox>>
  BY DEF CompleteReadTurn, CompleteReadPlan, CompleteAbort, rows
<1>7. \A r : SeenVersions(r) \subseteq Nat
  BY DEF SeenVersions
<1> QED
  BY <1>1, <1>2, <1>3, <1>4, <1>5, <1>6, <1>7
  DEF Next, AgentCommand, CompletionStep, SweeperStep, ProgressStep

(* What a step may do to a Turn row.                                       *)
TurnMoves(t) ==
  \/ turn'[t] = turn[t]
  \/ /\ turn'[t].version = turn[t].version + 1
     /\ Sealed(t) => turn'[t].status \in RunTerminal

(* Every step leaves a Turn row alone or raises its version by one, and    *)
(* never takes a sealed Turn out of its terminal statuses.                 *)
LEMMA TurnStep ==
  ASSUME TypeOK, [Next]_vars
  PROVE  \A t \in Turns : TurnMoves(t)
<1>1. ASSUME NEW t \in Turns, NEW p \in Plans, NEW blocked \in BOOLEAN,
             AttachPlan(t, p, blocked)
      PROVE  \A u \in Turns : TurnMoves(u)
  BY <1>1 DEF AttachPlan, TurnMoves, Sealed, TypeOK, TurnRow
<1>2. ASSUME NEW t \in Turns, CompleteRouteOnly(t)
      PROVE  \A u \in Turns : TurnMoves(u)
  BY <1>2 DEF CompleteRouteOnly, TurnMoves, Sealed, TypeOK, TurnRow
<1>3. ASSUME NEW r \in Runs, Start(r)
      PROVE  \A u \in Turns : TurnMoves(u)
  BY <1>3, ConstantsOK DEF Start, AttachRun, ValidateStartTurn, TurnMoves, Sealed, TypeOK, TurnRow
<1>4. ASSUME NEW id, NEW r \in Runs, NEW status \in RunTerminal, Close(id, r, status)
      PROVE  \A u \in Turns : TurnMoves(u)
  BY <1>4, ConstantsOK DEF Close, TurnMoves, Sealed, TypeOK, TurnRow
<1>5. ASSUME NEW k \in Workers, CompleteCommit(k)
      PROVE  \A u \in Turns : TurnMoves(u)
  <2> DEFINE b == txn[k]
  <2>1. b.run \in Runs /\ TurnOf[b.run] \in Turns /\ b.turnrow \in TurnRow
    BY <1>5, ConstantsOK DEF CompleteCommit, TypeOK, Txn, StageOK
  <2>2. /\ turn' = [turn EXCEPT ![TurnOf[b.run]] = CompletedTurn(b)]
        /\ turn[TurnOf[b.run]].version = b.turnrow.version
    BY <1>5 DEF CompleteCommit, TurnUnchangedSinceRead
  <2>3. /\ CompletedTurn(b).status = "completed"
        /\ CompletedTurn(b).version = b.turnrow.version + 1
    <3> HIDE DEF b
    <3> QED
      BY <2>1 DEF CompletedTurn, TurnRow
  <2> HIDE DEF b
  <2> QED
    BY <2>1, <2>2, <2>3 DEF TurnMoves, TypeOK, RunTerminal
<1>6. ASSUME NEW e \in EventIds, NEW r \in Runs, NEW v, Fail(e, r, v) \/ Cancel(e, r, v)
      PROVE  \A u \in Turns : TurnMoves(u)
  BY <1>4, <1>6 DEF Fail, Cancel, RunTerminal
<1>7. ASSUME NEW w \in Sweepers, SweepTimeout(w)
      PROVE  \A u \in Turns : TurnMoves(u)
  <2>1. NextListed(w).run \in Runs
    BY <1>7, NextListedIn DEF SweepTimeout, TimeoutAccepted, TypeOK, Batch
  <2> QED
    BY <1>4, <1>7, <2>1 DEF SweepTimeout, RunTerminal
<1> QED
  BY <1>1, <1>2, <1>3, <1>5, <1>6, <1>7, NextCases DEF TurnMoves

(* No late event, retry or sweeper brings a sealed Turn back to life.      *)
THEOREM SealedTurnsStaySealed == Spec => TurnNeverReopens
<1>1. TypeOK /\ [Next]_vars => [\A t \in Turns : Sealed(t) => Sealed(t)']_vars
  BY TurnStep DEF TurnMoves, Sealed
<1> QED
  BY <1>1, TypeCorrect, PTL DEF Spec, TurnNeverReopens

(* A snapshot taken inside `complete' stays current or becomes outdated.   *)
LEMMA SnapshotStep ==
  ASSUME TypeOK, SnapshotCurrent, [Next]_vars
  PROVE  SnapshotCurrent'
<1> DEFINE Row(b) == turn[TurnOf[b.run]]
           Fits(b) == b.stage # "run_read" =>
                        /\ b.turnrow.version <= Row(b).version
                        /\ b.turnrow.version = Row(b).version => b.turnrow = Row(b)
<1>1. \A k \in Workers : txn[k] # None => txn[k] \in Txn /\ TurnOf[txn[k].run] \in Turns
  BY ConstantsOK DEF TypeOK, Txn
<1>2. \A k \in Workers : txn'[k] = txn[k] /\ txn[k] # None => Fits(txn[k])'
  <2> SUFFICES ASSUME NEW k \in Workers, txn'[k] = txn[k], txn[k] # None,
                      txn[k].stage # "run_read"
               PROVE  LET row == turn'[TurnOf[txn[k].run]]
                      IN  /\ txn[k].turnrow.version <= row.version
                          /\ txn[k].turnrow.version = row.version => txn[k].turnrow = row
    OBVIOUS
  <2> DEFINE t == TurnOf[txn[k].run]
  <2>1. /\ txn[k].turnrow.version <= turn[t].version
        /\ txn[k].turnrow.version = turn[t].version => txn[k].turnrow = turn[t]
    BY DEF SnapshotCurrent
  <2>2. txn[k].turnrow.version \in Nat /\ turn[t].version \in Nat
    BY <1>1 DEF TypeOK, Txn, StageOK, TurnRow
  <2>3. TurnMoves(t)
    BY <1>1, TurnStep
  <2> QED
    BY <2>1, <2>2, <2>3 DEF TurnMoves
<1>3. ASSUME NEW k \in Workers, txn'[k] # txn[k], txn'[k] # None
      PROVE  Fits(txn[k])'
  <2>1. CASE \E e \in EventIds, r \in Runs, v \in Nat, x \in ResultIds, j \in Workers :
               CompleteReadRun(j, e, r, v, x)
    BY <1>3, <2>1 DEF CompleteReadRun, TypeOK
  <2>2. CASE CompleteReadTurn(k) /\ UNCHANGED turn
    BY <1>1, <1>3, <2>2 DEF CompleteReadTurn, TypeOK, Txn, TurnRow
  <2>3. CASE CompleteReadPlan(k) /\ UNCHANGED turn
    <3>1. /\ txn[k] \in Txn /\ txn'[k].run = txn[k].run
          /\ txn'[k].turnrow = txn[k].turnrow /\ txn[k].stage # "run_read" /\ txn[k] # None
      BY <1>1, <1>3, <2>3 DEF CompleteReadPlan, TypeOK, Txn
    <3> QED
      BY <2>3, <3>1 DEF SnapshotCurrent
  <2>4. \A j \in Workers : CompleteReadTurn(j) \/ CompleteReadPlan(j) => j = k
    BY <1>3 DEF CompleteReadTurn, CompleteReadPlan, TypeOK
  <2>5. \A j \in Workers : ~(CompleteCommit(j) \/ CompleteAbort(j))
    BY <1>3 DEF CompleteCommit, CompleteAbort, TypeOK
  <2>6. ~UNCHANGED txn
    BY <1>3
  <2> QED
    BY <2>1, <2>2, <2>3, <2>4, <2>5, <2>6, NextCases
    DEF AttachPlan, CompleteRouteOnly, Start, Fail, Cancel, SweepTimeout, Close
<1> QED
  BY <1>2, <1>3 DEF SnapshotCurrent

-----------------------------------------------------------------------------
(* Seals are announced, and a Turn gets at most one Result.                *)

(* What a step may do to a Run: leave it, move it while it is open, close  *)
(* it together with its Turn under an outbox key that records the status,  *)
(* or - `complete' only - overwrite it while that key is still free.       *)
RunMoves(r) ==
  \/ run'[r] = run[r]
  \/ run[r].status \notin RunTerminal /\ run'[r].status \notin RunTerminal
  \/ /\ run'[r].status \in RunTerminal
     /\ turn'[TurnOf[r]].status = run'[r].status
     /\ run'[r].status \in outbox'[TurnOf[r]]
     /\ \/ run[r].status \in Active
        \/ run'[r].status = "completed" /\ "completed" \notin outbox[TurnOf[r]]

(* What a step may do to a Turn's outbox keys.                             *)
OutboxMoves(t) ==
  /\ outbox[t] \subseteq outbox'[t]
  /\ turn'[t] # turn[t] /\ turn'[t].status \in RunTerminal
       => turn'[t].status \in outbox'[t]

(* Every step of the store moves Runs and outbox keys in one of those ways.*)
LEMMA RunStep ==
  ASSUME TypeOK, [Next]_vars
  PROVE  /\ \A r \in Runs : RunMoves(r)
         /\ \A t \in Turns : OutboxMoves(t)
<1> DEFINE Moves == /\ \A r \in Runs : RunMoves(r)
                    /\ \A t \in Turns : OutboxMoves(t)
<1>1. ASSUME NEW t \in Turns, NEW p \in Plans, NEW blocked \in BOOLEAN,
             AttachPlan(t, p, blocked)
      PROVE  Moves
  BY <1>1 DEF AttachPlan, RunMoves, OutboxMoves, TypeOK, TurnRow, RunTerminal
<1>2. ASSUME NEW t \in Turns, CompleteRouteOnly(t)
      PROVE  Moves
  BY <1>2 DEF CompleteRouteOnly, RunMoves, OutboxMoves, TypeOK, TurnRow
<1>3. ASSUME NEW r \in Runs, Start(r)
      PROVE  Moves
  <2>1. \A q \in Runs : RunMoves(q)
    BY <1>3 DEF Start, NewRun, RunMoves, TypeOK, RunTerminal
  <2>2. turn'[TurnOf[r]].status = "running"
    <3>1. \A row \in TurnRow : AttachRun(row, r).status = "running"
      BY DEF AttachRun, TurnRow
    <3> QED
      BY <1>3, <3>1, ConstantsOK DEF Start, TypeOK
  <2>3. \A t \in Turns : OutboxMoves(t)
    BY <1>3, <2>2, ConstantsOK DEF Start, OutboxMoves, TypeOK, RunTerminal
  <2> QED
    BY <2>1, <2>3
<1>4. CASE ProgressStep /\ UNCHANGED <<turn, result, outbox, txn>>
  <2>a. PICK e \in EventIds, r \in Runs : \E v \in SeenVersions(r), q \in Sequences(r) :
          Progress(e, r, v, q) \/ Clarify(e, r, v, q)
    BY <1>4 DEF ProgressStep
  <2>1. PICK v \in SeenVersions(r), q \in Sequences(r) :
          Progress(e, r, v, q) \/ Clarify(e, r, v, q)
    BY <2>a
  <2>2. \A u \in Runs : RunMoves(u)
    BY <2>1 DEF Progress, Clarify, StoreProgress, ValidateProgressRun, RunMoves, TypeOK,
                RunRow, RunTerminal, Active
  <2> QED
    BY <1>4, <2>2 DEF OutboxMoves
<1>5. ASSUME NEW id, NEW r \in Runs, NEW status \in RunTerminal, Close(id, r, status),
             run[r].status \in Active
      PROVE  Moves
  <2> DEFINE t == TurnOf[r]
  <2>1. t \in Turns
    BY ConstantsOK
  <2>2. /\ run'[r].status = status
        /\ \A q \in Runs \ {r} : run'[q] = run[q]
    BY <1>5 DEF Close, TypeOK
  <2>3. /\ turn'[t].status = status
        /\ \A u \in Turns \ {t} : turn'[u] = turn[u]
    BY <1>5, <2>1 DEF Close, TypeOK, TurnRow
  <2>4. /\ outbox'[t] = outbox[t] \cup {status}
        /\ \A u \in Turns \ {t} : outbox'[u] = outbox[u]
    BY <1>5, <2>1 DEF Close, TypeOK
  <2>5. \A q \in Runs : RunMoves(q)
    BY <1>5, <2>2, <2>3, <2>4 DEF RunMoves
  <2>6. \A u \in Turns : OutboxMoves(u)
    BY <2>3, <2>4 DEF OutboxMoves
  <2> QED
    BY <2>5, <2>6
<1>6. ASSUME NEW e \in EventIds, NEW r \in Runs, NEW v, Fail(e, r, v) \/ Cancel(e, r, v)
      PROVE  Moves
  BY <1>5, <1>6 DEF Fail, Cancel, ValidateFailureRun, ValidateCancelRun, RunTerminal
<1>7. ASSUME NEW w \in Sweepers, SweepTimeout(w)
      PROVE  Moves
  <2>1. NextListed(w).run \in Runs
    BY <1>7, NextListedIn DEF SweepTimeout, TimeoutAccepted, TypeOK, Batch
  <2> QED
    BY <1>5, <1>7, <2>1 DEF SweepTimeout, TimeoutAccepted, ValidateTimeoutRun, RunTerminal
<1>8. ASSUME NEW k \in Workers, CompleteCommit(k)
      PROVE  Moves
  <2> DEFINE b == txn[k]
             t == TurnOf[b.run]
  <2>1. b.run \in Runs /\ t \in Turns /\ b.turnrow \in TurnRow
    BY <1>8, ConstantsOK DEF CompleteCommit, TypeOK, Txn, StageOK
  <2>2. /\ run' = [run EXCEPT ![b.run] = CompletedRun(b)]
        /\ turn' = [turn EXCEPT ![t] = CompletedTurn(b)]
        /\ outbox' = [outbox EXCEPT ![t] = @ \cup {"completed"}]
        /\ "completed" \notin outbox[t]
    BY <1>8 DEF CompleteCommit, CompletionKeysFree
  <2> HIDE DEF b
  <2>3. CompletedRun(b).status = "completed" /\ CompletedTurn(b).status = "completed"
    BY <2>1 DEF CompletedRun, CompletedTurn, TurnRow
  <2> QED
    BY <2>1, <2>2, <2>3 DEF RunMoves, OutboxMoves, TypeOK, RunTerminal
<1>9. CASE UNCHANGED <<turn, run, outbox>>
  BY <1>9 DEF RunMoves, OutboxMoves
<1> QED
  BY <1>1, <1>2, <1>3, <1>4, <1>6, <1>7, <1>8, <1>9, NextCases

(* A step keeps every seal announced.                                      *)
LEMMA SealStep ==
  ASSUME TypeOK, SealAnnounced, [Next]_vars
  PROVE  SealAnnounced'
<1>1. ASSUME NEW t \in Turns, Sealed(t)'
      PROVE  turn'[t].status \in outbox'[t]
  BY <1>1, RunStep DEF OutboxMoves, SealAnnounced, Sealed
<1>2. ASSUME NEW r \in Runs, Finished(r)'
      PROVE  Sealed(TurnOf[r])' /\ run'[r].status \in outbox'[TurnOf[r]]
  <2>1. TurnOf[r] \in Turns /\ RunMoves(r) /\ OutboxMoves(TurnOf[r]) /\ TurnMoves(TurnOf[r])
    BY ConstantsOK, RunStep, TurnStep
  <2>2. CASE run'[r] = run[r]
    BY <1>2, <2>1, <2>2 DEF SealAnnounced, Finished, Sealed, OutboxMoves, TurnMoves
  <2>3. CASE run'[r] # run[r]
    BY <1>2, <2>1, <2>3 DEF Finished, Sealed, RunMoves
  <2> QED
    BY <2>2, <2>3
<1> QED
  BY <1>1, <1>2 DEF SealAnnounced

(* Only a committed completion writes Results; only a direct reply drops   *)
(* the Result references of a Turn, and that Turn was still open.          *)
LEMMA ResultsStep ==
  ASSUME TypeOK, [Next]_vars, \A k \in Workers : ~CompleteCommit(k)
  PROVE  /\ result' = result
         /\ \A t \in Turns : \/ turn'[t].results = turn[t].results
                             \/ ~Sealed(t) /\ turn'[t].results = {}
<1> DEFINE Kept == /\ result' = result
                   /\ \A t \in Turns : \/ turn'[t].results = turn[t].results
                                       \/ ~Sealed(t) /\ turn'[t].results = {}
<1>1. ASSUME NEW t \in Turns, NEW p \in Plans, NEW blocked \in BOOLEAN,
             AttachPlan(t, p, blocked)
      PROVE  Kept
  BY <1>1 DEF AttachPlan, TypeOK, TurnRow
<1>2. ASSUME NEW t \in Turns, CompleteRouteOnly(t)
      PROVE  Kept
  BY <1>2 DEF CompleteRouteOnly, Sealed, TypeOK, TurnRow
<1>3. ASSUME NEW r \in Runs, Start(r)
      PROVE  Kept
  <2>1. \A row \in TurnRow : AttachRun(row, r).results = row.results
    BY DEF AttachRun, TurnRow
  <2> QED
    BY <1>3, <2>1, ConstantsOK DEF Start, TypeOK
<1>4. ASSUME NEW id, NEW r \in Runs, NEW status, Close(id, r, status)
      PROVE  Kept
  BY <1>4, ConstantsOK DEF Close, TypeOK, TurnRow
<1>5. ASSUME NEW e \in EventIds, NEW r \in Runs, NEW v, Fail(e, r, v) \/ Cancel(e, r, v)
      PROVE  Kept
  BY <1>4, <1>5 DEF Fail, Cancel
<1>6. ASSUME NEW w \in Sweepers, SweepTimeout(w)
      PROVE  Kept
  <2>1. NextListed(w).run \in Runs
    BY <1>6, NextListedIn DEF SweepTimeout, TimeoutAccepted, TypeOK, Batch
  <2> QED
    BY <1>4, <1>6, <2>1 DEF SweepTimeout
<1>7. CASE UNCHANGED <<turn, result>>
  BY <1>7
<1> QED
  BY <1>1, <1>2, <1>3, <1>5, <1>6, <1>7, NextCases

(* However handlers race to complete the Runs of a Turn, the step keeps    *)
(* its Results unique: the commit compares the Turn version and claims the *)
(* one "completed" key.                                                    *)
LEMMA OneResultStep ==
  ASSUME SafetyInv, [Next]_vars
  PROVE  ResultSeals' /\ OneResultPerTurn'
<1> USE DEF SafetyInv
<1>1. TypeOK'
  BY NextType
<1>2. \A x \in ResultIds : result[x] # None => result[x] \in Runs /\ TurnOf[result[x]] \in Turns
  BY ConstantsOK DEF TypeOK
<1>3. ASSUME NEW x \in ResultIds, result[x] # None
      PROVE  /\ run'[result[x]].status = "completed"
             /\ turn'[TurnOf[result[x]]].status \in RunTerminal
             /\ "completed" \in outbox'[TurnOf[result[x]]]
  <2>1. /\ RunMoves(result[x]) /\ OutboxMoves(TurnOf[result[x]]) /\ TurnMoves(TurnOf[result[x]])
    BY <1>2, <1>3, RunStep, TurnStep
  <2>2. /\ run[result[x]].status = "completed" /\ Sealed(TurnOf[result[x]])
        /\ "completed" \in outbox[TurnOf[result[x]]]
    BY <1>3 DEF OneResultPerTurn, ResultSeals
  <2> QED
    BY <2>1, <2>2 DEF RunMoves, OutboxMoves, TurnMoves, Sealed, Active, RunTerminal
<1>4. CASE \A k \in Workers : ~CompleteCommit(k)
  <2>1. /\ result' = result
        /\ \A t \in Turns : \/ turn'[t].results = turn[t].results
                            \/ ~Sealed(t) /\ turn'[t].results = {}
    BY <1>4, ResultsStep
  <2>2. ResultSeals'
    BY <1>3, <2>1 DEF ResultSeals, Sealed
  <2>3. \A x \in ResultIds : result[x] # None => x \in turn'[TurnOf[result[x]]].results
    BY <1>2, <2>1 DEF OneResultPerTurn, ResultSeals
  <2>4. \A t \in Turns : \A x \in turn'[t].results : result[x] # None /\ TurnOf[result[x]] = t
    BY <2>1 DEF OneResultPerTurn
  <2> QED
    BY <1>3, <2>1, <2>2, <2>3, <2>4 DEF OneResultPerTurn
<1>5. ASSUME NEW k \in Workers, CompleteCommit(k)
      PROVE  ResultSeals' /\ OneResultPerTurn'
  <2> DEFINE b == txn[k]
             t == TurnOf[b.run]
  <2>1. /\ b # None /\ b.stage # "run_read" /\ b.run \in Runs /\ t \in Turns
        /\ b.result \in ResultIds /\ b.turnrow \in TurnRow
    BY <1>5, ConstantsOK DEF CompleteCommit, TypeOK, Txn, StageOK
  <2>2. /\ run' = [run EXCEPT ![b.run] = CompletedRun(b)]
        /\ result' = [result EXCEPT ![b.result] = b.run]
        /\ turn' = [turn EXCEPT ![t] = CompletedTurn(b)]
        /\ outbox' = [outbox EXCEPT ![t] = @ \cup {"completed"}]
        /\ result[b.result] = None
        /\ "completed" \notin outbox[t]
        /\ turn[t].version = b.turnrow.version
    BY <1>5 DEF CompleteCommit, CompletionKeysFree, TurnUnchangedSinceRead
  <2>3. b.turnrow = turn[t]
    BY <2>1, <2>2 DEF SnapshotCurrent
  <2>4. \A x \in ResultIds : result[x] # None => TurnOf[result[x]] # t
    BY <2>2 DEF ResultSeals
  <2>5. turn[t].results = {}
    BY <2>1, <2>4 DEF OneResultPerTurn, TypeOK, TurnRow
  <2> HIDE DEF b
  <2>6. /\ CompletedRun(b).status = "completed" /\ CompletedTurn(b).status = "completed"
        /\ CompletedTurn(b).results = {b.result}
    BY <2>1, <2>3, <2>5 DEF CompletedRun, CompletedTurn, TurnRow
  <2> HIDE DEF t
  <2>7. /\ run'[b.run].status = "completed" /\ turn'[t].status = "completed"
        /\ turn'[t].results = {b.result} /\ result'[b.result] = b.run
        /\ "completed" \in outbox'[t]
        /\ \A x \in ResultIds \ {b.result} : result'[x] = result[x]
        /\ \A u \in Turns \ {t} : turn'[u] = turn[u]
    BY <2>1, <2>2, <2>6 DEF TypeOK
  <2>8. t = TurnOf[b.run] /\ b.run # None
    BY <2>1, ConstantsOK DEF t
  <2>9. ResultSeals'
    BY <1>3, <2>7, <2>8 DEF ResultSeals, Sealed, RunTerminal
  <2>10. \A x \in ResultIds : result'[x] # None =>
           run'[result'[x]].status = "completed" /\ x \in turn'[TurnOf[result'[x]]].results
    BY <1>2, <1>3, <2>4, <2>7, <2>8 DEF OneResultPerTurn
  <2>11. \A u \in Turns : \A x \in turn'[u].results : result'[x] # None /\ TurnOf[result'[x]] = u
    <3>1. \A u \in Turns : turn[u].results \subseteq ResultIds
      BY DEF TypeOK, TurnRow
    <3> QED
      BY <2>2, <2>7, <2>8, <3>1 DEF OneResultPerTurn
  <2>12. \A x, y \in ResultIds :
           result'[x] # None /\ result'[y] # None /\ TurnOf[result'[x]] = TurnOf[result'[y]] => x = y
    BY <2>4, <2>7, <2>8 DEF OneResultPerTurn
  <2> QED
    BY <2>9, <2>10, <2>11, <2>12 DEF OneResultPerTurn
<1> QED
  BY <1>4, <1>5

(* The inductive invariant holds.                                          *)
THEOREM SafetyInvariant == Spec => []SafetyInv
<1>1. Init => SafetyInv
  <2> SUFFICES ASSUME Init PROVE SafetyInv
    OBVIOUS
  <2>1. TypeOK
    BY InitType
  <2>2. SnapshotCurrent
    BY DEF Init, SnapshotCurrent
  <2>3. SealAnnounced
    BY ConstantsOK DEF Init, SealAnnounced, Finished, Sealed, NewTurn, AbsentRun, RunTerminal
  <2>4. ResultSeals /\ OneResultPerTurn
    BY DEF Init, ResultSeals, OneResultPerTurn, NewTurn
  <2> QED
    BY <2>1, <2>2, <2>3, <2>4 DEF SafetyInv
<1>2. SafetyInv /\ [Next]_vars => SafetyInv'
  BY NextType, SnapshotStep, SealStep, OneResultStep DEF SafetyInv
<1> QED
  BY <1>1, <1>2, PTL DEF Spec

(* Whatever handlers, sweepers and retries do, a Turn has at most one      *)
(* Result, it belongs to a completed Run, and the Turn references it.      *)
THEOREM AtMostOneResult == Spec => []OneResultPerTurn
<1>1. SafetyInv => OneResultPerTurn
  BY DEF SafetyInv
<1> QED
  BY <1>1, SafetyInvariant, PTL

(* Every seal of a Turn has its outbox row: no consumer misses a terminal  *)
(* Turn, and every finished Run has sealed its Turn.                       *)
THEOREM SealsAreAnnounced == Spec => []SealAnnounced
<1>1. SafetyInv => SealAnnounced
  BY DEF SafetyInv
<1> QED
  BY <1>1, SafetyInvariant, PTL

(* A completed Run keeps its outcome although `complete' never compares    *)
(* the Run's status or version at commit.                                  *)
THEOREM CompletedRunsAreFinal == Spec => CompletedRunIsFinal
<1>1. ASSUME SafetyInv, [Next]_vars, NEW r \in Runs, run[r].status = "completed"
      PROVE  run'[r] = run[r]
  <2>1. "completed" \in outbox[TurnOf[r]]
    BY <1>1 DEF SafetyInv, SealAnnounced, Finished, RunTerminal
  <2>2. RunMoves(r)
    BY <1>1, RunStep DEF SafetyInv
  <2> QED
    BY <1>1, <2>1, <2>2 DEF RunMoves, RunTerminal, Active
<1>2. SafetyInv /\ [Next]_vars
        => [\A r \in Runs : run[r].status = "completed" => run'[r] = run[r]]_vars
  BY <1>1
<1> QED
  BY <1>2, SafetyInvariant, PTL DEF Spec, CompletedRunIsFinal

-----------------------------------------------------------------------------
(* Finished Runs have their event, and a Run missing from its Turn was     *)
(* dropped by a direct reply.                                              *)

(* The terminal event of a Run.                                            *)
EventOf(r) ==
  [run |-> r, status |-> run[r].status, seq |-> run[r].seq, version |-> run[r].version]

(* What a step may do to events, and to a Run it leaves terminal.          *)
EventMoves ==
  /\ \A e \in AllEventIds : event[e] # None => event'[e] = event[e]
  /\ \A r \in Runs : run'[r].status \in RunTerminal =>
       \/ run'[r] = run[r]
       \/ run'[r].last \in AllEventIds /\ event'[run'[r].last] = EventOf(r)'

(* A step writes an event under an unused id, and with a terminal Run the  *)
(* event it names.                                                         *)
LEMMA EventStep ==
  ASSUME TypeOK, [Next]_vars
  PROVE  EventMoves
<1>1. ASSUME NEW e \in AllEventIds, NEW r \in Runs, NEW new \in RunRow, NEW status,
             event[e] = None, run' = [run EXCEPT ![r] = new],
             event' = [event EXCEPT ![e] = [run |-> r, status |-> status, seq |-> new.seq,
                                            version |-> new.version]],
             new.status \in RunTerminal => new.last = e /\ new.status = status
      PROVE  EventMoves
  <2>1. /\ \A q \in Runs : run'[q] = IF q = r THEN new ELSE run[q]
        /\ event'[e] = [run |-> r, status |-> status, seq |-> new.seq, version |-> new.version]
        /\ \A i \in AllEventIds : i # e => event'[i] = event[i]
    BY <1>1 DEF TypeOK
  <2> QED BY <1>1, <2>1 DEF EventMoves, EventOf
<1>2. ASSUME NEW e \in EventIds, NEW r \in Runs, NEW v, NEW q \in Nat,
             Progress(e, r, v, q) \/ Clarify(e, r, v, q)
      PROVE  EventMoves
  <2>1. PICK status \in {"running", "blocked"} : event[e] = None /\ StoreProgress(e, r, q, status)
    BY <1>2 DEF Progress, Clarify
  <2> DEFINE new == [run[r] EXCEPT !.status = status, !.version = run[r].version + 1, !.seq = q]
  <2>2. run[r] \in RunRow
    BY DEF TypeOK
  <2>3. /\ new \in RunRow /\ new.status \notin RunTerminal
        /\ new.seq = q /\ new.version = run[r].version + 1
    <3>1. run[r].version + 1 \in Nat /\ status \in Active /\ status \notin RunTerminal
      BY <2>2 DEF RunRow, Active, RunTerminal
    <3>2. new.status = status /\ new.seq = q /\ new.version = run[r].version + 1
      BY <2>2 DEF RunRow
    <3>3. new \in RunRow
      BY <2>2, <3>1 DEF RunRow
    <3> QED BY <3>1, <3>2, <3>3
  <2>4. run' = [run EXCEPT ![r] = new]
    BY <2>1 DEF StoreProgress, TypeOK
  <2>5. event' = [event EXCEPT ![e] = [run |-> r, status |-> status, seq |-> new.seq,
                                       version |-> new.version]]
    BY <2>1, <2>3 DEF StoreProgress
  <2>6. e \in AllEventIds
    BY DEF AllEventIds
  <2> HIDE DEF new
  <2> QED BY <2>1, <2>3, <2>4, <2>5, <2>6, <1>1
<1>3. ASSUME NEW e \in AllEventIds, NEW r \in Runs, NEW status \in RunTerminal,
             event[e] = None, Close(e, r, status)
      PROVE  EventMoves
  <2> DEFINE new == [status |-> status, version |-> run[r].version + 1,
                     seq |-> run[r].seq + 1, last |-> e]
  <2>1. run[r] \in RunRow
    BY DEF TypeOK
  <2>2. new \in RunRow /\ new.last = e /\ new.status = status
    BY <2>1 DEF RunRow, RunTerminal
  <2>3. /\ run' = [run EXCEPT ![r] = new]
        /\ event' = [event EXCEPT ![e] = [run |-> r, status |-> status, seq |-> new.seq,
                                          version |-> new.version]]
    BY <1>3 DEF Close
  <2> HIDE DEF new
  <2> QED BY <1>3, <2>2, <2>3, <1>1
<1>4. ASSUME NEW e \in EventIds, NEW r \in Runs, NEW v, Fail(e, r, v) \/ Cancel(e, r, v)
      PROVE  EventMoves
  BY <1>3, <1>4 DEF Fail, Cancel, AllEventIds, RunTerminal
<1>5. ASSUME NEW w \in Sweepers, SweepTimeout(w)
      PROVE  EventMoves
  <2>1. NextListed(w).run \in Runs
    BY <1>5, NextListedIn DEF SweepTimeout, TimeoutAccepted, TypeOK, Batch
  <2> QED
    BY <1>3, <1>5, <2>1 DEF SweepTimeout, TimeoutAccepted, TimeoutEventId, AllEventIds, RunTerminal
<1>6. ASSUME NEW k \in Workers, CompleteCommit(k)
      PROVE  EventMoves
  <2> DEFINE b == txn[k]
             new == CompletedRun(b)
  <2>1. /\ b.run \in Runs /\ b.event \in AllEventIds /\ b.runrow \in RunRow
        /\ event[b.event] = None
    BY <1>6 DEF CompleteCommit, CompletionKeysFree, TypeOK, Txn, AllEventIds
  <2>2. /\ run' = [run EXCEPT ![b.run] = new]
        /\ event' = [event EXCEPT ![b.event] = CompletionEvent(b)]
    BY <1>6 DEF CompleteCommit
  <2> HIDE DEF b
  <2>3. /\ new \in RunRow /\ new.last = b.event /\ new.status = "completed"
        /\ CompletionEvent(b) = [run |-> b.run, status |-> "completed", seq |-> new.seq,
                                 version |-> new.version]
    BY <2>1 DEF CompletedRun, CompletionEvent, RunRow, RunTerminal
  <2> HIDE DEF new
  <2> QED BY <2>1, <2>2, <2>3, <1>1
<1>7. CASE UNCHANGED <<run, event>>
  BY <1>7 DEF EventMoves
<1>8. ASSUME NEW r \in Runs, Start(r)
      PROVE  EventMoves
  BY <1>8 DEF Start, NewRun, EventMoves, TypeOK, RunTerminal
<1>9. \A t, p, blocked : AttachPlan(t, p, blocked) \/ CompleteRouteOnly(t) => UNCHANGED <<run, event>>
  BY DEF AttachPlan, CompleteRouteOnly
<1>10. \A k, e, r, v, x :
         \/ CompleteReadRun(k, e, r, v, x)
         \/ CompleteReadTurn(k) \/ CompleteReadPlan(k) \/ CompleteAbort(k)
         => UNCHANGED <<run, event>>
  BY DEF CompleteReadRun, CompleteReadTurn, CompleteReadPlan, CompleteAbort, rows
<1>11. \A w : SweepList(w) \/ SweepSkip(w) \/ SweepBatchFails(w) \/ SweepCrash(w)
         => UNCHANGED <<run, event>>
  BY DEF SweepList, SweepSkip, SweepBatchFails, SweepCrash, rows
<1>12. \A p : ConfirmPlan(p) \/ CancelUnstarted(p) => UNCHANGED <<run, event>>
  BY DEF ConfirmPlan, CancelUnstarted
<1>13. Tick \/ UNCHANGED vars => UNCHANGED <<run, event>>
  BY DEF Tick, rows, vars
<1>14. CASE AgentCommand
  <2>1. \A r \in Runs : Sequences(r) \subseteq Nat
    BY DEF Sequences, TypeOK, RunRow
  <2> QED BY <1>14, <2>1, <1>2, <1>4, <1>7, <1>10 DEF AgentCommand
<1>15. CASE CompletionStep
  BY <1>15, <1>6, <1>7, <1>10 DEF CompletionStep
<1>16. CASE \E w \in Sweepers : SweeperStep(w) \/ SweepCrash(w)
  BY <1>16, <1>5, <1>7, <1>11 DEF SweeperStep
<1> QED
  BY <1>7, <1>8, <1>9, <1>12, <1>13, <1>14, <1>15, <1>16 DEF Next

(* What a step may do to the Run references of Turns and to absent Runs.   *)
ReferenceMoves ==
  /\ \A t \in Turns : \/ turn'[t].route
                      \/ /\ turn[t].runs \subseteq turn'[t].runs
                         /\ turn[t].route => turn'[t].route
  /\ \A r \in Runs : run[r].status = "absent" /\ run'[r].status # "absent"
                       => r \in turn'[TurnOf[r]].runs

(* Only a direct reply drops references, and a Run appears only together   *)
(* with its reference.                                                     *)
LEMMA ReferenceStep ==
  ASSUME SafetyInv, [Next]_vars
  PROVE  ReferenceMoves
<1> USE DEF SafetyInv
<1>1. ASSUME NEW t \in Turns, NEW p \in Plans, NEW blocked \in BOOLEAN,
             AttachPlan(t, p, blocked)
      PROVE  ReferenceMoves
  BY <1>1 DEF AttachPlan, ReferenceMoves, TypeOK, TurnRow
<1>2. ASSUME NEW t \in Turns, CompleteRouteOnly(t)
      PROVE  ReferenceMoves
  BY <1>2 DEF CompleteRouteOnly, ReferenceMoves, TypeOK, TurnRow
<1>3. ASSUME NEW r \in Runs, Start(r)
      PROVE  ReferenceMoves
  <2>1. TurnOf[r] \in Turns /\ turn[TurnOf[r]] \in TurnRow
    BY ConstantsOK DEF TypeOK
  <2>2. \A row \in TurnRow : /\ AttachRun(row, r).runs = row.runs \cup {r}
                             /\ AttachRun(row, r).route = row.route
    BY DEF AttachRun, TurnRow
  <2>3. /\ turn'[TurnOf[r]] = AttachRun(turn[TurnOf[r]], r)
        /\ \A t \in Turns : t # TurnOf[r] => turn'[t] = turn[t]
        /\ \A q \in Runs : q # r => run'[q] = run[q]
    BY <1>3, <2>1 DEF Start, TypeOK
  <2> QED BY <2>1, <2>2, <2>3 DEF ReferenceMoves
<1>4. CASE ProgressStep /\ UNCHANGED <<turn, result, outbox, txn>>
  <2>a. PICK e \in EventIds, r \in Runs : \E v \in SeenVersions(r), q \in Sequences(r) :
          Progress(e, r, v, q) \/ Clarify(e, r, v, q)
    BY <1>4 DEF ProgressStep
  <2>1. run[r].status \in Active /\ \A q \in Runs : q # r => run'[q] = run[q]
    BY <2>a DEF Progress, Clarify, StoreProgress, ValidateProgressRun, TypeOK
  <2> QED BY <1>4, <2>1 DEF ReferenceMoves, Active
<1>5. ASSUME NEW id, NEW r \in Runs, NEW status, Close(id, r, status), run[r].status \in Active
      PROVE  ReferenceMoves
  <2>1. \A t \in Turns : turn'[t].runs = turn[t].runs /\ turn'[t].route = turn[t].route
    BY <1>5, ConstantsOK DEF Close, TypeOK, TurnRow
  <2>2. \A q \in Runs : q # r => run'[q] = run[q]
    BY <1>5 DEF Close, TypeOK
  <2> QED BY <1>5, <2>1, <2>2 DEF ReferenceMoves, Active
<1>6. ASSUME NEW e \in EventIds, NEW r \in Runs, NEW v, Fail(e, r, v) \/ Cancel(e, r, v)
      PROVE  ReferenceMoves
  BY <1>5, <1>6 DEF Fail, Cancel, ValidateFailureRun, ValidateCancelRun
<1>7. ASSUME NEW w \in Sweepers, SweepTimeout(w)
      PROVE  ReferenceMoves
  <2>1. NextListed(w).run \in Runs
    BY <1>7, NextListedIn DEF SweepTimeout, TimeoutAccepted, TypeOK, Batch
  <2> QED BY <1>5, <1>7, <2>1 DEF SweepTimeout, TimeoutAccepted, ValidateTimeoutRun
<1>8. ASSUME NEW k \in Workers, CompleteCommit(k)
      PROVE  ReferenceMoves
  <2> DEFINE b == txn[k]
             t == TurnOf[b.run]
  <2>1. /\ b # None /\ b.stage # "run_read" /\ b.run \in Runs /\ t \in Turns
        /\ b.turnrow \in TurnRow /\ b.run \in b.turnrow.runs
    BY <1>8, ConstantsOK DEF CompleteCommit, ValidateBundle, TypeOK, Txn, StageOK
  <2>2. /\ run' = [run EXCEPT ![b.run] = CompletedRun(b)]
        /\ turn' = [turn EXCEPT ![t] = CompletedTurn(b)]
        /\ turn[t].version = b.turnrow.version
    BY <1>8 DEF CompleteCommit, TurnUnchangedSinceRead
  <2>3. b.turnrow = turn[t]
    BY <2>1, <2>2 DEF SnapshotCurrent
  <2> HIDE DEF b
  <2>4. CompletedTurn(b).runs = turn[t].runs /\ CompletedTurn(b).route = turn[t].route
    BY <2>1, <2>3 DEF CompletedTurn, TurnRow
  <2>5. /\ turn'[t] = CompletedTurn(b) /\ \A u \in Turns : u # t => turn'[u] = turn[u]
        /\ \A q \in Runs : q # b.run => run'[q] = run[q]
    BY <2>1, <2>2 DEF TypeOK
  <2>6. b.run \in turn'[TurnOf[b.run]].runs
    BY <2>1, <2>3, <2>4, <2>5
  <2>7. \A u \in Turns : turn'[u].runs = turn[u].runs /\ turn'[u].route = turn[u].route
    BY <2>4, <2>5
  <2> QED BY <2>5, <2>6, <2>7 DEF ReferenceMoves
<1>9. CASE UNCHANGED <<turn, run>>
  BY <1>9 DEF ReferenceMoves
<1> QED
  BY <1>1, <1>2, <1>3, <1>4, <1>6, <1>7, <1>8, <1>9, NextCases

(* Every Run can be accounted for, although `complete' writes what it      *)
(* computed from rows it had read before: a finished Run has its terminal  *)
(* event, and only a direct reply takes a Run out of its Turn.             *)
THEOREM RunsAccountedFor == Spec => []RunsAreAccountedFor
<1>1. Init => RunsAreAccountedFor
  BY ConstantsOK DEF Init, RunsAreAccountedFor, TerminalEventStored, UnreferencedRunWasDropped,
     Finished, AbsentRun, RunTerminal
<1>2. ASSUME SafetyInv, RunsAreAccountedFor, [Next]_vars
      PROVE  RunsAreAccountedFor'
  <2>1. EventMoves /\ ReferenceMoves
    BY <1>2, EventStep, ReferenceStep DEF SafetyInv
  <2>2. TypeOK /\ TypeOK'
    BY <1>2, NextType DEF SafetyInv
  <2>3. ASSUME NEW r \in Runs, Finished(r)'
        PROVE  run'[r].last # None /\ event'[run'[r].last] = EventOf(r)'
    <3>1. CASE run'[r] # run[r]
      BY <3>1, <2>1, <2>3, ConstantsOK DEF EventMoves, Finished, AllEventIds
    <3>2. CASE run'[r] = run[r]
      <4>1. /\ run[r].last # None /\ run[r].last \in AllEventIds
            /\ event[run[r].last] = EventOf(r)
        BY <1>2, <2>2, <2>3, <3>2
        DEF RunsAreAccountedFor, TerminalEventStored, Finished, EventOf, TypeOK, RunRow
      <4>2. EventOf(r) \in EventRow
        BY <2>2, <2>3, <3>2 DEF EventOf, EventRow, Finished, TypeOK, RunRow, RunTerminal
      <4>3. event[run[r].last] # None
        BY <4>1, <4>2, NoneIsNoEvent
      <4>4. event'[run[r].last] = event[run[r].last]
        BY <2>1, <4>1, <4>3 DEF EventMoves
      <4> QED BY <3>2, <4>1, <4>4 DEF EventOf
    <3> QED BY <3>1, <3>2
  <2>4. TerminalEventStored'
    BY <2>3 DEF TerminalEventStored, EventOf, Finished
  <2>5. UnreferencedRunWasDropped'
    BY <1>2, <2>1, ConstantsOK
    DEF RunsAreAccountedFor, UnreferencedRunWasDropped, ReferenceMoves
  <2> QED BY <2>4, <2>5 DEF RunsAreAccountedFor
<1> QED
  BY <1>1, <1>2, SafetyInvariant, PTL DEF Spec

-----------------------------------------------------------------------------
(* Plans: their status fits their Steps, and finished Runs settle theirs.  *)

PlanShows(p) ==
  /\ plan[p].status = "completed" => \A s \in StepsOf(p) : plan[p].steps[s] = "completed"
  /\ plan[p].status \in Active => StepsIn(p, plan[p].steps, "failed") = {}
  /\ plan[p].status = "blocked" => plan[p].current \in StepsIn(p, plan[p].steps, "blocked")

(* The Plan row a handler inside `complete' has read is the current row or *)
(* out of date.                                                            *)
PlanSnapshotCurrent ==
  \A k \in Workers : txn[k] # None /\ txn[k].stage = "ready" /\ StepOf[txn[k].run] # None =>
    LET row == plan[RunPlan(txn[k].run)]
    IN  /\ txn[k].planrow.version <= row.version
        /\ txn[k].planrow.version = row.version => txn[k].planrow = row

PlanInv == PlanSnapshotCurrent /\ PlanShowsSteps /\ FinishedRunSettlesStep

(* What a step may do to a Plan row.                                       *)
PlanMoves(p) ==
  \/ plan'[p] = plan[p]
  \/ /\ plan'[p].version = plan[p].version + 1
     /\ \A s \in Steps : plan[p].steps[s] \in PlanTerminal => plan'[p].steps[s] \in PlanTerminal
     /\ PlanShows(p)'

(* A Run that a step finishes has its Step settled.                        *)
Settles(r) ==
  run'[r] # run[r] /\ run'[r].status \in RunTerminal /\ StepOf[r] # None =>
    plan'[RunPlan(r)].steps[StepOf[r]] \in PlanTerminal

PlansMove == (\A p \in Plans : PlanMoves(p)) /\ (\A r \in Runs : Settles(r))

\* A Step that a Run executes belongs to the Plan of the Run.
LEMMA PlanOfRun ==
  ASSUME NEW r \in Runs, StepOf[r] # None
  PROVE  StepOf[r] \in Steps /\ RunPlan(r) \in Plans /\ StepOf[r] \in StepsOf(RunPlan(r))
BY ConstantsOK DEF RunPlan, StepsOf

(* The status computed after a completion fits the Steps.                  *)
LEMMA PlanStateShows ==
  ASSUME NEW p \in Plans, NEW steps \in [Steps -> Active \cup PlanTerminal],
         NEW st \in PlanStateAfterCompletion(p, steps)
  PROVE  /\ st[1] = "completed" => \A s \in StepsOf(p) : steps[s] = "completed"
         /\ st[1] \in Active => StepsIn(p, steps, "failed") = {}
         /\ st[1] = "blocked" => st[2] \in StepsIn(p, steps, "blocked")
<1> DEFINE Done == StepsIn(p, steps, "completed")
           Failed == StepsIn(p, steps, "failed")
           Blocked == StepsIn(p, steps, "blocked")
           Running == StepsIn(p, steps, "running")
           Ready == ReadySteps(p, steps)
<1>1. Blocked \in SUBSET Steps
  BY DEF StepsIn, StepsOf
<1>2. \/ Done = StepsOf(p) /\ st = <<"completed", None>>
      \/ st = <<"failed", None>>
      \/ Failed = {} /\ Blocked # {} /\ st = <<"blocked", FirstStep(Blocked)>>
      \/ Failed = {} /\ st = <<"running", FirstStep(Running)>>
      \/ Failed = {} /\ st = <<"running", FirstStep(Ready)>>
  BY DEF PlanStateAfterCompletion
<1>3. Blocked # {} => FirstStep(Blocked) \in Blocked
  BY <1>1, FirstStepIn
<1>4. Done = StepsOf(p) => \A s \in StepsOf(p) : steps[s] = "completed" /\ steps[s] # "failed"
  BY DEF StepsIn
<1>5. Done = StepsOf(p) => Failed = {}
  BY <1>4 DEF StepsIn
<1> HIDE DEF Done, Failed, Blocked, Running, Ready
<1>6. /\ st[1] = "completed" => Done = StepsOf(p)
      /\ st[1] \in Active => Failed = {}
      /\ st[1] = "blocked" => st[2] \in Blocked
  BY <1>2, <1>3, <1>5 DEF Active
<1> QED BY <1>4, <1>6 DEF Failed, Blocked

(* Completion rewrites a Plan only from its current row.                   *)
LEMMA CommitPlan ==
  ASSUME TypeOK, PlanSnapshotCurrent, NEW k \in Workers, CompleteCommit(k)
  PROVE  (\A p \in Plans : PlanMoves(p)) /\ (\A r \in Runs : Settles(r))
<1> DEFINE b == txn[k]
<1>1. /\ b # None /\ b.run \in Runs /\ b.stage = "ready" /\ b.run # None
      /\ StepOf[b.run] # None => b.planrow \in PlanRow
      /\ run' = [run EXCEPT ![b.run] = CompletedRun(b)]
      /\ ApplyPlan(b)
  BY ConstantsOK DEF CompleteCommit, TypeOK, Txn, StageOK
<1>2. CASE StepOf[b.run] = None
  BY <1>1, <1>2 DEF ApplyPlan, PlanMoves, Settles, TypeOK
<1>3. CASE StepOf[b.run] # None
  <2>a. PICK p \in Plans : p = RunPlan(b.run)
    BY <1>1, <1>3, PlanOfRun
  <2> DEFINE s == StepOf[b.run]
             steps == [b.planrow.steps EXCEPT ![s] = "completed"]
  <2>1. s \in Steps
    BY <1>1, <1>3, PlanOfRun
  <2>2. /\ plan[p].version = b.planrow.version
        /\ \E row \in CompletePlanStep(p, b.planrow, s) : plan' = [plan EXCEPT ![p] = row]
    BY <1>1, <1>3, <2>a DEF ApplyPlan
  <2>3. b.planrow = plan[p] /\ plan[p] \in PlanRow
    BY <1>1, <1>3, <2>a, <2>1, <2>2 DEF PlanSnapshotCurrent, TypeOK
  <2>4. PICK st \in PlanStateAfterCompletion(p, steps) :
          plan' = [plan EXCEPT ![p] = [status |-> st[1], version |-> plan[p].version + 1,
                                       current |-> st[2], steps |-> steps]]
    BY <2>2, <2>3 DEF CompletePlanStep
  <2>5. /\ steps \in [Steps -> Active \cup PlanTerminal] /\ steps[s] \in PlanTerminal
        /\ \A u \in Steps : plan[p].steps[u] \in PlanTerminal => steps[u] \in PlanTerminal
    BY <2>1, <2>3 DEF PlanRow, PlanTerminal
  <2> HIDE DEF b, s, steps
  <2>6. /\ plan'[p].status = st[1] /\ plan'[p].version = plan[p].version + 1
        /\ plan'[p].current = st[2] /\ plan'[p].steps = steps
        /\ \A q \in Plans : q # p => plan'[q] = plan[q]
    BY <2>1, <2>4 DEF TypeOK
  <2>7. /\ st[1] = "completed" => \A u \in StepsOf(p) : steps[u] = "completed"
        /\ st[1] \in Active => StepsIn(p, steps, "failed") = {}
        /\ st[1] = "blocked" => st[2] \in StepsIn(p, steps, "blocked")
    BY <2>1, <2>4, <2>5, PlanStateShows
  <2>8. PlanShows(p)'
    BY <2>6, <2>7 DEF PlanShows
  <2>9. \A q \in Plans : PlanMoves(q)
    BY <2>5, <2>6, <2>8 DEF PlanMoves
  <2>10. \A r \in Runs : r # b.run => run'[r] = run[r]
    BY <1>1 DEF TypeOK
  <2>11. p = RunPlan(b.run) /\ s = StepOf[b.run]
    BY <2>a DEF s
  <2>12. \A r \in Runs : Settles(r)
    BY <2>5, <2>6, <2>10, <2>11 DEF Settles
  <2> QED BY <2>9, <2>12
<1> QED BY <1>2, <1>3

(* A failure, cancellation or timeout settles the Step of its Run.         *)
LEMMA ClosePlan ==
  ASSUME TypeOK, NEW id, NEW r \in Runs, NEW status \in RunTerminal, Close(id, r, status),
         NEW st \in {"failed", "cancelled"}, plan' = ClosePlanStep(r, st)
  PROVE  (\A p \in Plans : PlanMoves(p)) /\ (\A q \in Runs : Settles(q))
<1>1. \A q \in Runs : q # r => run'[q] = run[q]
  BY DEF Close, TypeOK
<1>2. CASE StepOf[r] = None
  BY <1>1, <1>2 DEF ClosePlanStep, PlanMoves, Settles
<1>3. CASE StepOf[r] # None
  <2> DEFINE p == RunPlan(r)
             steps == [plan[p].steps EXCEPT ![StepOf[r]] = st]
  <2>1. StepOf[r] \in Steps /\ p \in Plans /\ plan[p] \in PlanRow
    BY <1>3, PlanOfRun DEF TypeOK
  <2>2. plan' = [plan EXCEPT ![p] = [status |-> st, version |-> plan[p].version + 1,
                                     current |-> None, steps |-> steps]]
    BY <1>3 DEF ClosePlanStep
  <2>3. /\ steps[StepOf[r]] \in PlanTerminal
        /\ \A u \in Steps : plan[p].steps[u] \in PlanTerminal => steps[u] \in PlanTerminal
    BY <2>1 DEF PlanRow, PlanTerminal
  <2> HIDE DEF p, steps
  <2>4. /\ plan'[p].status = st /\ plan'[p].version = plan[p].version + 1
        /\ plan'[p].steps = steps /\ \A q \in Plans : q # p => plan'[q] = plan[q]
    BY <2>1, <2>2 DEF TypeOK
  <2>5. PlanShows(p)'
    BY <2>4 DEF PlanShows, Active
  <2>6. p = RunPlan(r)
    BY DEF p
  <2> QED BY <1>1, <2>3, <2>4, <2>5, <2>6 DEF PlanMoves, Settles
<1> QED BY <1>2, <1>3

(* A clarification changes a Step of an active Plan only.                  *)
LEMMA ClarifyPlan ==
  ASSUME TypeOK, PlanShowsSteps, NEW r \in Runs, NEW e \in EventIds, NEW v, NEW q,
         Clarify(e, r, v, q)
  PROVE  \A p \in Plans : PlanMoves(p)
<1> DEFINE p == RunPlan(r)
           s == StepOf[r]
           steps == [plan[p].steps EXCEPT ![s] = "blocked"]
<1>1. /\ s \in Steps /\ p \in Plans /\ s \in StepsOf(p) /\ plan[p] \in PlanRow
      /\ StepsOf(p) \subseteq Steps
  BY PlanOfRun DEF Clarify, TypeOK, StepsOf
<1>2. /\ plan' = [plan EXCEPT ![p] = [status |-> "blocked", version |-> plan[p].version + 1,
                                      current |-> s, steps |-> steps]]
      /\ plan[p].status \in Active /\ plan[p].steps[s] \in Active
  BY DEF Clarify, ProjectClarification, ValidatePlanStep
<1>3. /\ steps[s] = "blocked"
      /\ \A u \in Steps : u # s => steps[u] = plan[p].steps[u]
  BY <1>1 DEF PlanRow
<1>4. StepsIn(p, plan[p].steps, "failed") = {}
  BY <1>1, <1>2 DEF PlanShowsSteps, ActivePlanHasNoFailedStep
<1> HIDE DEF p, s, steps
<1>5. /\ plan'[p].status = "blocked" /\ plan'[p].version = plan[p].version + 1
      /\ plan'[p].current = s /\ plan'[p].steps = steps
      /\ \A u \in Plans : u # p => plan'[u] = plan[u]
  BY <1>1, <1>2 DEF TypeOK
<1>6. StepsIn(p, steps, "failed") = {} /\ s \in StepsIn(p, steps, "blocked")
  BY <1>1, <1>3, <1>4 DEF StepsIn
<1>7. p' = p
  BY DEF p
<1>8. PlanShows(p)'
  BY <1>5, <1>6, <1>7 DEF PlanShows
<1>9. \A u \in Steps : plan[p].steps[u] \in PlanTerminal => steps[u] \in PlanTerminal
  BY <1>2, <1>3 DEF Active, PlanTerminal
<1> QED BY <1>5, <1>8, <1>9 DEF PlanMoves

(* Every step moves Plans in these ways and settles what it finishes.      *)
LEMMA PlanStep ==
  ASSUME TypeOK, PlanInv, [Next]_vars
  PROVE  PlansMove
<1> USE DEF PlanInv
<1>1. ASSUME NEW e \in EventIds, NEW r \in Runs, NEW v, NEW q,
             Progress(e, r, v, q) \/ Clarify(e, r, v, q)
      PROVE  PlansMove
  <2>1. PICK status \in {"running", "blocked"} : StoreProgress(e, r, q, status)
    BY <1>1 DEF Progress, Clarify
  <2>2. \A u \in Runs : Settles(u)
    BY <2>1 DEF StoreProgress, Settles, TypeOK, RunRow, RunTerminal
  <2>3. \A p \in Plans : PlanMoves(p)
    BY <1>1, ClarifyPlan DEF Progress, PlanMoves
  <2> QED BY <2>2, <2>3 DEF PlansMove
<1>2. ASSUME NEW e \in EventIds, NEW r \in Runs, NEW v, Fail(e, r, v) \/ Cancel(e, r, v)
      PROVE  PlansMove
  BY <1>2, ClosePlan DEF PlansMove, Fail, Cancel, FailPlanStep, CancelPlanStep, RunTerminal
<1>3. ASSUME NEW w \in Sweepers, SweepTimeout(w)
      PROVE  PlansMove
  <2>1. NextListed(w).run \in Runs
    BY <1>3, NextListedIn DEF SweepTimeout, TimeoutAccepted, TypeOK, Batch
  <2> QED BY <1>3, <2>1, ClosePlan DEF PlansMove, SweepTimeout, FailPlanStep, RunTerminal
<1>4. ASSUME NEW k \in Workers, CompleteCommit(k)
      PROVE  PlansMove
  BY <1>4, CommitPlan DEF PlansMove
<1>5. ASSUME NEW p \in Plans, ConfirmPlan(p)
      PROVE  PlansMove
  <2>1. /\ plan' = [plan EXCEPT ![p].status = "running", ![p].version = plan[p].version + 1]
        /\ plan[p].status = "pending" /\ run' = run
    BY <1>5 DEF ConfirmPlan
  <2>2. /\ plan'[p].status = "running" /\ plan'[p].version = plan[p].version + 1
        /\ plan'[p].steps = plan[p].steps /\ \A q \in Plans : q # p => plan'[q] = plan[q]
    BY <2>1 DEF TypeOK, PlanRow
  <2>3. StepsIn(p, plan[p].steps, "failed") = {}
    BY <2>1 DEF PlanShowsSteps, ActivePlanHasNoFailedStep, Active
  <2>4. PlanShows(p)'
    BY <2>2, <2>3 DEF PlanShows
  <2> QED BY <2>1, <2>2, <2>4 DEF PlansMove, PlanMoves, Settles
<1>6. ASSUME NEW p \in Plans, CancelUnstarted(p)
      PROVE  PlansMove
  <2> DEFINE steps == [s \in Steps |-> IF s \in StepsOf(p) /\ plan[p].steps[s] \in {"pending", "blocked"}
                                       THEN "cancelled" ELSE plan[p].steps[s]]
  <2>1. /\ plan' = [plan EXCEPT ![p] = [status |-> "cancelled", version |-> plan[p].version + 1,
                                        current |-> None, steps |-> steps]]
        /\ run' = run
    BY <1>6 DEF CancelUnstarted
  <2>2. \A s \in Steps : plan[p].steps[s] \in PlanTerminal => steps[s] \in PlanTerminal
    BY DEF PlanTerminal
  <2> HIDE DEF steps
  <2>3. /\ plan'[p].status = "cancelled" /\ plan'[p].version = plan[p].version + 1
        /\ plan'[p].steps = steps /\ \A q \in Plans : q # p => plan'[q] = plan[q]
    BY <2>1 DEF TypeOK
  <2>4. PlanShows(p)'
    BY <2>3 DEF PlanShows, Active
  <2> QED BY <2>1, <2>2, <2>3, <2>4 DEF PlansMove, PlanMoves, Settles
<1>7. ASSUME NEW r \in Runs, Start(r)
      PROVE  PlansMove
  BY <1>7 DEF Start, NewRun, PlansMove, PlanMoves, Settles, TypeOK, RunTerminal
<1>8. CASE UNCHANGED <<plan, run>>
  BY <1>8 DEF PlansMove, PlanMoves, Settles
<1>9. \A t, p, blocked : AttachPlan(t, p, blocked) \/ CompleteRouteOnly(t) => UNCHANGED <<plan, run>>
  BY DEF AttachPlan, CompleteRouteOnly
<1>10. \A k, e, r, v, x :
         \/ CompleteReadRun(k, e, r, v, x)
         \/ CompleteReadTurn(k) \/ CompleteReadPlan(k) \/ CompleteAbort(k)
         => UNCHANGED <<plan, run>>
  BY DEF CompleteReadRun, CompleteReadTurn, CompleteReadPlan, CompleteAbort, rows
<1>11. \A w : SweepList(w) \/ SweepSkip(w) \/ SweepBatchFails(w) \/ SweepCrash(w)
         => UNCHANGED <<plan, run>>
  BY DEF SweepList, SweepSkip, SweepBatchFails, SweepCrash, rows
<1>12. Tick \/ UNCHANGED vars => UNCHANGED <<plan, run>>
  BY DEF Tick, rows, vars
<1>13. CASE AgentCommand
  BY <1>13, <1>1, <1>2, <1>8, <1>10 DEF AgentCommand
<1>14. CASE CompletionStep
  BY <1>14, <1>4, <1>8, <1>10 DEF CompletionStep
<1>15. CASE \E w \in Sweepers : SweeperStep(w) \/ SweepCrash(w)
  BY <1>15, <1>3, <1>8, <1>11 DEF SweeperStep
<1> QED
  BY <1>5, <1>6, <1>7, <1>8, <1>9, <1>12, <1>13, <1>14, <1>15 DEF Next

(* What a handler has read of its Plan stays current or becomes outdated.  *)
LEMMA PlanSnapshotStep ==
  ASSUME TypeOK, PlanInv, [Next]_vars
  PROVE  PlanSnapshotCurrent'
<1>0. \A p \in Plans : PlanMoves(p)
  BY PlanStep DEF PlansMove
<1> SUFFICES ASSUME NEW k \in Workers, txn'[k] # None, txn'[k].stage = "ready",
                    StepOf[txn'[k].run] # None
             PROVE  /\ txn'[k].planrow.version <= plan'[RunPlan(txn'[k].run)].version
                    /\ txn'[k].planrow.version = plan'[RunPlan(txn'[k].run)].version
                         => txn'[k].planrow = plan'[RunPlan(txn'[k].run)]
  BY DEF PlanSnapshotCurrent, RunPlan
<1>1. CASE txn'[k] = txn[k]
  <2>1. PICK p \in Plans : p = RunPlan(txn[k].run)
    BY <1>1, PlanOfRun DEF TypeOK, Txn
  <2>2. /\ txn[k].planrow.version <= plan[p].version
        /\ txn[k].planrow.version = plan[p].version => txn[k].planrow = plan[p]
    BY <1>1, <2>1 DEF PlanInv, PlanSnapshotCurrent
  <2>3. txn[k].planrow.version \in Nat /\ plan[p].version \in Nat
    BY <1>1 DEF TypeOK, Txn, StageOK, PlanRow
  <2>4. PlanMoves(p)
    BY <1>0
  <2> QED BY <1>1, <2>1, <2>2, <2>3, <2>4 DEF PlanMoves
<1>2. CASE txn'[k] # txn[k]
  <2>1. ~(\E e \in EventIds, r \in Runs, v \in Nat, x \in ResultIds, j \in Workers :
            CompleteReadRun(j, e, r, v, x))
    BY <1>2 DEF CompleteReadRun, TypeOK
  <2>2. \A j \in Workers : ~CompleteReadTurn(j)
    BY <1>2 DEF CompleteReadTurn, TypeOK, Txn
  <2>3. \A j \in Workers : ~(CompleteCommit(j) \/ CompleteAbort(j))
    BY <1>2 DEF CompleteCommit, CompleteAbort, TypeOK
  <2>4. ~UNCHANGED txn
    BY <1>2
  <2>5. PICK j \in Workers : CompleteReadPlan(j)
    BY <2>1, <2>2, <2>3, <2>4, NextCases
    DEF AttachPlan, CompleteRouteOnly, Start, Fail, Cancel, SweepTimeout, Close
  <2>6. j = k /\ txn[k] \in Txn /\ plan' = plan
    BY <1>2, <2>5 DEF CompleteReadPlan, TypeOK, rows
  <2>7. txn'[k].run = txn[k].run /\ txn'[k].planrow = plan[RunPlan(txn[k].run)]
    BY <2>5, <2>6 DEF CompleteReadPlan, TypeOK, Txn
  <2>8. plan'[RunPlan(txn'[k].run)] = txn'[k].planrow
    BY <2>6, <2>7 DEF RunPlan
  <2>9. txn'[k].planrow.version \in Nat
    <3>1. RunPlan(txn[k].run) \in Plans
      BY <2>6, <2>7, PlanOfRun DEF Txn
    <3> QED BY <2>7, <3>1 DEF TypeOK, PlanRow
  <2> QED BY <2>8, <2>9
<1> QED BY <1>1, <1>2

(* Plans stay consistent while Turns of the session complete, fail, cancel *)
(* and clarify Steps of one Plan: the invariant behind the next two.       *)
THEOREM PlanInvariant == Spec => []PlanInv
<1>1. Init => PlanInv
  <2>1. Init => PlanSnapshotCurrent /\ FinishedRunSettlesStep
    BY DEF Init, PlanSnapshotCurrent, FinishedRunSettlesStep, Finished, AbsentRun, RunTerminal
  <2>2. ASSUME Init, NEW p \in Plans
        PROVE  PlanShows(p)
    <3>1. plan[p].status = "pending" /\ plan[p].steps = [s \in Steps |-> "pending"]
      BY <2>2 DEF Init, NewPlan
    <3>2. StepsOf(p) \subseteq Steps
      BY DEF StepsOf
    <3> QED BY <3>1, <3>2 DEF PlanShows, StepsIn
  <2> QED
    BY <2>1, <2>2 DEF PlanInv, PlanShows, PlanShowsSteps, CompletedPlanIsComplete,
       ActivePlanHasNoFailedStep, BlockedPlanShowsBlockedStep
<1>2. ASSUME TypeOK, PlanInv, [Next]_vars
      PROVE  PlanInv'
  <2>1. (\A p \in Plans : PlanMoves(p)) /\ (\A r \in Runs : Settles(r))
    BY <1>2, PlanStep DEF PlansMove
  <2>2. \A p \in Plans : PlanShows(p)
    BY <1>2 DEF PlanInv, PlanShows, PlanShowsSteps, CompletedPlanIsComplete,
       ActivePlanHasNoFailedStep, BlockedPlanShowsBlockedStep
  <2>3. \A p \in Plans : PlanShows(p)'
    BY <2>1, <2>2 DEF PlanMoves, PlanShows
  <2>4. PlanShowsSteps'
    BY <2>3 DEF PlanShows, PlanShowsSteps, CompletedPlanIsComplete,
       ActivePlanHasNoFailedStep, BlockedPlanShowsBlockedStep
  <2>5. FinishedRunSettlesStep'
    <3> SUFFICES ASSUME NEW r \in Runs, Finished(r)', StepOf[r] # None
                 PROVE  plan'[RunPlan(r)].steps[StepOf[r]] \in PlanTerminal
      BY DEF FinishedRunSettlesStep, RunPlan
    <3>1. StepOf[r] \in Steps /\ RunPlan(r) \in Plans
      BY PlanOfRun
    <3>2. CASE run'[r] # run[r]
      BY <2>1, <3>2 DEF Settles, Finished
    <3>3. CASE run'[r] = run[r]
      BY <1>2, <2>1, <3>1, <3>3 DEF PlanInv, FinishedRunSettlesStep, Finished, PlanMoves
    <3> QED BY <3>2, <3>3
  <2> QED BY <1>2, <2>4, <2>5, PlanSnapshotStep DEF PlanInv
<1> QED BY <1>1, <1>2, TypeCorrect, PTL DEF Spec

(* The status and the current Step of a Plan fit its Steps.                *)
THEOREM PlansShowTheirSteps == Spec => []PlanShowsSteps
<1>1. PlanInv => PlanShowsSteps BY DEF PlanInv
<1> QED BY <1>1, PlanInvariant, PTL

(* A finished Run leaves no active Step, whichever of the transactions of  *)
(* other Runs rewrote the Plan in between.                                 *)
THEOREM FinishedRunsSettleSteps == Spec => []FinishedRunSettlesStep
<1>1. PlanInv => FinishedRunSettlesStep BY DEF PlanInv
<1> QED BY <1>1, PlanInvariant, PTL
=============================================================================
