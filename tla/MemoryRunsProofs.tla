-------------------------- MODULE MemoryRunsProofs --------------------------
(***************************************************************************)
(* Proofs about MemoryRuns, for every value of its constants: the Memory   *)
(* backend keeps every row well formed and decides every Turn once.        *)
(***************************************************************************)
EXTENDS MemoryRuns, DelegatedRunsProofs

(* An open Turn has neither an answer nor a notice.                        *)
OpenTurnsAreBlank ==
  \A t \in Turns : turn[t].status \in Active => turn[t].results = {} /\ outbox[t] = {}

MemInv == TypeOK /\ OpenTurnsAreBlank

-----------------------------------------------------------------------------
(* Type correctness.                                                       *)

(* A batch that loses Runs stays a batch.                                  *)
LEMMA ShorterBatch ==
  ASSUME TypeOK, NEW w \in Sweepers, NEW T \in SUBSET sweep[w].todo
  PROVE  [sweep EXCEPT ![w].todo = T] \in [Sweepers -> Batch]
  BY DEF TypeOK, Batch

(* What the Memory stores do as the database stores do.                    *)
Alike ==
  \/ \E t \in Turns, p \in Plans, blocked \in BOOLEAN : AttachPlan(t, p, blocked)
  \/ \E r \in Runs : MemStart(r)
  \/ \E e \in EventIds, r \in Runs : \E v \in SeenVersions(r), q \in Sequences(r) :
       MemProgress(e, r, v, q)
  \/ \E w \in Sweepers : MemSweepList(w) \/ SweepSkip(w)
  \/ \E p \in Plans : ConfirmPlan(p) \/ MemCancelUnstarted(p)
  \/ Tick

(* These steps are steps of the database.                                  *)
LEMMA AlikeIsNext == Alike => Next
<1> SUFFICES ASSUME Alike PROVE Next
  OBVIOUS
<1>1. ASSUME NEW e \in EventIds, NEW r \in Runs, NEW v \in SeenVersions(r),
             NEW q \in Sequences(r), MemProgress(e, r, v, q)
      PROVE  AgentCommand
  BY <1>1 DEF MemProgress, AgentCommand
<1> QED
  BY <1>1 DEF Alike, Next, MemStart, MemSweepList, MemCancelUnstarted, SweeperStep

(* The Plan a completion saves is well formed.                             *)
LEMMA CompletesStepType ==
  ASSUME TypeOK, NEW r \in Runs, CompletesStep(r)
  PROVE  plan' \in [Plans -> PlanRow]
<1>1. CASE StepOf[r] = None
  BY <1>1 DEF CompletesStep, TypeOK
<1>2. CASE StepOf[r] # None
  <2>1. StepOf[r] \in Steps /\ RunPlan(r) \in Plans
    BY <1>2, ConstantsOK DEF RunPlan
  <2>2. plan[RunPlan(r)] \in PlanRow
    BY <2>1 DEF TypeOK
  <2>3. PICK row \in CompletePlanStep(RunPlan(r), plan[RunPlan(r)], StepOf[r]) :
          plan' = [plan EXCEPT ![RunPlan(r)] = row]
    BY <1>2 DEF CompletesStep
  <2>4. row \in PlanRow
    BY <2>1, <2>2, <2>3, CompletePlanStepType
  <2> QED
    BY <2>1, <2>3, <2>4 DEF TypeOK
<1> QED
  BY <1>1, <1>2

(* Every operation of the Memory backend keeps every row well formed.      *)
LEMMA MemNextType == TypeOK /\ [MemNext]_vars => TypeOK'
<1> SUFFICES ASSUME TypeOK, [MemNext]_vars PROVE TypeOK'
  OBVIOUS
<1>1. CASE Alike
  BY <1>1, AlikeIsNext, NextType
<1>2. ASSUME NEW t \in Turns, MemCompleteRouteOnly(t) PROVE TypeOK'
  <2>1. turn' \in [Turns -> TurnRow]
    BY <1>2 DEF MemCompleteRouteOnly, TypeOK, TurnRow, RunTerminal
  <2>2. outbox' \in [Turns -> SUBSET RunTerminal]
    BY <1>2 DEF MemCompleteRouteOnly, AddIdempotent, TypeOK, RunTerminal
  <2> QED
    BY <1>2, <2>1, <2>2 DEF MemCompleteRouteOnly, TypeOK
<1>3. ASSUME NEW e \in EventIds, NEW r \in Runs, NEW v, NEW x \in ResultIds,
             MemComplete(e, r, v, x)
      PROVE  TypeOK'
  <2>1. /\ TurnOf[r] \in Turns /\ run[r] \in RunRow /\ turn[TurnOf[r]] \in TurnRow
        /\ e \in AllEventIds
    BY ConstantsOK DEF TypeOK, AllEventIds
  <2>2. run' \in [Runs -> RunRow]
    BY <1>3, <2>1 DEF MemComplete, TypeOK, RunRow, RunTerminal
  <2>3. turn' \in [Turns -> TurnRow]
    <3>1. /\ turn[TurnOf[r]].version + 1 \in Nat
          /\ turn[TurnOf[r]].results \cup {x} \in SUBSET ResultIds
      BY <2>1 DEF TurnRow
    <3> QED
      BY <1>3, <2>1, <3>1 DEF MemComplete, TypeOK, TurnRow, RunTerminal
  <2>4. event' \in [AllEventIds -> EventRow \cup {None}]
    BY <1>3, <2>1 DEF MemComplete, TypeOK, EventRow, RunRow, RunTerminal
  <2>5. /\ result' \in [ResultIds -> Runs \cup {None}]
        /\ outbox' \in [Turns -> SUBSET RunTerminal]
    BY <1>3, <2>1 DEF MemComplete, AddIdempotent, TypeOK, RunTerminal
  <2>6. plan' \in [Plans -> PlanRow]
    BY <1>3, CompletesStepType DEF MemComplete
  <2>7. UNCHANGED <<txn, sweep, now>>
    BY <1>3 DEF MemComplete
  <2> QED
    BY <2>2, <2>3, <2>4, <2>5, <2>6, <2>7 DEF TypeOK
<1>4. ASSUME NEW e \in EventIds, NEW r \in Runs, NEW v, MemCompleteRefused(e, r, v)
      PROVE  TypeOK'
  <2>1. plan' \in [Plans -> PlanRow]
    BY <1>4, CompletesStepType DEF MemCompleteRefused
  <2> QED
    BY <1>4, <2>1 DEF MemCompleteRefused, TypeOK
<1>5. ASSUME NEW id \in AllEventIds, NEW r \in Runs, NEW status \in RunTerminal,
             NEW closed \in PlanTerminal, Close(id, r, status),
             plan' = ClosePlanStep(r, closed), sweep' \in [Sweepers -> Batch]
      PROVE  TypeOK'
  <2>1. plan' \in [Plans -> PlanRow]
    BY <1>5, ClosePlanStepType
  <2>2. UNCHANGED txn
    BY <1>5 DEF Close
  <2> QED
    BY <1>5, <2>1, <2>2, CloseType DEF TypeOK
<1>6. ASSUME NEW e \in EventIds, NEW r \in Runs, NEW v,
             MemFail(e, r, v) \/ MemCancel(e, r, v)
      PROVE  TypeOK'
  <2>1. /\ e \in AllEventIds /\ sweep' \in [Sweepers -> Batch]
        /\ {"failed", "cancelled"} \subseteq RunTerminal \cap PlanTerminal
    BY <1>6 DEF AllEventIds, RunTerminal, PlanTerminal, MemFail, MemCancel, TypeOK
  <2> QED
    BY <1>5, <1>6, <2>1 DEF MemFail, MemCancel, FailPlanStep, CancelPlanStep
<1>7. ASSUME NEW w \in Sweepers, MemTimeout(w) PROVE TypeOK'
  <2> DEFINE r == NextListed(w).run
  <2>1. r \in Runs
    BY <1>7, NextListedIn DEF MemTimeout, TimeoutAccepted, TypeOK, Batch
  <2>2. /\ TimeoutEventId(r) \in AllEventIds /\ "timed_out" \in RunTerminal
        /\ "failed" \in PlanTerminal
    BY <2>1 DEF TimeoutEventId, AllEventIds, RunTerminal, PlanTerminal
  <2>3. sweep' \in [Sweepers -> Batch]
    <3> DEFINE T == sweep[w].todo \ {NextListed(w)}
    <3>1. sweep' = [sweep EXCEPT ![w].todo = T] /\ T \in SUBSET sweep[w].todo
      BY <1>7 DEF MemTimeout
    <3> HIDE DEF T
    <3> QED
      BY <3>1, ShorterBatch
  <2>4. Close(TimeoutEventId(r), r, "timed_out") /\ plan' = ClosePlanStep(r, "failed")
    BY <1>7 DEF MemTimeout, FailPlanStep
  <2> HIDE DEF r
  <2> QED
    BY <1>5, <2>1, <2>2, <2>3, <2>4
<1>8. ASSUME NEW w \in Sweepers, MemTimeoutRaises(w) PROVE TypeOK'
  <2>1. sweep' = [sweep EXCEPT ![w].todo = {}]
    BY <1>8 DEF MemTimeoutRaises
  <2>2. sweep' \in [Sweepers -> Batch]
    BY <2>1, ShorterBatch
  <2> QED
    BY <1>8, <2>2 DEF MemTimeoutRaises, TypeOK, rows
<1>9. CASE UNCHANGED vars
  BY <1>9 DEF TypeOK, vars
<1> QED
  BY <1>1, <1>2, <1>3, <1>4, <1>6, <1>7, <1>8, <1>9
  DEF MemNext, MemAgentCommand, MemSweeperStep, Alike

(* Every row of the Memory backend is well formed.                         *)
THEOREM MemoryTypeCorrect == MemSpec => []TypeOK
  BY InitType, MemNextType, PTL DEF MemSpec

-----------------------------------------------------------------------------
(* Each Turn is decided once.                                              *)

(* The ways a step can touch Turns and the outbox: not at all, a Turn that *)
(* stays open, or an open Turn that is decided and announced.              *)
LeavesTurns == UNCHANGED <<turn, outbox>>

KeepsTurnOpen ==
  \E t \in Turns :
    /\ turn[t].status \in Active
    /\ \E row \in TurnRow :
         /\ row.status \in Active /\ row.results = turn[t].results
         /\ turn' = [turn EXCEPT ![t] = row]
    /\ UNCHANGED outbox

DecidesTurn ==
  \E t \in Turns, status \in RunTerminal :
    /\ turn[t].status \in Active
    /\ \E row \in TurnRow :
         /\ row.status = status
         /\ \/ row.results \in {{}, turn[t].results}
            \/ \E x \in ResultIds : row.results = turn[t].results \cup {x}
         /\ turn' = [turn EXCEPT ![t] = row]
    /\ outbox' = [outbox EXCEPT ![t] = @ \cup {status}]

(* A Turn that is not terminal is open.                                    *)
LEMMA NotTerminalIsActive ==
  ASSUME TypeOK, NEW t \in Turns, turn[t].status \notin RunTerminal
  PROVE  turn[t].status \in Active
<1>1. turn[t] \in TurnRow
  BY DEF TypeOK
<1> QED
  BY <1>1 DEF TurnRow

(* A failure, a cancellation and a timeout decide an open Turn.            *)
LEMMA CloseDecides ==
  ASSUME TypeOK, NEW id \in AllEventIds, NEW r \in Runs, NEW status \in RunTerminal,
         turn[TurnOf[r]].status \notin RunTerminal, Close(id, r, status)
  PROVE  DecidesTurn
<1> DEFINE t == TurnOf[r]
           row == [turn[t] EXCEPT !.status = status, !.version = turn[t].version + 1]
<1>1. t \in Turns /\ turn[t] \in TurnRow /\ turn[t].status \in Active
  BY ConstantsOK, NotTerminalIsActive DEF TypeOK
<1>2. row \in TurnRow /\ row.status = status /\ row.results = turn[t].results
  <2>1. /\ turn[t].version + 1 \in Nat
        /\ DOMAIN turn[t] = {"status", "version", "runs", "results", "plan", "route"}
    BY <1>1 DEF TurnRow
  <2>2. row.status = status /\ row.results = turn[t].results
    BY <2>1
  <2>3. row \in TurnRow
    BY <1>1, <2>1 DEF TurnRow
  <2> QED
    BY <2>2, <2>3
<1>3. turn' = [turn EXCEPT ![t] = row] /\ outbox' = [outbox EXCEPT ![t] = @ \cup {status}]
  BY <1>1 DEF Close, TypeOK
<1> HIDE DEF t, row
<1> QED
  BY <1>1, <1>2, <1>3 DEF DecidesTurn

(* Every step of the Memory backend is of one of these kinds.              *)
LEMMA MemTurnCases ==
  ASSUME TypeOK, [MemNext]_vars
  PROVE  LeavesTurns \/ KeepsTurnOpen \/ DecidesTurn
<1>1. ASSUME NEW t \in Turns, NEW p \in Plans, NEW blocked \in BOOLEAN,
             AttachPlan(t, p, blocked)
      PROVE  KeepsTurnOpen
  <2> DEFINE row == [turn[t] EXCEPT !.status = IF blocked THEN "blocked" ELSE "running",
                                    !.version = turn[t].version + 1, !.plan = p]
  <2>1. turn[t] \in TurnRow /\ turn[t].status \in Active
    BY <1>1, NotTerminalIsActive DEF AttachPlan, TypeOK
  <2>2. row \in TurnRow /\ row.status \in Active /\ row.results = turn[t].results
    <3>1. /\ turn[t].version + 1 \in Nat
          /\ DOMAIN turn[t] = {"status", "version", "runs", "results", "plan", "route"}
      BY <2>1 DEF TurnRow
    <3>2. row.status \in Active /\ row.results = turn[t].results
      BY <3>1 DEF Active
    <3>3. row \in TurnRow
      BY <2>1, <3>1 DEF TurnRow, Active
    <3> QED
      BY <3>2, <3>3
  <2>3. turn' = [turn EXCEPT ![t] = row] /\ UNCHANGED outbox
    BY <1>1 DEF AttachPlan, TypeOK
  <2> HIDE DEF row
  <2> QED
    BY <2>1, <2>2, <2>3 DEF KeepsTurnOpen
<1>2. ASSUME NEW t \in Turns, MemCompleteRouteOnly(t) PROVE DecidesTurn
  <2> DEFINE row == [status |-> "completed", version |-> turn[t].version + 1, runs |-> {},
                     results |-> {}, plan |-> None, route |-> TRUE]
  <2>1. turn[t] \in TurnRow /\ turn[t].status \in Active /\ "completed" \in RunTerminal
    BY <1>2, NotTerminalIsActive DEF MemCompleteRouteOnly, Updatable, TypeOK, RunTerminal
  <2>2. row \in TurnRow /\ row.status = "completed" /\ row.results = {}
    BY <2>1 DEF TurnRow
  <2>3. /\ turn' = [turn EXCEPT ![t] = row]
        /\ outbox' = [outbox EXCEPT ![t] = @ \cup {"completed"}]
    BY <1>2 DEF MemCompleteRouteOnly, AddIdempotent, TypeOK
  <2> HIDE DEF row
  <2> QED
    BY <2>1, <2>2, <2>3 DEF DecidesTurn
<1>3. ASSUME NEW r \in Runs, MemStart(r) PROVE KeepsTurnOpen
  <2> DEFINE t == TurnOf[r]
             row == AttachRun(turn[t], r)
  <2>1. t \in Turns /\ turn[t] \in TurnRow /\ turn[t].status \in Active
    BY <1>3, ConstantsOK, NotTerminalIsActive DEF MemStart, Updatable, TypeOK
  <2>2. row \in TurnRow /\ row.status \in Active /\ row.results = turn[t].results
    <3>1. (IF StepOf[r] = None THEN turn[t].plan ELSE RunPlan(r)) \in Plans \cup {None}
      BY <2>1, ConstantsOK DEF TurnRow, RunPlan
    <3>2. turn[t].version + 1 \in Nat /\ turn[t].runs \cup {r} \in SUBSET Runs
      BY <2>1 DEF TurnRow
    <3> QED
      BY <2>1, <3>1, <3>2 DEF AttachRun, TurnRow, Active
  <2>3. turn' = [turn EXCEPT ![t] = row] /\ UNCHANGED outbox
    BY <1>3 DEF MemStart, Start
  <2> HIDE DEF t, row
  <2> QED
    BY <2>1, <2>2, <2>3 DEF KeepsTurnOpen
<1>4. ASSUME NEW e \in EventIds, NEW r \in Runs, NEW v, NEW x \in ResultIds,
             MemComplete(e, r, v, x)
      PROVE  DecidesTurn
  <2> DEFINE t == TurnOf[r]
             row == [turn[t] EXCEPT !.status = "completed", !.version = turn[t].version + 1,
                                    !.results = turn[t].results \cup {x}]
  <2>1. /\ t \in Turns /\ turn[t] \in TurnRow /\ turn[t].status \in Active
        /\ "completed" \in RunTerminal
    BY <1>4, ConstantsOK, NotTerminalIsActive
    DEF MemComplete, Updatable, TypeOK, RunTerminal
  <2>2. /\ row \in TurnRow /\ row.status = "completed"
        /\ row.results = turn[t].results \cup {x}
    <3>1. /\ turn[t].version + 1 \in Nat
          /\ turn[t].results \cup {x} \in SUBSET ResultIds
          /\ DOMAIN turn[t] = {"status", "version", "runs", "results", "plan", "route"}
      BY <2>1 DEF TurnRow
    <3>2. row.status = "completed" /\ row.results = turn[t].results \cup {x}
      BY <3>1
    <3>3. row \in TurnRow
      BY <2>1, <3>1 DEF TurnRow
    <3> QED
      BY <3>2, <3>3
  <2>3. /\ turn' = [turn EXCEPT ![t] = row]
        /\ outbox' = [outbox EXCEPT ![t] = @ \cup {"completed"}]
    BY <1>4 DEF MemComplete, AddIdempotent, TypeOK
  <2> HIDE DEF t, row
  <2> QED
    BY <2>1, <2>2, <2>3 DEF DecidesTurn
<1>5. ASSUME NEW e \in EventIds, NEW r \in Runs, NEW v,
             MemFail(e, r, v) \/ MemCancel(e, r, v)
      PROVE  DecidesTurn
  <2>1. e \in AllEventIds /\ {"failed", "cancelled"} \subseteq RunTerminal
    BY DEF AllEventIds, RunTerminal
  <2> QED
    BY <1>5, <2>1, CloseDecides
    DEF MemFail, MemCancel, ValidateFailureTurn, ValidateCancelTurn
<1>6. ASSUME NEW w \in Sweepers, MemTimeout(w) PROVE DecidesTurn
  <2> DEFINE r == NextListed(w).run
  <2>1. r \in Runs
    BY <1>6, NextListedIn DEF MemTimeout, TimeoutAccepted, TypeOK, Batch
  <2>2. TimeoutEventId(r) \in AllEventIds /\ "timed_out" \in RunTerminal
    BY <2>1 DEF TimeoutEventId, AllEventIds, RunTerminal
  <2>3. /\ Close(TimeoutEventId(r), r, "timed_out")
        /\ turn[TurnOf[r]].status \notin RunTerminal
    BY <1>6 DEF MemTimeout, Updatable
  <2> HIDE DEF r
  <2> QED
    BY <2>1, <2>2, <2>3, CloseDecides
<1>7. ASSUME NEW e \in EventIds, NEW r \in Runs, NEW v, NEW q,
             MemProgress(e, r, v, q) \/ MemCompleteRefused(e, r, v)
      PROVE  LeavesTurns
  BY <1>7 DEF MemProgress, Progress, Clarify, StoreProgress, MemCompleteRefused, LeavesTurns
<1>8. ASSUME NEW w \in Sweepers, MemSweepList(w) \/ SweepSkip(w) \/ MemTimeoutRaises(w)
      PROVE  LeavesTurns
  BY <1>8 DEF MemSweepList, SweepList, SweepSkip, MemTimeoutRaises, rows, LeavesTurns
<1>9. ASSUME NEW p \in Plans, ConfirmPlan(p) \/ MemCancelUnstarted(p) PROVE LeavesTurns
  BY <1>9 DEF ConfirmPlan, MemCancelUnstarted, CancelUnstarted, LeavesTurns
<1>10. CASE Tick \/ UNCHANGED vars
  BY <1>10 DEF Tick, rows, vars, LeavesTurns
<1> QED
  BY <1>1, <1>2, <1>3, <1>4, <1>5, <1>6, <1>7, <1>8, <1>9, <1>10
  DEF MemNext, MemAgentCommand, MemSweeperStep

(* An open Turn stays blank until it is decided.                           *)
LEMMA BlankStep ==
  ASSUME MemInv, [MemNext]_vars
  PROVE  OpenTurnsAreBlank'
<1>1. turn \in [Turns -> TurnRow] /\ outbox \in [Turns -> SUBSET RunTerminal]
  BY DEF MemInv, TypeOK
<1>2. CASE LeavesTurns
  BY <1>2 DEF MemInv, OpenTurnsAreBlank, LeavesTurns
<1>3. CASE KeepsTurnOpen
  BY <1>1, <1>3 DEF MemInv, OpenTurnsAreBlank, KeepsTurnOpen
<1>4. CASE DecidesTurn
  <2>1. RunTerminal \cap Active = {}
    BY DEF RunTerminal, Active
  <2> QED
    BY <1>1, <1>4, <2>1 DEF MemInv, OpenTurnsAreBlank, DecidesTurn
<1> QED
  BY <1>2, <1>3, <1>4, MemTurnCases DEF MemInv

(* The invariant behind the refinement, for any retries, late events,      *)
(* timeouts and direct replies.                                            *)
THEOREM MemoryInvariant == MemSpec => []MemInv
<1>1. Init => MemInv
  BY InitType DEF MemInv, OpenTurnsAreBlank, Init, NewTurn
<1>2. MemInv /\ [MemNext]_vars => MemInv'
  BY MemNextType, BlankStep DEF MemInv
<1> QED
  BY <1>1, <1>2, PTL DEF MemSpec

-----------------------------------------------------------------------------
(* The refinement.                                                         *)

(* The same three kinds of step, Turn by Turn.                             *)
LEMMA StepOfTurn ==
  ASSUME MemInv, LeavesTurns \/ KeepsTurnOpen \/ DecidesTurn, NEW t \in Turns
  PROVE  \/ /\ turn'[t].results = turn[t].results /\ outbox'[t] = outbox[t]
            /\ \/ turn'[t].status = turn[t].status
               \/ turn[t].status \in Active /\ turn'[t].status \in Active
         \/ /\ turn[t].status \in Active /\ turn[t].results = {} /\ outbox[t] = {}
            /\ turn'[t].status \in RunTerminal
            /\ turn'[t].results = {} \/ \E x \in ResultIds : turn'[t].results = {x}
            /\ outbox'[t] = {turn'[t].status}
<1>1. turn \in [Turns -> TurnRow] /\ outbox \in [Turns -> SUBSET RunTerminal]
  BY DEF MemInv, TypeOK
<1>2. CASE LeavesTurns
  BY <1>2 DEF LeavesTurns
<1>3. CASE KeepsTurnOpen
  BY <1>1, <1>3 DEF KeepsTurnOpen
<1>4. CASE DecidesTurn
  <2>1. PICK u \in Turns : \E status \in RunTerminal :
          /\ turn[u].status \in Active
          /\ \E row \in TurnRow :
               /\ row.status = status
               /\ \/ row.results \in {{}, turn[u].results}
                  \/ \E x \in ResultIds : row.results = turn[u].results \cup {x}
               /\ turn' = [turn EXCEPT ![u] = row]
          /\ outbox' = [outbox EXCEPT ![u] = @ \cup {status}]
    BY <1>4 DEF DecidesTurn
  <2>2. turn[u].results = {} /\ outbox[u] = {}
    BY <2>1 DEF MemInv, OpenTurnsAreBlank
  <2> QED
    BY <1>1, <2>1, <2>2
<1> QED
  BY <1>2, <1>3, <1>4

(* Each Turn is decided once, with one answer and one notice, whatever     *)
(* retries, late events, timeouts and direct replies meet: the Memory      *)
(* backend implements TurnLifecycle for every Turn.                        *)
THEOREM MemoryDecidesOnce == MemSpec => TurnsAreDecidedOnce
<1>1. ASSUME Init PROVE \A t \in Turns : Lifecycle(t)!Init
  BY <1>1 DEF Init, NewTurn, Lifecycle!Init, Active, Outcome
<1>2. ASSUME MemInv, [MemNext]_vars PROVE DecidesOnce
  <2> SUFFICES ASSUME NEW t \in Turns
               PROVE  Lifecycle(t)!Next \/ UNCHANGED Lifecycle(t)!vars
    BY DEF DecidesOnce
  <2>1. LeavesTurns \/ KeepsTurnOpen \/ DecidesTurn
    BY <1>2, MemTurnCases DEF MemInv
  <2>2. RunTerminal \cap Active = {}
    BY DEF RunTerminal, Active
  <2>3. CASE /\ turn'[t].results = turn[t].results /\ outbox'[t] = outbox[t]
             /\ \/ turn'[t].status = turn[t].status
                \/ turn[t].status \in Active /\ turn'[t].status \in Active
    <3>1. Outcome(t)' = Outcome(t)
      BY <2>3 DEF Outcome
    <3>2. turn[t].results' = turn[t].results /\ outbox[t]' = outbox[t]
      BY <2>3
    <3>3. UNCHANGED Lifecycle(t)!vars
      BY <3>1, <3>2 DEF Lifecycle!vars
    <3> QED
      BY <3>3
  <2>4. CASE /\ turn[t].status \in Active /\ turn[t].results = {} /\ outbox[t] = {}
             /\ turn'[t].status \in RunTerminal
             /\ turn'[t].results = {} \/ \E x \in ResultIds : turn'[t].results = {x}
             /\ outbox'[t] = {turn'[t].status}
    <3>1. Outcome(t) = "open" /\ Outcome(t)' \in {"completed", "failed"}
      BY <2>2, <2>4 DEF Outcome
    <3>2. turn[t].results = {} /\ outbox[t] = {} /\ outbox[t]' # {}
      BY <2>4
    <3>3. /\ Lifecycle(t)!AtMostOne(turn[t].results')
          /\ Lifecycle(t)!AtMostOne(outbox[t]')
      BY <2>4 DEF Lifecycle!AtMostOne
    <3>4. Lifecycle(t)!End
      BY <3>1, <3>2, <3>3 DEF Lifecycle!End
    <3> QED
      BY <3>4 DEF Lifecycle!Next
  <2> QED
    BY <1>2, <2>1, <2>3, <2>4, StepOfTurn
<1> QED
  BY <1>1, <1>2, MemoryInvariant, PTL DEF MemSpec, TurnsAreDecidedOnce

=============================================================================
