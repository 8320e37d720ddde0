--------------------------- MODULE RequestsProofs ---------------------------
(***************************************************************************)
(* Proofs about what a user's request meets: PlanClaims for every Plan,    *)
(* every set of executors and every bound, and Routing for every set of    *)
(* attempts, agents, requests and texts and whatever the language model    *)
(* returns.                                                                *)
(***************************************************************************)
EXTENDS PlanClaims, Routing, WellFoundedInduction, SequenceTheorems, FiniteSetTheorems, TLAPS

-----------------------------------------------------------------------------
(* Claims: the inductive invariant.                                        *)

ClaimType ==
    [id : Nat, step : 0..StepCount, version : Nat, key : Nat \X Nat,
     lease : {"none", "fresh", "due", "expired"}]
PlanType ==
    [status : StepStatus, current : 0..StepCount, version : Nat, action : BOOLEAN,
     attempt : Nat, claim : ClaimType, steps : [Steps -> StepStatus]]
ReadType == [step : 0..StepCount, attempt : Nat, key : Nat \X Nat, allowed : SUBSET Active]
ExecType ==
    [pc : {"idle", "loop", "select", "dispatch", "claim", "claim_write", "claimed", "invoking",
           "finish", "finish_write", "after"},
     resuming : BOOLEAN, alone : BOOLEAN, snap : PlanType, step : 0..StepCount, read : ReadType, claim : Nat,
     outcome : {"none", "completed", "blocked", "failed"}, tries : Nat]

ClaimsTypeOK ==
    /\ plan \in PlanType
    /\ exec \in [Executor -> ExecType]
    /\ claims \in Nat

\* What a claim and the Plan's status say of its Steps (of any Plan p).
ClaimHolds(p) ==
    p.claim.id # 0 =>
        /\ p.status = "running"
        /\ p.claim.version = p.version
        /\ p.claim.step \in Steps
        /\ p.steps[p.claim.step] \in {"running", "completed"}
Open(st) == \A s \in Steps : st[s] \notin {"failed", "cancelled"}
StatusHolds(p) ==
    /\ p.status = "completed" => AllCompleted(p.steps)
    /\ p.status = "failed" => Some(p.steps, "failed")
    /\ p.status \in Active => Open(p.steps) /\ ~AllCompleted(p.steps)
PlanHolds(p) == ClaimHolds(p) /\ StatusHolds(p)

AtWork(e) == e.pc \notin {"idle", "loop"}

\* What a request holds in its hands: a Plan of an earlier version, or one that
\* still has the Steps of the row.
ExecHolds(e, p) ==
    /\ AtWork(e) => e.step \in Steps
    /\ e.pc \in {"select", "dispatch"} =>
          /\ e.snap.version <= p.version
          /\ Open(e.snap.steps)
          /\ ~AllCompleted(e.snap.steps)
          /\ e.snap.steps[e.step] \in Active
          /\ e.snap.version = p.version => e.snap.steps = p.steps
    /\ e.pc = "claim_write" => e.read.step = e.step
    /\ e.pc = "finish" => e.outcome # "none"
    /\ e.pc = "finish_write" =>
          /\ e.outcome # "none"
          /\ e.snap.version <= p.version
          /\ e.snap.status = PlanStatus(e.snap.steps)
          /\ e.snap.version = p.version =>
                e.snap.steps = [p.steps EXCEPT ![e.step] = AdvanceStep(@, e.outcome)]

ClaimsInv ==
    /\ ClaimsTypeOK
    /\ PlanHolds(plan)
    /\ \A h \in Executor : ExecHolds(exec[h], plan)

-----------------------------------------------------------------------------
(* What the order of execution rests on.                                   *)

\* The Steps NextStep chooses from.
Live(st) == ReadySteps(st) \cup {s \in Steps : st[s] \in {"running", "blocked", "failed"}}

\* The current Step of an open Plan is one to work on, unless nothing has been
\* begun and it is still the one the Plan was made with.
CurrentLive(p) == p.status \in Active => p.current \in Live(p.steps)
CurrentHolds(p) ==
    p.status \in Active =>
        /\ p.current \in Steps
        /\ CurrentLive(p) \/ \A s \in Steps : p.steps[s] = "pending"

\* A Step of the Plan p may be begun, or was begun early.
InTurn(p, begun, s) == Done(p.steps, s) \/ s \in begun
BegunInTurn(p, begun) == \A s \in Steps : p.steps[s] \in {"running", "blocked"} => InTurn(p, begun, s)

ExecOrdered(e, p, begun) ==
    /\ AtWork(e) =>
          InTurn(p, begun, e.step) \/ (e.alone /\ e.pc \in {"claim", "claim_write"})
    /\ e.pc = "select" => e.snap.steps[e.step] = "pending" /\ Done(e.snap.steps, e.step)
    /\ e.pc = "dispatch" => CurrentLive(p)
    /\ e.pc = "finish_write" /\ e.snap.status \in Active => e.snap.current = NextStep(e.snap.steps)
OrderInv ==
    /\ CurrentHolds(plan)
    /\ BegunInTurn(plan, early)
    /\ \A h \in Executor : ExecOrdered(exec[h], plan, early)

-----------------------------------------------------------------------------
(* The Plan's arithmetic.                                                  *)

(* The first of a nonempty set of Steps is the least: `next(step for step   *)
(* in plan.steps if ...)'.                                                 *)
LEMMA FirstIsLeast ==
  ASSUME NEW S \in SUBSET Steps, S # {}
  PROVE  First(S) \in S /\ \A t \in S : First(S) <= t
<1>1. S \subseteq Nat
  BY PlanClaimsAssumption DEF Steps
<1>2. PICK m \in S : \A n \in S : ~(<<n, m>> \in OpToRel(<, Nat))
  BY <1>1, WFMin, NatLessThanWellFounded
<1>3. \A n \in S : m <= n
  <2>1. OpToRel(<, Nat) = {ss \in Nat \X Nat : ss[1] < ss[2]}
    BY Zenon DEF OpToRel
  <2>2. \A n \in S : n \in Nat /\ m \in Nat /\ ~(n < m)
    BY <1>1, <1>2, <2>1
  <2> QED
    BY <2>2
<1> QED
  BY <1>3 DEF First

(* First yields a Step of the set, or none when there is none.             *)
LEMMA FirstType ==
  ASSUME NEW S \in SUBSET Steps
  PROVE  /\ First(S) \in 0..StepCount
         /\ First(S) # 0 => First(S) \in S
         /\ First(S) = 0 <=> S = {}
<1>1. CASE S = {}
  BY <1>1, PlanClaimsAssumption DEF First
<1>2. CASE S # {}
  <2>1. First(S) \in S BY <1>2, FirstIsLeast
  <2>2. First(S) \in 1..StepCount BY <2>1 DEF Steps
  <2>3. First(S) \in 0..StepCount /\ First(S) # 0 BY <2>2, PlanClaimsAssumption
  <2> QED BY <1>2, <2>1, <2>3
<1> QED BY <1>1, <1>2

(* The current Step a settled state of Steps names is one of them.         *)
LEMMA NextStepType ==
  ASSUME NEW st \in [Steps -> StepStatus]
  PROVE  NextStep(st) \in 0..StepCount
<1>1. ReadySteps(st) \cup {s \in Steps : st[s] \in {"running", "blocked", "failed"}} \in SUBSET Steps
  BY DEF ReadySteps
<1> QED BY <1>1, FirstType DEF NextStep

(* The status PlanStatus computes says what the Steps say.                 *)
LEMMA PlanStatusSays ==
  ASSUME NEW st \in [Steps -> StepStatus]
  PROVE  /\ PlanStatus(st) \in StepStatus
         /\ PlanStatus(st) = "completed" => AllCompleted(st)
         /\ PlanStatus(st) = "failed" => Some(st, "failed")
         /\ PlanStatus(st) \in Active => Open(st) /\ ~AllCompleted(st)
         /\ PlanStatus(st) \in {"pending", "running"} => ~Some(st, "blocked")
<1>1. CASE Some(st, "cancelled")
  BY <1>1 DEF PlanStatus, StepStatus, Active
<1>2. CASE ~Some(st, "cancelled") /\ Some(st, "failed")
  BY <1>2 DEF PlanStatus, StepStatus, Active
<1>3. CASE ~Some(st, "cancelled") /\ ~Some(st, "failed") /\ Some(st, "blocked")
  BY <1>3 DEF PlanStatus, StepStatus, Active, Some, AllCompleted, Open
<1>4. CASE ~Some(st, "cancelled") /\ ~Some(st, "failed") /\ ~Some(st, "blocked") /\ AllCompleted(st)
  BY <1>4 DEF PlanStatus, StepStatus, Active
<1>5. CASE ~Some(st, "cancelled") /\ ~Some(st, "failed") /\ ~Some(st, "blocked") /\ ~AllCompleted(st)
  <2>1. PlanStatus(st) \in {"running", "pending"}
    BY <1>5 DEF PlanStatus
  <2> QED BY <1>5, <2>1 DEF Some, Open, StepStatus, Active
<1> QED BY <1>1, <1>2, <1>3, <1>4, <1>5

(* Reading a Plan changes its current Step only.                           *)
LEMMA GetPlanType ==
  ASSUME ClaimsTypeOK
  PROVE  /\ GetPlan \in PlanType
         /\ ReadCurrent(plan) \in 0..StepCount
         /\ GetPlan = [plan EXCEPT !.current = ReadCurrent(plan)]
         /\ GetPlan.status = plan.status /\ GetPlan.version = plan.version
         /\ GetPlan.steps = plan.steps /\ GetPlan.claim = plan.claim
         /\ GetPlan.current = ReadCurrent(plan)
<1>1. ReadySteps(plan.steps) \in SUBSET Steps /\ {s \in Steps : plan.steps[s] \in {"running", "blocked"}} \in SUBSET Steps
  BY DEF ReadySteps
<1>2. ReadCurrent(plan) \in 0..StepCount
  <2>1. plan.current \in 0..StepCount BY DEF ClaimsTypeOK, PlanType
  <2> QED BY <1>1, <2>1, FirstType, PlanClaimsAssumption DEF ReadCurrent
<1> QED BY <1>2 DEF GetPlan, ClaimsTypeOK, PlanType

(* The Step execute selects is ready, or is being executed and was ready.  *)
LEMMA SelectStepSays ==
  ASSUME NEW p \in PlanType, NEW resuming, SelectStep(p, resuming) # 0
  PROVE  /\ SelectStep(p, resuming) \in Steps
         /\ Done(p.steps, SelectStep(p, resuming))
         /\ p.steps[SelectStep(p, resuming)] \in Active
<1>1. ReadySteps(p.steps) \in SUBSET Steps
  BY DEF ReadySteps
<1>2. p.current \in 0..StepCount
  BY DEF PlanType
<1>3. CASE SelectStep(p, resuming) = First(ReadySteps(p.steps))
  <2>1. SelectStep(p, resuming) \in ReadySteps(p.steps)
    BY <1>1, <1>3, FirstType
  <2> QED BY <2>1 DEF ReadySteps, Active
<1>4. CASE SelectStep(p, resuming) # First(ReadySteps(p.steps))
  <2>1. /\ SelectStep(p, resuming) = p.current
        /\ p.current # 0 /\ Done(p.steps, p.current)
        /\ p.steps[p.current] \in {"running", "blocked"}
    BY <1>4 DEF SelectStep
  <2> QED BY <1>2, <2>1, PlanClaimsAssumption DEF Steps, Active
<1> QED BY <1>3, <1>4

(* Advancing a Step leaves a settled Step alone.                           *)
LEMMA AdvanceSays ==
  ASSUME NEW x \in StepStatus, NEW y \in StepStatus
  PROVE  /\ AdvanceStep(x, y) \in StepStatus
         /\ x \in {"completed", "failed", "cancelled"} => AdvanceStep(x, y) = x
BY DEF AdvanceStep

-----------------------------------------------------------------------------
(* Writers of the row.                                                     *)

\* The row q that a writer leaves of the row p: another version, or the same
\* Steps; settled Steps as they were.
Extends(p, q) ==
    /\ p.version < q.version \/ (p.version = q.version /\ p.steps = q.steps)
    /\ \A s \in Steps : p.steps[s] \in {"completed", "failed", "cancelled"} => q.steps[s] = p.steps[s]

(* What a request holds stays good when the row goes on: a version that was  *)
(* read is either still there with its Steps, or gone for good.             *)
LEMMA ExecKeeps ==
  ASSUME NEW e \in ExecType, NEW p \in PlanType, NEW q \in PlanType,
         ExecHolds(e, p), Extends(p, q)
  PROVE  ExecHolds(e, q)
<1>1. e.snap.version \in Nat /\ p.version \in Nat /\ q.version \in Nat
  BY DEF ExecType, PlanType
<1>2. e.snap.version <= p.version =>
         /\ e.snap.version <= q.version
         /\ e.snap.version = q.version => e.snap.version = p.version /\ p.steps = q.steps
  BY <1>1 DEF Extends
<1> QED BY <1>2 DEF ExecHolds

(* save_if_version keeps the claim of a running Plan and drops it otherwise. *)
LEMMA SavedHolds ==
  ASSUME ClaimsTypeOK, PlanHolds(plan), NEW p \in PlanType, StatusHolds(p),
         (p.status = "running" /\ plan.claim.id # 0) =>
             p.steps[plan.claim.step] \in {"running", "completed"},
         \A s \in Steps : plan.steps[s] \in {"completed", "failed", "cancelled"} =>
             p.steps[s] = plan.steps[s]
  PROVE  Saved(p) \in PlanType /\ PlanHolds(Saved(p)) /\ Extends(plan, Saved(p))
<1>1. plan.version \in Nat /\ plan.version + 1 \in Nat /\ plan.attempt \in Nat /\ plan.claim \in ClaimType
  BY DEF ClaimsTypeOK, PlanType
<1> DEFINE c == IF p.status = "running" /\ plan.claim.id # 0
                THEN [plan.claim EXCEPT !.version = plan.version + 1] ELSE NoClaim
<1>2. NoClaim \in ClaimType
  BY PlanClaimsAssumption DEF NoClaim, NoKey, ClaimType
<1>3. c \in ClaimType
  BY <1>1, <1>2 DEF ClaimType
<1>4. c.id # 0 => p.status = "running" /\ plan.claim.id # 0 /\ c.step = plan.claim.step /\ c.version = plan.version + 1
  BY <1>1 DEF ClaimType, NoClaim
<1> HIDE DEF c
<1>5. Saved(p) = [p EXCEPT !.version = plan.version + 1, !.claim = c, !.attempt = plan.attempt]
  BY DEF Saved, c
<1>6. Saved(p) \in PlanType
  BY <1>1, <1>3, <1>5 DEF PlanType
<1>7. /\ Saved(p).steps = p.steps /\ Saved(p).status = p.status
      /\ Saved(p).claim = c /\ Saved(p).version = plan.version + 1
  BY <1>5 DEF PlanType
<1>8. PlanHolds(Saved(p))
  BY <1>4, <1>7 DEF PlanHolds, ClaimHolds, StatusHolds
<1>9. Extends(plan, Saved(p))
  BY <1>1, <1>7 DEF Extends
<1> QED BY <1>6, <1>8, <1>9

(* claim_step takes a Step that is not settled and sets it running.        *)
LEMMA ClaimedHolds ==
  ASSUME ClaimsTypeOK, PlanHolds(plan), NEW r \in ReadType, r.step \in Steps, MayClaim(r)
  PROVE  Claimed(r) \in PlanType /\ PlanHolds(Claimed(r)) /\ Extends(plan, Claimed(r))
<1>1. plan \in PlanType /\ plan.version \in Nat /\ claims + 1 \in Nat \ {0}
  BY DEF ClaimsTypeOK, PlanType
<1>2. r.step \in 0..StepCount /\ r.attempt \in Nat /\ r.key \in Nat \X Nat /\ r.allowed \subseteq Active
  BY DEF ReadType
<1> DEFINE c == [id |-> claims + 1, step |-> r.step, version |-> plan.version + 1,
                 key |-> r.key, lease |-> "fresh"]
           st == [plan.steps EXCEPT ![r.step] = "running"]
<1>3. c \in ClaimType
  BY <1>1, <1>2 DEF ClaimType
<1>4. st \in [Steps -> StepStatus] /\ st[r.step] = "running"
      /\ \A s \in Steps : s # r.step => st[s] = plan.steps[s]
  BY <1>1 DEF PlanType, StepStatus
<1>5. c.id # 0 /\ c.step = r.step /\ c.version = plan.version + 1
  BY <1>1
<1>6. /\ Claimed(r).status = "running" /\ Claimed(r).steps = st /\ Claimed(r).claim = c
      /\ Claimed(r).version = plan.version + 1
  BY <1>1 DEF Claimed, PlanType
<1>7. Claimed(r) \in PlanType
  <2>1. Claimed(r) = [status |-> "running", current |-> r.step, version |-> plan.version + 1,
                      action |-> FALSE, attempt |-> r.attempt, claim |-> c, steps |-> st]
    <3>1. plan = [status |-> plan.status, current |-> plan.current, version |-> plan.version, action |-> plan.action,
     attempt |-> plan.attempt, claim |-> plan.claim, steps |-> plan.steps]
      BY <1>1 DEF PlanType
    <3>2. Claimed(r) = [plan EXCEPT !.status = "running", !.current = r.step, !.version = plan.version + 1,
                 !.action = FALSE, !.attempt = r.attempt, !.steps = st, !.claim = c]
      BY <1>1 DEF Claimed, PlanType
    <3> QED BY <3>1, <3>2 
  <2>2. plan.version + 1 \in Nat BY <1>1
  <2> HIDE DEF c, st
  <2> QED BY <1>2, <1>3, <1>4, <2>1, <2>2 DEF PlanType, StepStatus
<1> HIDE DEF c, st
<1>8. Open(plan.steps) /\ plan.steps[r.step] \in Active
  BY <1>2 DEF PlanHolds, StatusHolds, MayClaim
<1>9. PlanHolds(Claimed(r))
  BY <1>4, <1>5, <1>6, <1>8 DEF PlanHolds, ClaimHolds, StatusHolds, Open, AllCompleted, Active
<1>10. Extends(plan, Claimed(r))
  BY <1>1, <1>4, <1>6, <1>8 DEF Extends, Active
<1> QED BY <1>7, <1>9, <1>10

(* save_claimed_step stores what FinishRead computed, if nobody wrote since. *)
LEMMA FinishedHolds ==
  ASSUME ClaimsTypeOK, PlanHolds(plan), NEW e \in ExecType, ExecHolds(e, plan),
         e.pc = "finish_write", MayFinish(e)
  PROVE  Finished(e.snap) \in PlanType /\ PlanHolds(Finished(e.snap)) /\ Extends(plan, Finished(e.snap))
<1>1. plan \in PlanType /\ e.snap \in PlanType /\ plan.version \in Nat /\ plan.attempt \in Nat
      /\ NoClaim \in ClaimType /\ NoClaim.id = 0
  BY PlanClaimsAssumption DEF ClaimsTypeOK, PlanType, ExecType, NoClaim, NoKey, ClaimType
<1>2. /\ Finished(e.snap).steps = e.snap.steps /\ Finished(e.snap).status = e.snap.status
      /\ Finished(e.snap).claim = NoClaim /\ Finished(e.snap).version = plan.version + 1
  BY <1>1 DEF Finished, PlanType
<1>3. Finished(e.snap) \in PlanType
  <2>1. ASSUME NEW p \in PlanType PROVE Finished(p) \in PlanType
    <3>1. plan.version + 1 \in Nat BY <1>1
    <3> QED BY <1>1, <2>1, <3>1 DEF Finished, PlanType
  <2> QED BY <1>1, <2>1
<1>4. /\ e.snap.status = PlanStatus(e.snap.steps)
      /\ e.snap.steps = [plan.steps EXCEPT ![e.step] = AdvanceStep(@, e.outcome)]
      /\ e.step \in Steps /\ e.outcome \in StepStatus
  BY DEF ExecHolds, MayFinish, AtWork, ExecType, StepStatus
<1>5. e.snap.steps \in [Steps -> StepStatus] /\ plan.steps \in [Steps -> StepStatus]
  BY <1>1 DEF PlanType
<1>6. PlanHolds(Finished(e.snap))
  BY <1>1, <1>2, <1>4, <1>5, PlanStatusSays DEF PlanHolds, ClaimHolds, StatusHolds
<1>7. \A s \in Steps : plan.steps[s] \in {"completed", "failed", "cancelled"} => e.snap.steps[s] = plan.steps[s]
  BY <1>4, <1>5, AdvanceSays
<1>8. Extends(plan, Finished(e.snap))
  BY <1>1, <1>2, <1>7 DEF Extends
<1> QED BY <1>3, <1>6, <1>8

-----------------------------------------------------------------------------
(* Every step keeps the invariant.                                         *)

(* A writer of the row and the request it is part of.                      *)
LEMMA RowAndRequest ==
  ASSUME ClaimsInv, NEW h \in Executor, NEW e \in ExecType,
         exec' = [exec EXCEPT ![h] = e], ExecHolds(e, plan'),
         plan' \in PlanType, PlanHolds(plan'), Extends(plan, plan'), claims' \in Nat
  PROVE  ClaimsInv' /\ Extends(plan, plan')
<1>1. exec' \in [Executor -> ExecType]
  BY DEF ClaimsInv, ClaimsTypeOK
<1>2. ASSUME NEW g \in Executor PROVE ExecHolds(exec'[g], plan')
  <2>1. exec \in [Executor -> ExecType] /\ plan \in PlanType BY DEF ClaimsInv, ClaimsTypeOK
  <2>2. CASE g = h BY <2>1, <2>2
  <2>3. CASE g # h
    <3>1. exec'[g] = exec[g] /\ exec[g] \in ExecType /\ ExecHolds(exec[g], plan)
      BY <2>1, <2>3 DEF ClaimsInv
    <3> QED BY <2>1, <3>1, ExecKeeps
  <2> QED BY <2>2, <2>3
<1> QED BY <1>1, <1>2 DEF ClaimsInv, ClaimsTypeOK

(* A row that stays extends itself.                                        *)
LEMMA SameRow ==
  ASSUME ClaimsInv, UNCHANGED plan
  PROVE  plan' \in PlanType /\ PlanHolds(plan') /\ Extends(plan, plan')
BY DEF ClaimsInv, ClaimsTypeOK, Extends

(* A step of a request that leaves the row alone.                          *)
LEMMA RequestOnly ==
  ASSUME ClaimsInv, NEW h \in Executor, NEW e \in ExecType,
         exec' = [exec EXCEPT ![h] = e], ExecHolds(e, plan), UNCHANGED <<plan, claims>>
  PROVE  ClaimsInv' /\ Extends(plan, plan')
BY SameRow, RowAndRequest DEF ClaimsInv, ClaimsTypeOK

(* A writer that is no request of execute.                                 *)
LEMMA RowOnly ==
  ASSUME ClaimsInv, UNCHANGED <<exec, claims>>,
         plan' \in PlanType, PlanHolds(plan'), Extends(plan, plan')
  PROVE  ClaimsInv' /\ Extends(plan, plan')
<1>1. ASSUME NEW g \in Executor PROVE ExecHolds(exec[g], plan')
  BY ExecKeeps DEF ClaimsInv, ClaimsTypeOK
<1> QED BY <1>1 DEF ClaimsInv, ClaimsTypeOK

(* Plans and requests as they begin.                                       *)
LEMMA BlankTypes ==
  /\ BlankPlan \in PlanType
  /\ Idle \in ExecType /\ NoRead \in ReadType
  /\ \A p : ExecHolds(Idle, p)
  /\ ~AtWork(Idle)
<1>1. NoClaim \in ClaimType
  BY PlanClaimsAssumption DEF NoClaim, NoKey, ClaimType
<1>2. BlankPlan \in PlanType
  BY <1>1, PlanClaimsAssumption DEF BlankPlan, PlanType, StepStatus
<1>3. NoRead \in ReadType
  BY PlanClaimsAssumption DEF NoRead, NoKey, ReadType
<1>4. Idle \in ExecType
  BY <1>2, <1>3, PlanClaimsAssumption DEF Idle, ExecType
<1> QED BY <1>2, <1>3, <1>4 DEF Idle, ExecHolds, AtWork

(* A request that ends.                                                    *)
LEMMA LeaveKeeps ==
  ASSUME ClaimsInv, NEW h \in Executor, Leave(h), UNCHANGED <<plan, claims>>
  PROVE  ClaimsInv' /\ Extends(plan, plan')
BY BlankTypes, RequestOnly DEF Leave

(* What claim_step computes before it writes.                              *)
LEMMA ClaimPlanType ==
  ASSUME ClaimsTypeOK, NEW s \in Steps
  PROVE  ClaimPlan(s) \in ReadType /\ ClaimPlan(s).step = s
<1>1. s \in 0..StepCount /\ s \in Nat
  BY PlanClaimsAssumption DEF Steps
<1>2. plan.attempt \in Nat /\ plan.attempt + 1 \in Nat /\ plan.claim.key \in Nat \X Nat
  BY DEF ClaimsTypeOK, PlanType, ClaimType
<1> QED BY <1>1, <1>2 DEF ClaimPlan, ReadType, Active

(* The head of execute's loop and the reads before a claim.                *)
LEMMA LoopSteps ==
  ASSUME ClaimsInv, NEW h \in Executor,
         \/ \E r \in BOOLEAN : Begin(h, r)
         \/ LoopReturn(h) \/ LoopReload(h) \/ Conflict(h) \/ Candidate(h) \/ InvokeStep(h)
         \/ ClaimRead(h) \/ ClaimRefused(h) \/ Abandon(h)
  PROVE  ClaimsInv' /\ Extends(plan, plan')
<1>0. ClaimsTypeOK /\ plan \in PlanType /\ exec[h] \in ExecType /\ ExecHolds(exec[h], plan) /\ PlanHolds(plan)
  BY DEF ClaimsInv, ClaimsTypeOK
<1>1. ASSUME NEW r \in BOOLEAN, Begin(h, r) PROVE ClaimsInv' /\ Extends(plan, plan')
  <2>1. [Idle EXCEPT !.pc = "loop", !.resuming = r] \in ExecType
    BY BlankTypes DEF ExecType
  <2>2. ExecHolds([Idle EXCEPT !.pc = "loop", !.resuming = r], plan)
    BY DEF Idle, ExecHolds, AtWork
  <2> QED BY <1>1, <2>1, <2>2, RequestOnly DEF Begin
<1>2. CASE LoopReturn(h) BY <1>2, LeaveKeeps DEF LoopReturn
<1>3. CASE Conflict(h) BY <1>3, LeaveKeeps DEF Conflict
<1>4. CASE ClaimRefused(h) BY <1>4, LeaveKeeps DEF ClaimRefused
<1>5. CASE Abandon(h) BY <1>5, LeaveKeeps DEF Abandon
<1>6. CASE LoopReload(h)
  <2> DEFINE p == GetPlan
             s == SelectStep(p, exec[h].resuming)
             pc == IF /\ p.steps[s] = "pending"
                      /\ p.current # s \/ p.status # "running" \/ p.action
                   THEN "select" ELSE "dispatch"
             e == [exec[h] EXCEPT !.snap = p, !.step = s, !.pc = pc]
  <2>1. p \in PlanType /\ p.status = plan.status /\ p.version = plan.version /\ p.steps = plan.steps
    BY <1>0, GetPlanType
  <2>2. ~Returns(p, exec[h].resuming) /\ ~Settles(p) /\ exec' = [exec EXCEPT ![h] = e]
        /\ UNCHANGED <<plan, claims>>
    BY <1>6 DEF LoopReload
  <2> HIDE DEF p
  <2>3. p.status \in Active /\ s # 0
    BY <2>1, <2>2 DEF Returns, PlanType, StepStatus, Active
  <2>4. s \in Steps /\ p.steps[s] \in Active
    BY <2>1, <2>3, SelectStepSays
  <2>5. Open(p.steps) /\ ~AllCompleted(p.steps)
    BY <1>0, <2>1, <2>3 DEF PlanHolds, StatusHolds
  <2> HIDE DEF s
  <2>6. s \in 0..StepCount
    BY <2>4, PlanClaimsAssumption DEF Steps
  <2>7. pc \in {"select", "dispatch"}
    OBVIOUS
  <2> HIDE DEF pc
  <2>8. e \in ExecType /\ e.pc = pc /\ e.snap = p /\ e.step = s
    BY <1>0, <2>1, <2>6, <2>7 DEF ExecType
  <2>9. p.version \in Nat
    BY <2>1 DEF PlanType
  <2> HIDE DEF e
  <2>10. ExecHolds(e, plan)
    BY <2>1, <2>4, <2>5, <2>7, <2>8, <2>9 DEF ExecHolds
  <2> QED BY <2>2, <2>8, <2>10, RequestOnly
<1>7. CASE Candidate(h)
  <2> DEFINE e == [exec[h] EXCEPT !.pc = "claim", !.step = ReadCurrent(plan), !.snap = BlankPlan]
  <2>1. ReadCurrent(plan) \in 0..StepCount /\ ReadCurrent(plan) # 0
    BY <1>0, <1>7, GetPlanType DEF Candidate
  <2>2. e \in ExecType
    BY <1>0, <2>1, BlankTypes DEF ExecType
  <2>3. ReadCurrent(plan) \in Steps
    BY <2>1, PlanClaimsAssumption DEF Steps
  <2>4. e.pc = "claim" /\ e.step \in Steps
    BY <1>0, <2>3 DEF ExecType
  <2>5. exec' = [exec EXCEPT ![h] = e] /\ UNCHANGED <<plan, claims>>
    BY <1>7 DEF Candidate
  <2> HIDE DEF e
  <2>6. ExecHolds(e, plan)
    BY <2>4 DEF ExecHolds
  <2> QED BY <2>2, <2>5, <2>6, RequestOnly
<1>8. CASE ClaimRead(h)
  <2> DEFINE r == ClaimPlan(exec[h].step)
             e == [exec[h] EXCEPT !.pc = "claim_write", !.read = r]
  <2>1. exec[h].step \in Steps
    BY <1>0, <1>8 DEF ClaimRead, At, ExecHolds, AtWork
  <2>2. r \in ReadType /\ r.step = exec[h].step
    BY <1>0, <2>1, ClaimPlanType
  <2> HIDE DEF r
  <2>3. e \in ExecType /\ e.pc = "claim_write" /\ e.step = exec[h].step /\ e.read = r
    BY <1>0, <2>2 DEF ExecType
  <2>4. exec' = [exec EXCEPT ![h] = e] /\ UNCHANGED <<plan, claims>>
    BY <1>8 DEF ClaimRead, r
  <2> HIDE DEF e
  <2>5. ExecHolds(e, plan)
    BY <2>1, <2>2, <2>3 DEF ExecHolds
  <2> QED BY <2>3, <2>4, <2>5, RequestOnly
<1>9. CASE InvokeStep(h)
  <2> DEFINE e == [Idle EXCEPT !.pc = "claim", !.alone = TRUE, !.step = ReadCurrent(plan)]
  <2>1. ReadCurrent(plan) \in 0..StepCount /\ ReadCurrent(plan) # 0
    BY <1>0, <1>9, GetPlanType DEF InvokeStep
  <2>2. ReadCurrent(plan) \in Steps
    BY <2>1, PlanClaimsAssumption DEF Steps
  <2>3. e \in ExecType /\ e.pc = "claim" /\ e.step \in Steps
    BY <2>1, <2>2, BlankTypes DEF ExecType
  <2>4. exec' = [exec EXCEPT ![h] = e] /\ UNCHANGED <<plan, claims>>
    BY <1>9 DEF InvokeStep
  <2> HIDE DEF e
  <2>5. ExecHolds(e, plan)
    BY <2>3 DEF ExecHolds
  <2> QED BY <2>3, <2>4, <2>5, RequestOnly
<1> QED BY <1>1, <1>2, <1>3, <1>4, <1>5, <1>6, <1>7, <1>8, <1>9

(* The writes of a request: the Step made current or blocked, the claim      *)
(* taken, the outcome stored.                                              *)
LEMMA WriteSteps ==
  ASSUME ClaimsInv, NEW h \in Executor,
         \/ MakeCurrent(h) \/ BlockStep(h) \/ ClaimStep(h) \/ ClaimWrite(h) \/ FinishWrite(h)
  PROVE  ClaimsInv' /\ Extends(plan, plan')
<1>0. /\ ClaimsTypeOK /\ plan \in PlanType /\ exec[h] \in ExecType /\ ExecHolds(exec[h], plan)
      /\ PlanHolds(plan) /\ exec[h].snap \in PlanType /\ exec \in [Executor -> ExecType]
      /\ claims \in Nat
  BY DEF ClaimsInv, ClaimsTypeOK, ExecType
<1>1. ASSUME exec[h].pc \in {"select", "dispatch"}, exec[h].snap.version = plan.version,
             NEW p \in PlanType, p.steps \in {plan.steps, [plan.steps EXCEPT ![exec[h].step] = "blocked"]},
             p.status = "running" => p.steps = plan.steps, p.status \in {"running", "blocked"}
      PROVE  Saved(p) \in PlanType /\ PlanHolds(Saved(p)) /\ Extends(plan, Saved(p))
  <2>1. /\ exec[h].step \in Steps /\ Open(plan.steps) /\ ~AllCompleted(plan.steps)
        /\ plan.steps[exec[h].step] \in Active
    BY <1>0, <1>1 DEF ExecHolds, AtWork
  <2>2. plan.steps \in [Steps -> StepStatus]
    BY <1>0 DEF PlanType
  <2>3. Open(p.steps) /\ ~AllCompleted(p.steps)
    BY <1>1, <2>1, <2>2 DEF Open, AllCompleted
  <2>4. StatusHolds(p)
    BY <1>1, <2>3 DEF StatusHolds
  <2>5. \A s \in Steps : plan.steps[s] \in {"completed", "failed", "cancelled"} => p.steps[s] = plan.steps[s]
    BY <1>1, <2>1, <2>2 DEF Active
  <2>6. (p.status = "running" /\ plan.claim.id # 0) => p.steps[plan.claim.step] \in {"running", "completed"}
    BY <1>0, <1>1 DEF PlanHolds, ClaimHolds
  <2> QED BY <1>0, <2>4, <2>5, <2>6, SavedHolds
<1>2. CASE MakeCurrent(h)
  <2> DEFINE p == [exec[h].snap EXCEPT !.status = "running", !.current = exec[h].step, !.action = FALSE]
             e == [exec[h] EXCEPT !.pc = "dispatch", !.snap = plan']
  <2>1. /\ p \in PlanType /\ p.steps = exec[h].snap.steps /\ p.status = "running"
        /\ p.version = exec[h].snap.version
    BY <1>0 DEF PlanType, ExecType, StepStatus
  <2>2. exec[h].pc = "select" /\ plan.version = p.version /\ plan' = Saved(p)
        /\ exec' = [exec EXCEPT ![h] = [@ EXCEPT !.pc = "dispatch", !.snap = plan']] /\ claims' = claims
    BY <1>2 DEF MakeCurrent, SavePlan, At
  <2>3. p.steps = plan.steps /\ exec[h].step \in Steps
    BY <1>0, <2>1, <2>2 DEF ExecHolds, AtWork
  <2> HIDE DEF p
  <2>4. plan' \in PlanType /\ PlanHolds(plan') /\ Extends(plan, plan')
    BY <1>1, <2>1, <2>2, <2>3
  <2>5. plan'.steps = plan.steps
    BY <2>1, <2>2, <2>3 DEF Saved, PlanType
  <2>6. e \in ExecType /\ e.pc = "dispatch" /\ e.snap = plan' /\ e.step = exec[h].step
    BY <1>0, <2>4 DEF ExecType
  <2>7. exec' = [exec EXCEPT ![h] = e]
    BY <1>0, <2>2
  <2>8. Open(plan.steps) /\ ~AllCompleted(plan.steps) /\ plan.steps[exec[h].step] \in Active
    BY <1>0, <2>1, <2>2, <2>3 DEF ExecHolds
  <2>9. plan'.version \in Nat BY <2>4 DEF PlanType
  <2> HIDE DEF e
  <2>10. ExecHolds(e, plan')
    BY <2>3, <2>5, <2>6, <2>8, <2>9 DEF ExecHolds
  <2> QED BY <1>0, <2>2, <2>4, <2>6, <2>7, <2>10, RowAndRequest
<1>3. CASE BlockStep(h)
  <2> DEFINE st == [exec[h].snap.steps EXCEPT ![exec[h].step] = "blocked"]
             p == [exec[h].snap EXCEPT !.steps[exec[h].step] = "blocked", !.action = TRUE,
                                       !.current = NextStep(st), !.status = "blocked"]
  <2>1. st \in [Steps -> StepStatus]
    BY <1>0 DEF PlanType, StepStatus
  <2>2. NextStep(st) \in 0..StepCount
    BY <2>1, NextStepType
  <2>3. p = [exec[h].snap EXCEPT !.steps = st, !.action = TRUE, !.current = NextStep(st), !.status = "blocked"]
    BY <1>0 DEF PlanType
  <2>4. plan' = Saved(p) /\ plan.version = exec[h].snap.version /\ exec[h].pc = "dispatch"
        /\ Leave(h) /\ claims' = claims
    BY <1>3 DEF BlockStep, SavePlan, At
  <2>5. st = [plan.steps EXCEPT ![exec[h].step] = "blocked"]
    BY <1>0, <2>4 DEF ExecHolds
  <2> HIDE DEF st
  <2>6. p \in PlanType /\ p.steps = st /\ p.status = "blocked"
    BY <1>0, <2>1, <2>2, <2>3 DEF PlanType, StepStatus
  <2> HIDE DEF p
  <2>7. plan' \in PlanType /\ PlanHolds(plan') /\ Extends(plan, plan')
    BY <1>1, <2>4, <2>5, <2>6
  <2> QED BY <1>0, <2>4, <2>7, BlankTypes, RowAndRequest DEF Leave
<1>4. ASSUME NEW r \in ReadType, r.step = exec[h].step, AtWork(exec[h]), MayClaim(r), Take(h, r)
      PROVE  ClaimsInv' /\ Extends(plan, plan')
  <2> DEFINE e == [exec[h] EXCEPT !.pc = "claimed", !.claim = claims + 1, !.read = NoRead]
  <2>1. r.step \in Steps
    BY <1>0, <1>4 DEF ExecHolds
  <2>2. plan' \in PlanType /\ PlanHolds(plan') /\ Extends(plan, plan')
    BY <1>0, <1>4, <2>1, ClaimedHolds DEF Take
  <2>0. claims + 1 \in Nat /\ claims' = claims + 1
    BY <1>0, <1>4 DEF Take
  <2>3. e \in ExecType /\ e.pc = "claimed" /\ e.step = exec[h].step
    BY <1>0, <2>0, BlankTypes DEF ExecType
  <2>4. exec' = [exec EXCEPT ![h] = e]
    BY <1>0, <1>4 DEF Take, ExecType
  <2> HIDE DEF e
  <2>5. ExecHolds(e, plan')
    BY <1>4, <2>1, <2>3 DEF ExecHolds
  <2> QED BY <2>0, <2>2, <2>3, <2>4, <2>5, RowAndRequest
<1>5. CASE ClaimStep(h)
  <2>1. AtWork(exec[h])
    BY <1>5 DEF ClaimStep, At, AtWork
  <2> QED BY <1>0, <1>4, <1>5, <2>1, ClaimPlanType DEF ClaimStep, ExecHolds
<1>6. CASE ClaimWrite(h)
  BY <1>0, <1>4, <1>6 DEF ClaimWrite, At, AtWork, ExecHolds, ExecType
<1>7. CASE FinishWrite(h)
  <2> DEFINE e == [exec[h] EXCEPT !.pc = "after", !.snap = BlankPlan]
  <2>1. plan' \in PlanType /\ PlanHolds(plan') /\ Extends(plan, plan')
    BY <1>0, <1>7, FinishedHolds DEF FinishWrite, At
  <2>2. e \in ExecType /\ e.pc = "after" /\ e.step = exec[h].step
    BY <1>0, BlankTypes DEF ExecType
  <2>3. exec' = [exec EXCEPT ![h] = e] /\ claims' \in Nat
    BY <1>0, <1>7 DEF FinishWrite
  <2>4. exec[h].step \in Steps
    BY <1>0, <1>7 DEF FinishWrite, At, ExecHolds, AtWork
  <2> HIDE DEF e
  <2>5. ExecHolds(e, plan')
    BY <2>2, <2>4 DEF ExecHolds
  <2> QED BY <2>1, <2>2, <2>3, <2>5, RowAndRequest
<1> QED BY <1>2, <1>3, <1>5, <1>6, <1>7

(* The steps of a request around the agent's work.                         *)
LEMMA AgentSteps ==
  ASSUME ClaimsInv, NEW h \in Executor,
         \/ Invoke(h) \/ FinishRead(h) \/ FinishRetry(h) \/ FinishGivesUp(h) \/ AfterInvoke(h)
         \/ \E o \in {"completed", "blocked", "failed"} : AgentAnswers(h, o)
  PROVE  ClaimsInv' /\ Extends(plan, plan')
<1>0. /\ ClaimsTypeOK /\ plan \in PlanType /\ exec[h] \in ExecType /\ ExecHolds(exec[h], plan)
      /\ exec[h].snap \in PlanType /\ exec \in [Executor -> ExecType]
  BY DEF ClaimsInv, ClaimsTypeOK, ExecType
<1>1. ASSUME NEW e \in ExecType, e.step = exec[h].step, AtWork(exec[h]),
             e.pc \in {"invoking", "finish", "after"}, e.pc = "finish" => e.outcome # "none",
             exec' = [exec EXCEPT ![h] = e], UNCHANGED <<plan, claims>>
      PROVE  ClaimsInv' /\ Extends(plan, plan')
  <2>1. ExecHolds(e, plan)
    BY <1>0, <1>1 DEF ExecHolds
  <2> QED BY <1>1, <2>1, RequestOnly
<1>2. CASE Invoke(h)
  <2> DEFINE e == [exec[h] EXCEPT !.pc = "invoking"]
  <2>1. e \in ExecType /\ e.step = exec[h].step /\ e.pc = "invoking"
    BY <1>0 DEF ExecType
  <2>2. exec' = [exec EXCEPT ![h] = e] /\ UNCHANGED <<plan, claims>> /\ AtWork(exec[h])
    BY <1>0, <1>2 DEF Invoke, At, AtWork
  <2> QED BY <1>1, <2>1, <2>2
<1>3. CASE \E o \in {"completed", "blocked", "failed"} : AgentAnswers(h, o)
  <2>1. PICK o \in {"completed", "blocked", "failed"} : AgentAnswers(h, o) BY <1>3
  <2> DEFINE e == [exec[h] EXCEPT !.pc = "finish", !.outcome = o]
  <2>2. e \in ExecType /\ e.step = exec[h].step /\ e.pc = "finish" /\ e.outcome # "none"
    BY <1>0 DEF ExecType
  <2>3. exec' = [exec EXCEPT ![h] = e] /\ UNCHANGED <<plan, claims>> /\ AtWork(exec[h])
    BY <1>0, <2>1 DEF AgentAnswers, At, AtWork
  <2> QED BY <1>1, <2>2, <2>3
<1>4. CASE FinishRead(h)
  <2> DEFINE p == GetPlan
             st == [p.steps EXCEPT ![exec[h].step] = AdvanceStep(@, exec[h].outcome)]
             snap == [p EXCEPT !.steps = st, !.current = NextStep(st),
                               !.status = PlanStatus(st), !.action = FALSE]
             a == [exec[h] EXCEPT !.pc = "after"]
             e == [exec[h] EXCEPT !.pc = "finish_write", !.snap = snap]
  <2>1. p \in PlanType /\ p.version = plan.version /\ p.steps = plan.steps
    BY <1>0, GetPlanType
  <2>2. exec' = [exec EXCEPT ![h] = IF p.status \in TERMINAL_STATUSES THEN a ELSE e]
        /\ UNCHANGED <<plan, claims>> /\ exec[h].pc = "finish"
    BY <1>4 DEF FinishRead, At
  <2>3. exec[h].step \in Steps /\ exec[h].outcome # "none" /\ exec[h].outcome \in StepStatus
        /\ AtWork(exec[h])
    BY <1>0, <2>2 DEF ExecHolds, AtWork, ExecType, StepStatus
  <2>4. a \in ExecType /\ a.step = exec[h].step /\ a.pc = "after"
    BY <1>0 DEF ExecType
  <2> HIDE DEF p
  <2>5. st \in [Steps -> StepStatus]
    <3>1. ASSUME NEW s \in Steps PROVE AdvanceStep(p.steps[s], exec[h].outcome) \in StepStatus
      BY <2>1, <2>3, AdvanceSays DEF PlanType
    <3> QED BY <2>1, <3>1 DEF PlanType
  <2>6. st = [plan.steps EXCEPT ![exec[h].step] = AdvanceStep(@, exec[h].outcome)]
    BY <2>1
  <2> HIDE DEF st
  <2>7. NextStep(st) \in 0..StepCount /\ PlanStatus(st) \in StepStatus
    BY <2>5, NextStepType, PlanStatusSays
  <2>8. /\ snap \in PlanType /\ snap.steps = st /\ snap.status = PlanStatus(st)
        /\ snap.version = plan.version
    BY <2>1, <2>5, <2>7 DEF PlanType
  <2> HIDE DEF snap
  <2>9. /\ e \in ExecType /\ e.pc = "finish_write" /\ e.snap = snap /\ e.step = exec[h].step
        /\ e.outcome = exec[h].outcome
    BY <1>0, <2>8 DEF ExecType
  <2>10. plan.version \in Nat
    BY <1>0 DEF PlanType
  <2> HIDE DEF e, a
  <2>11. ExecHolds(e, plan)
    BY <2>3, <2>6, <2>8, <2>9, <2>10 DEF ExecHolds
  <2>12. CASE p.status \in TERMINAL_STATUSES
    BY <1>1, <2>2, <2>3, <2>4, <2>12
  <2>13. CASE p.status \notin TERMINAL_STATUSES
    BY <2>2, <2>9, <2>11, <2>13, RequestOnly
  <2> QED BY <2>12, <2>13
<1>5. CASE FinishRetry(h)
  <2> DEFINE e == [exec[h] EXCEPT !.pc = "finish", !.tries = @ + 1, !.snap = BlankPlan]
  <2>1. e \in ExecType /\ e.step = exec[h].step /\ e.pc = "finish" /\ e.outcome = exec[h].outcome
    <3>1. exec[h].tries + 1 \in Nat BY <1>0 DEF ExecType
    <3> QED BY <1>0, <3>1, BlankTypes DEF ExecType
  <2>2. exec' = [exec EXCEPT ![h] = e] /\ UNCHANGED <<plan, claims>>
    BY <1>0, <1>5 DEF FinishRetry, ExecType
  <2>3. AtWork(exec[h]) /\ exec[h].outcome # "none"
    BY <1>0, <1>5 DEF FinishRetry, At, AtWork, ExecHolds
  <2> QED BY <1>1, <2>1, <2>2, <2>3
<1>6. CASE FinishGivesUp(h)
  <2> DEFINE a == [exec[h] EXCEPT !.pc = "after"]
  <2>1. a \in ExecType /\ a.step = exec[h].step /\ a.pc = "after"
    BY <1>0 DEF ExecType
  <2>2. exec' = [exec EXCEPT ![h] = IF plan.status \in TERMINAL_STATUSES THEN a ELSE Idle]
        /\ UNCHANGED <<plan, claims>> /\ AtWork(exec[h])
    BY <1>6 DEF FinishGivesUp, At, AtWork
  <2>3. CASE plan.status \in TERMINAL_STATUSES
    BY <1>1, <2>1, <2>2, <2>3
  <2>4. CASE plan.status \notin TERMINAL_STATUSES
    BY <2>2, <2>4, BlankTypes, RequestOnly
  <2> QED BY <2>3, <2>4
<1>7. CASE AfterInvoke(h)
  <2> DEFINE e == [Idle EXCEPT !.pc = "loop", !.resuming = exec[h].resuming]
  <2>1. e \in ExecType /\ e.pc = "loop"
    BY <1>0, BlankTypes DEF ExecType
  <2>2. ExecHolds(e, plan)
    BY <2>1 DEF ExecHolds, AtWork
  <2> DEFINE ends == exec[h].alone \/ plan.status \in TERMINAL_STATUSES \/ exec[h].outcome # "completed"
  <2>3. UNCHANGED <<plan, claims>> /\ exec' = [exec EXCEPT ![h] = IF ends THEN Idle ELSE e]
    BY <1>7 DEF AfterInvoke
  <2> HIDE DEF e, ends
  <2>4. CASE ends
    BY <2>3, <2>4, BlankTypes, RequestOnly
  <2>5. CASE ~ends
    BY <2>1, <2>2, <2>3, <2>5, RequestOnly
  <2> QED BY <2>4, <2>5
<1> QED BY <1>2, <1>3, <1>4, <1>5, <1>6, <1>7

(* The lease, events of agents and actions of the user.                    *)
LEMMA OtherSteps ==
  ASSUME ClaimsInv,
         \/ \E h \in Executor : RenewClaim(h)
         \/ LeaseAges \/ LeaseExpires \/ Confirm \/ CancelUnstarted
         \/ \E s \in Steps, x \in StepStatus \ {"pending"} : ApplyEvent(s, x)
  PROVE  ClaimsInv' /\ Extends(plan, plan')
<1>0. ClaimsTypeOK /\ plan \in PlanType /\ PlanHolds(plan) /\ plan.steps \in [Steps -> StepStatus]
  BY DEF ClaimsInv, ClaimsTypeOK, PlanType
<1>1. ASSUME NEW lease \in {"fresh", "due", "expired"}, plan' = [plan EXCEPT !.claim.lease = lease],
             UNCHANGED <<exec, claims>>
      PROVE  ClaimsInv' /\ Extends(plan, plan')
  <2> DEFINE c == [plan.claim EXCEPT !.lease = lease]
  <2>1. /\ c \in ClaimType /\ c.id = plan.claim.id /\ c.step = plan.claim.step
        /\ c.version = plan.claim.version
    BY <1>0 DEF PlanType, ClaimType
  <2>2. plan' = [plan EXCEPT !.claim = c]
    BY <1>0, <1>1 DEF PlanType, ClaimType
  <2> HIDE DEF c
  <2>3. /\ plan' \in PlanType /\ plan'.claim = c /\ plan'.steps = plan.steps
        /\ plan'.status = plan.status /\ plan'.version = plan.version
    BY <1>0, <2>1, <2>2 DEF PlanType
  <2>4. PlanHolds(plan') /\ Extends(plan, plan')
    BY <1>0, <2>1, <2>3 DEF PlanHolds, ClaimHolds, StatusHolds, Extends
  <2> QED BY <1>1, <2>3, <2>4, RowOnly
<1>2. CASE \E h \in Executor : RenewClaim(h) BY <1>1, <1>2 DEF RenewClaim
<1>3. CASE LeaseAges BY <1>1, <1>3 DEF LeaseAges
<1>4. CASE LeaseExpires BY <1>1, <1>4 DEF LeaseExpires
<1>5. CASE Confirm
  <2> DEFINE p == [GetPlan EXCEPT !.status = "running"]
  <2>1. p \in PlanType /\ p.steps = plan.steps /\ p.status = "running"
    BY <1>0, GetPlanType DEF PlanType, StepStatus
  <2>2. plan' = Saved(p) /\ UNCHANGED <<exec, claims>> /\ plan.status = "pending"
    BY <1>5 DEF Confirm
  <2> HIDE DEF p
  <2>3. StatusHolds(p) /\ plan.claim.id = 0
    BY <1>0, <2>1, <2>2 DEF PlanHolds, ClaimHolds, StatusHolds, Active
  <2>4. plan' \in PlanType /\ PlanHolds(plan') /\ Extends(plan, plan')
    BY <1>0, <2>1, <2>2, <2>3, SavedHolds
  <2> QED BY <2>2, <2>4, RowOnly
<1>6. CASE CancelUnstarted
  <2> DEFINE st == [s \in Steps |-> IF plan.steps[s] \in {"pending", "blocked"}
                                    THEN "cancelled" ELSE plan.steps[s]]
  <2>1. /\ plan' = [plan EXCEPT !.status = "cancelled", !.current = 0, !.version = @ + 1,
                            !.action = FALSE, !.claim = NoClaim, !.steps = st]
        /\ UNCHANGED <<exec, claims>>
    BY <1>0, <1>6 DEF CancelUnstarted, PlanType
  <2>2. st \in [Steps -> StepStatus]
    BY <1>0 DEF StepStatus
  <2>3. \A s \in Steps : plan.steps[s] \in {"completed", "failed", "cancelled"} => st[s] = plan.steps[s]
    OBVIOUS
  <2> HIDE DEF st
  <2>4. NoClaim \in ClaimType /\ NoClaim.id = 0 /\ plan.version \in Nat /\ plan.version + 1 \in Nat
    BY <1>0, PlanClaimsAssumption DEF PlanType, ClaimType, NoClaim, NoKey
  <2>5. /\ plan' \in PlanType /\ plan'.claim = NoClaim /\ plan'.steps = st
        /\ plan'.status = "cancelled" /\ plan'.version = plan.version + 1
    <3>1. plan' = [status |-> "cancelled", current |-> 0, version |-> plan.version + 1, action |-> FALSE,
                   attempt |-> plan.attempt, claim |-> NoClaim, steps |-> st]
      BY <1>0, <2>1 DEF PlanType
    <3>2. plan.attempt \in Nat /\ 0 \in 0..StepCount
      BY <1>0, PlanClaimsAssumption DEF PlanType
    <3> QED BY <2>2, <2>4, <3>1, <3>2 DEF PlanType, StepStatus
  <2>6. PlanHolds(plan') /\ Extends(plan, plan')
    BY <2>3, <2>4, <2>5 DEF PlanHolds, ClaimHolds, StatusHolds, Extends, Active
  <2> QED BY <2>1, <2>5, <2>6, RowOnly
<1>7. CASE \E s \in Steps, x \in StepStatus \ {"pending"} : ApplyEvent(s, x)
  <2>1. PICK s \in Steps, x \in StepStatus \ {"pending"} : ApplyEvent(s, x) BY <1>7
  <2> DEFINE st == [GetPlan.steps EXCEPT ![s] = AdvanceStep(@, x)]
             action == x \notin {"completed", "failed"} /\ GetPlan.action
             p == [GetPlan EXCEPT !.steps = st, !.current = NextStep(st),
                                  !.status = PlanStatus(st), !.action = action]
  <2>2. plan' = Saved(p) /\ UNCHANGED <<exec, claims>>
    BY <2>1, GetPlanType DEF ApplyEvent
  <2>3. GetPlan \in PlanType /\ GetPlan.steps = plan.steps
    BY <1>0, GetPlanType
  <2>4. /\ st \in [Steps -> StepStatus]
        /\ \A t \in Steps : plan.steps[t] \in {"completed", "failed", "cancelled"} => st[t] = plan.steps[t]
        /\ \A t \in Steps : st[t] = plan.steps[t] \/ st[t] = AdvanceStep(plan.steps[t], x)
    BY <1>0, <2>3, AdvanceSays
  <2>5. NextStep(st) \in 0..StepCount /\ PlanStatus(st) \in StepStatus
    BY <2>4, NextStepType, PlanStatusSays
  <2>6. action \in BOOLEAN
    OBVIOUS
  <2> HIDE DEF st, action
  <2>7. p \in PlanType /\ p.steps = st /\ p.status = PlanStatus(st)
    BY <2>3, <2>4, <2>5, <2>6 DEF PlanType
  <2> HIDE DEF p
  <2>8. StatusHolds(p)
    BY <2>4, <2>7, PlanStatusSays DEF StatusHolds
  <2>9. (p.status = "running" /\ plan.claim.id # 0) => p.steps[plan.claim.step] \in {"running", "completed"}
    <3> SUFFICES ASSUME p.status = "running", plan.claim.id # 0
                 PROVE  st[plan.claim.step] \in {"running", "completed"}
      BY <2>7
    <3>1. plan.claim.step \in Steps /\ plan.steps[plan.claim.step] \in {"running", "completed"}
      BY <1>0 DEF PlanHolds, ClaimHolds
    <3>2. st[plan.claim.step] \notin {"failed", "cancelled", "blocked"}
      BY <2>4, <2>7, <3>1, PlanStatusSays DEF Open, Some, Active
    <3>3. st[plan.claim.step] \in {"running", "completed", x}
      BY <2>4, <3>1 DEF AdvanceStep
    <3> QED BY <2>1, <3>2, <3>3 DEF StepStatus
  <2>10. plan' \in PlanType /\ PlanHolds(plan') /\ Extends(plan, plan')
    BY <1>0, <2>2, <2>4, <2>7, <2>8, <2>9, SavedHolds
  <2> QED BY <2>2, <2>10, RowOnly
<1> QED BY <1>2, <1>3, <1>4, <1>5, <1>6, <1>7

(* All of it: every step keeps the invariant and only extends the row.      *)
LEMMA ClaimsStep ==
  ASSUME ClaimsInv, [ClaimsNext]_claimVars
  PROVE  ClaimsInv' /\ Extends(plan, plan')
<1>1. CASE UNCHANGED claimVars
  BY <1>1, RowOnly, SameRow DEF claimVars
<1>2. CASE ClaimsNext
  BY <1>2, LoopSteps, WriteSteps, AgentSteps, OtherSteps DEF ClaimsNext, ExecutorStep
<1> QED BY <1>1, <1>2

(* A new Plan, before anybody works on it.                                 *)
LEMMA ClaimsInitial ==
  ASSUME ClaimsInit
  PROVE  ClaimsInv
<1>1. PICK c \in Steps : plan = [BlankPlan EXCEPT !.version = 1, !.current = c]
  BY DEF ClaimsInit
<1>2. c \in 0..StepCount
  BY PlanClaimsAssumption DEF Steps
<1>3. /\ plan \in PlanType /\ plan.status = "pending" /\ plan.claim = BlankPlan.claim
      /\ plan.steps = BlankPlan.steps
  BY <1>1, <1>2, BlankTypes DEF PlanType, BlankPlan
<1>4. 1 \in Steps
  BY PlanClaimsAssumption DEF Steps
<1>5. PlanHolds(plan)
  BY <1>3, <1>4 DEF PlanHolds, ClaimHolds, StatusHolds, BlankPlan, NoClaim, Open, AllCompleted
<1>6. exec \in [Executor -> ExecType] /\ claims \in Nat
  BY BlankTypes DEF ClaimsInit
<1>7. \A h \in Executor : ExecHolds(exec[h], plan)
  BY BlankTypes DEF ClaimsInit
<1> QED BY <1>3, <1>5, <1>6, <1>7 DEF ClaimsInv, ClaimsTypeOK

(* Any Plan, any number of requests: type correctness of the rows and of    *)
(* what the requests hold.                                                 *)
THEOREM ClaimsTypesHold == ClaimsSpec => []ClaimsTypeOK
<1>1. ClaimsInv /\ [ClaimsNext]_claimVars => ClaimsInv'
  BY ClaimsStep
<1>2. ClaimsInv => ClaimsTypeOK
  BY DEF ClaimsInv
<1> QED BY <1>1, <1>2, ClaimsInitial, PTL DEF ClaimsSpec

(* A claim always belongs to a running Plan and can be finished or          *)
(* recovered, in whatever order Steps depend on each other.                *)
THEOREM ClaimsAlwaysFit == ClaimsSpec => []ClaimFits
<1>1. ClaimsInv /\ [ClaimsNext]_claimVars => ClaimsInv'
  BY ClaimsStep
<1>2. ClaimsInv => ClaimFits
  BY DEF ClaimsInv, PlanHolds, ClaimHolds, ClaimFits
<1> QED BY <1>1, <1>2, ClaimsInitial, PTL DEF ClaimsSpec

(* StepsAreFinal: no executor, event or user ever changes a settled Step,    *)
(* in whatever order Steps depend on each other.                           *)
THEOREM SettledStepsStay == ClaimsSpec => StepsAreFinal
<1> DEFINE Keeps == \A s \in Steps : plan.steps[s] \in {"completed", "failed", "cancelled"} =>
                                         plan'.steps[s] = plan.steps[s]
<1>1. ClaimsInv /\ [ClaimsNext]_claimVars => ClaimsInv' /\ [Keeps]_claimVars
  BY ClaimsStep DEF Extends
<1>2. ClaimsSpec => [][Keeps]_claimVars
  BY <1>1, ClaimsInitial, PTL DEF ClaimsSpec
<1> QED BY <1>2 DEF StepsAreFinal

-----------------------------------------------------------------------------
(* The order of execution.                                                 *)

(* As the dependencies have no cycle, a Plan that is neither finished nor    *)
(* ended has a Step to work on, wherever it is listed, and NextStep names   *)
(* such a Step.                                                            *)
LEMMA NextStepLive ==
  ASSUME NEW st \in [Steps -> StepStatus], Open(st), ~AllCompleted(st)
  PROVE  NextStep(st) \in Live(st) /\ NextStep(st) \in Steps
<1> DEFINE V == {s \in Steps : st[s] # "completed"}
<1>1. V \in SUBSET Steps /\ V # {}
  BY DEF AllCompleted
<1>2. PICK s \in V : DependsOn[s] \cap V = {}
  BY <1>1, PlanClaimsAssumption
<1>3. DependsOn[s] \subseteq Steps
  BY <1>1, <1>2, PlanClaimsAssumption
<1>4. Done(st, s)
  BY <1>2, <1>3 DEF Done
<1>5. s \in Live(st)
  BY <1>2, <1>4 DEF Live, ReadySteps, Open, StepStatus
<1>6. Live(st) \in SUBSET Steps
  BY DEF Live, ReadySteps
<1>7. First(Live(st)) \in Live(st)
  BY <1>5, <1>6, FirstIsLeast
<1>8. NextStep(st) = First(Live(st))
  BY DEF NextStep, Live
<1> QED BY <1>6, <1>7, <1>8

(* A Plan whose current Step was computed by NextStep.                     *)
LEMMA CurrentIsNext ==
  ASSUME NEW p \in PlanType, StatusHolds(p), p.current = NextStep(p.steps)
  PROVE  CurrentHolds(p) /\ CurrentLive(p)
<1> SUFFICES ASSUME p.status \in Active
             PROVE  p.current \in Live(p.steps) /\ p.current \in Steps
  BY DEF CurrentHolds, CurrentLive
<1>1. p.steps \in [Steps -> StepStatus] /\ Open(p.steps) /\ ~AllCompleted(p.steps)
  BY DEF PlanType, StatusHolds
<1> QED BY <1>1, NextStepLive

(* The schema's validator leaves the current Step of an open Plan alone.    *)
LEMMA ReadCurrentStays ==
  ASSUME CurrentHolds(plan), plan.status \in Active
  PROVE  ReadCurrent(plan) = plan.current /\ plan.current \in Steps
<1>1. plan.current \in Steps
  BY DEF CurrentHolds
<1>2. plan.current # 0
  BY <1>1, PlanClaimsAssumption DEF Steps
<1> QED BY <1>1, <1>2 DEF ReadCurrent, Active

(* A Step to work on may be begun, or was begun early.                     *)
LEMMA LiveInTurn ==
  ASSUME NEW p, NEW begun, Open(p.steps), BegunInTurn(p, begun), NEW s \in Live(p.steps)
  PROVE  InTurn(p, begun, s)
<1>1. CASE s \in ReadySteps(p.steps)
  BY <1>1 DEF ReadySteps, InTurn
<1>2. CASE s \notin ReadySteps(p.steps)
  <2>1. s \in Steps /\ p.steps[s] \in {"running", "blocked"}
    BY <1>2 DEF Live, Open
  <2> QED BY <2>1 DEF BegunInTurn
<1> QED BY <1>1, <1>2

(* An active Plan that waits for nobody offers execute a Step.             *)
LEMMA SomethingToDo ==
  ASSUME ClaimsTypeOK, PlanHolds(plan), CurrentHolds(plan), Unready = {},
         plan.status \in {"pending", "running"}
  PROVE  SelectStep(GetPlan, TRUE) # 0
<1> DEFINE c == plan.current
<1>1. plan.status \in Active /\ plan.steps \in [Steps -> StepStatus]
  BY DEF Active, ClaimsTypeOK, PlanType
<1>2. c \in Steps /\ GetPlan.current = c /\ GetPlan.steps = plan.steps
  BY <1>1, ReadCurrentStays, GetPlanType
<1>3. c # 0
  BY <1>2, PlanClaimsAssumption DEF Steps
<1>4. Open(plan.steps) /\ ~AllCompleted(plan.steps)
  BY <1>1 DEF PlanHolds, StatusHolds
<1>5. CASE ReadySteps(plan.steps) = {}
  <2>1. PICK n \in Steps : n \in Live(plan.steps)
    BY <1>1, <1>4, NextStepLive
  <2>2. plan.steps[n] # "pending"
    BY <1>5, <2>1 DEF Live
  <2>3. c \in Live(plan.steps)
    BY <1>1, <2>1, <2>2 DEF CurrentHolds, CurrentLive
  <2>4. plan.steps[c] \in {"running", "blocked"}
    BY <1>4, <1>5, <2>3 DEF Live, Open
  <2>5. Done(plan.steps, c)
    BY <1>2, <2>4 DEF Unready
  <2> HIDE DEF c
  <2> QED BY <1>2, <1>3, <2>4, <2>5 DEF SelectStep
<1>6. CASE ReadySteps(plan.steps) # {}
  <2>1. ReadySteps(plan.steps) \in SUBSET Steps
    BY DEF ReadySteps
  <2>2. First(ReadySteps(plan.steps)) # 0
    BY <1>6, <2>1, FirstType
  <2> HIDE DEF c
  <2> QED BY <1>2, <1>3, <2>2 DEF SelectStep
<1> QED BY <1>5, <1>6

(* Completed dependencies stay completed when the row goes on, and what was  *)
(* begun early is remembered.                                              *)
LEMMA InTurnKeeps ==
  ASSUME NEW p, NEW q, NEW begun, NEW later, NEW s \in Steps,
         InTurn(p, begun, s), Extends(p, q), begun \subseteq later
  PROVE  InTurn(q, later, s)
<1>1. DependsOn[s] \subseteq Steps
  BY PlanClaimsAssumption
<1> QED BY <1>1 DEF InTurn, Done, Extends

(* A request's place in the order survives the steps of others.            *)
LEMMA ExecOrderKeeps ==
  ASSUME NEW e, NEW p, NEW q, NEW begun, NEW later,
         ExecHolds(e, p), ExecOrdered(e, p, begun), Extends(p, q), begun \subseteq later,
         CurrentLive(p) => CurrentLive(q)
  PROVE  ExecOrdered(e, q, later)
<1>1. ASSUME AtWork(e), InTurn(p, begun, e.step) PROVE InTurn(q, later, e.step)
  <2>1. e.step \in Steps
    BY <1>1 DEF ExecHolds
  <2> QED BY <1>1, <2>1, InTurnKeeps
<1> QED BY <1>1 DEF ExecOrdered

(* A row whose Steps under way were under way before, or were in their turn. *)
LEMMA BegunKeeps ==
  ASSUME NEW p, NEW q, NEW begun, NEW later,
         BegunInTurn(p, begun), Extends(p, q), begun \subseteq later,
         \A s \in Steps : q.steps[s] \in {"running", "blocked"} =>
             p.steps[s] \in {"running", "blocked"} \/ InTurn(p, later, s)
  PROVE  BegunInTurn(q, later)
<1> SUFFICES ASSUME NEW s \in Steps, q.steps[s] \in {"running", "blocked"}
             PROVE  InTurn(q, later, s)
  BY DEF BegunInTurn
<1>1. InTurn(p, begun, s) \/ InTurn(p, later, s)
  BY DEF BegunInTurn
<1> QED BY <1>1, InTurnKeeps

(* A Step that a request or an event begins is in its turn, or goes among    *)
(* those that were begun early.                                            *)
LEMMA WithEarlyInTurn ==
  ASSUME NEW s \in Steps
  PROVE  early \subseteq WithEarly(s) /\ InTurn(plan, WithEarly(s), s)
BY DEF WithEarly, InTurn

\* What a step may do to the row and to the Steps begun early.
RowInOrder ==
    /\ CurrentHolds(plan')
    /\ CurrentLive(plan) => CurrentLive(plan')
    /\ early \subseteq early'
    /\ BegunInTurn(plan', early')

(* A claim is taken of a Step in its turn, by the executor; a request that   *)
(* passes it by is remembered.                                             *)
LEMMA TakeInOrder ==
  ASSUME ClaimsInv, OrderInv, ClaimsNext, NEW h \in Executor, NEW r,
         r.step = exec[h].step, exec[h].pc \in {"claim", "claim_write"}, Take(h, r)
  PROVE  RowInOrder /\ InTurn(plan', early', exec[h].step)
<1>0. /\ plan \in PlanType /\ plan.steps \in [Steps -> StepStatus]
      /\ plan' \in PlanType /\ Extends(plan, plan') /\ BegunInTurn(plan, early)
  BY ClaimsStep DEF ClaimsInv, ClaimsTypeOK, OrderInv, PlanType
<1>1. exec[h].step \in Steps /\ ExecOrdered(exec[h], plan, early)
  BY DEF ClaimsInv, ExecHolds, AtWork, OrderInv
<1>2. early \subseteq early' /\ InTurn(plan, early', exec[h].step)
  <2>1. CASE exec[h].alone
    BY <1>1, <2>1, WithEarlyInTurn DEF Take
  <2>2. CASE ~exec[h].alone
    BY <1>1, <2>2 DEF Take, ExecOrdered, AtWork
  <2> QED BY <2>1, <2>2
<1>3. plan'.current = r.step /\ plan'.steps = [plan.steps EXCEPT ![r.step] = "running"]
  BY <1>0 DEF Take, Claimed, PlanType
<1>4. r.step \in Live(plan'.steps)
  BY <1>0, <1>1, <1>3 DEF Live
<1>5. BegunInTurn(plan', early')
  <2>1. \A s \in Steps : plan'.steps[s] \in {"running", "blocked"} =>
            plan.steps[s] \in {"running", "blocked"} \/ InTurn(plan, early', s)
    BY <1>0, <1>1, <1>2, <1>3
  <2> QED BY <1>0, <1>2, <2>1, BegunKeeps
<1>6. InTurn(plan', early', exec[h].step)
  BY <1>0, <1>1, <1>2, InTurnKeeps
<1> QED BY <1>1, <1>2, <1>3, <1>4, <1>5, <1>6 DEF RowInOrder, CurrentHolds, CurrentLive

(* The row stays in order.                                                 *)
LEMMA RowOrder ==
  ASSUME ClaimsInv, OrderInv, ClaimsNext
  PROVE  RowInOrder
<1>0. /\ ClaimsTypeOK /\ plan \in PlanType /\ PlanHolds(plan) /\ CurrentHolds(plan)
      /\ plan' \in PlanType /\ StatusHolds(plan') /\ Extends(plan, plan')
      /\ plan.steps \in [Steps -> StepStatus] /\ BegunInTurn(plan, early)
  BY ClaimsStep DEF ClaimsInv, ClaimsTypeOK, OrderInv, PlanHolds, PlanType
<1>1. ASSUME NEW h \in Executor
      PROVE  /\ exec[h] \in ExecType /\ exec[h].snap \in PlanType
             /\ ExecHolds(exec[h], plan) /\ ExecOrdered(exec[h], plan, early)
  BY DEF ClaimsInv, ClaimsTypeOK, OrderInv, ExecType
<1>2. CASE UNCHANGED <<plan, early>>
  BY <1>0, <1>2 DEF RowInOrder
<1>3. ASSUME NEW h \in Executor, MakeCurrent(h) PROVE RowInOrder
  <2>1. /\ plan'.current = exec[h].step /\ plan'.steps = exec[h].snap.steps
        /\ exec[h].pc = "select" /\ exec[h].snap.version = plan.version /\ early' = early
    BY <1>1, <1>3 DEF MakeCurrent, SavePlan, Saved, At, PlanType
  <2>2. exec[h].step \in Steps /\ exec[h].step \in ReadySteps(plan'.steps)
        /\ plan'.steps = plan.steps
    BY <1>1, <2>1 DEF ExecHolds, ExecOrdered, AtWork, ReadySteps
  <2>3. BegunInTurn(plan', early')
    BY <1>0, <2>1, <2>2, BegunKeeps
  <2> QED BY <2>1, <2>2, <2>3 DEF RowInOrder, CurrentHolds, CurrentLive, Live
<1>4. ASSUME NEW h \in Executor, BlockStep(h) PROVE RowInOrder
  <2> DEFINE st == [exec[h].snap.steps EXCEPT ![exec[h].step] = "blocked"]
  <2>1. plan'.current = NextStep(st) /\ plan'.steps = st /\ early' = early
        /\ exec[h].pc = "dispatch" /\ exec[h].snap.version = plan.version
    BY <1>1, <1>4 DEF BlockStep, SavePlan, Saved, PlanType, At
  <2>2. st = [plan.steps EXCEPT ![exec[h].step] = "blocked"]
        /\ InTurn(plan, early, exec[h].step)
    BY <1>1, <2>1 DEF ExecHolds, ExecOrdered, AtWork
  <2> HIDE DEF st
  <2>3. \A s \in Steps : plan'.steps[s] \in {"running", "blocked"} =>
            plan.steps[s] \in {"running", "blocked"} \/ InTurn(plan, early', s)
    BY <1>0, <2>1, <2>2
  <2>4. BegunInTurn(plan', early')
    BY <1>0, <2>1, <2>3, BegunKeeps
  <2> QED BY <1>0, <2>1, <2>4, CurrentIsNext DEF RowInOrder
<1>6. ASSUME NEW h \in Executor, ClaimStep(h) PROVE RowInOrder
  <2>1. exec[h].pc = "claim" /\ exec[h].step \in Steps
    BY <1>1, <1>6 DEF ClaimStep, At, ExecHolds, AtWork
  <2>2. ClaimPlan(exec[h].step).step = exec[h].step
    BY <1>0, <2>1, ClaimPlanType
  <2> QED BY <1>6, <2>1, <2>2, TakeInOrder DEF ClaimStep
<1>7. ASSUME NEW h \in Executor, ClaimWrite(h) PROVE RowInOrder
  <2>1. exec[h].pc = "claim_write" /\ exec[h].read.step = exec[h].step
    BY <1>1, <1>7 DEF ClaimWrite, At, ExecHolds
  <2> QED BY <1>7, <2>1, TakeInOrder DEF ClaimWrite
<1>8. ASSUME NEW h \in Executor, FinishWrite(h) PROVE RowInOrder
  <2>1. /\ plan'.current = exec[h].snap.current /\ plan'.steps = exec[h].snap.steps
        /\ plan'.status = exec[h].snap.status /\ early' = early
        /\ exec[h].pc = "finish_write" /\ exec[h].snap.version = plan.version
    BY <1>1, <1>8 DEF FinishWrite, Finished, MayFinish, PlanType, At
  <2>2. /\ plan'.steps = [plan.steps EXCEPT ![exec[h].step] = AdvanceStep(@, exec[h].outcome)]
        /\ InTurn(plan, early, exec[h].step)
        /\ plan'.status \in Active => plan'.current = NextStep(plan'.steps)
    BY <1>1, <2>1 DEF ExecHolds, ExecOrdered, AtWork
  <2>3. \A s \in Steps : plan'.steps[s] \in {"running", "blocked"} =>
            plan.steps[s] \in {"running", "blocked"} \/ InTurn(plan, early', s)
    BY <1>0, <2>1, <2>2
  <2>4. BegunInTurn(plan', early')
    BY <1>0, <2>1, <2>3, BegunKeeps
  <2>5. CurrentHolds(plan') /\ CurrentLive(plan')
    BY <1>0, <2>2, CurrentIsNext DEF CurrentHolds, CurrentLive
  <2> QED BY <2>1, <2>4, <2>5 DEF RowInOrder
<1>9. ASSUME plan'.current = plan.current, plan'.steps = plan.steps,
             plan'.status \in Active => plan.status \in Active, early' = early
      PROVE  RowInOrder
  <2>1. BegunInTurn(plan', early')
    BY <1>0, <1>9, BegunKeeps
  <2> QED BY <1>0, <1>9, <2>1 DEF RowInOrder, CurrentHolds, CurrentLive
<1>10. CASE Confirm
  <2>1. /\ plan'.current = ReadCurrent(plan) /\ plan'.steps = plan.steps
        /\ plan.status = "pending" /\ early' = early
    BY <1>0, <1>10, GetPlanType DEF Confirm, Saved, PlanType
  <2>2. plan.status \in Active /\ plan'.current = plan.current
    BY <1>0, <2>1, ReadCurrentStays DEF Active
  <2> QED BY <1>9, <2>1, <2>2
<1>11. CASE CancelUnstarted
  <2>1. plan'.status = "cancelled" /\ early' = early
        /\ \A s \in Steps : plan'.steps[s] \in {"running", "blocked"} => plan.steps[s] \in {"running", "blocked"}
    BY <1>0, <1>11 DEF CancelUnstarted, PlanType
  <2>2. BegunInTurn(plan', early')
    BY <1>0, <2>1, BegunKeeps
  <2> QED BY <2>1, <2>2 DEF RowInOrder, CurrentHolds, CurrentLive, Active
<1>12. ASSUME NEW s \in Steps, NEW x \in StepStatus \ {"pending"}, ApplyEvent(s, x)
       PROVE  RowInOrder
  <2> DEFINE st == [plan.steps EXCEPT ![s] = AdvanceStep(@, x)]
  <2>1. /\ plan'.current = NextStep(st) /\ plan'.steps = st
        /\ early' = IF x \in {"running", "blocked"} THEN WithEarly(s) ELSE early
    BY <1>0, <1>12, GetPlanType DEF ApplyEvent, Saved, PlanType
  <2>2. early \subseteq early' /\ (x \in {"running", "blocked"} => InTurn(plan, early', s))
    BY <2>1, WithEarlyInTurn
  <2>3. \A t \in Steps : st[t] \in {"running", "blocked"} =>
            plan.steps[t] \in {"running", "blocked"} \/ InTurn(plan, early', t)
    <3>1. st[s] \in {plan.steps[s], x} /\ \A t \in Steps \ {s} : st[t] = plan.steps[t]
      BY <1>0 DEF AdvanceStep
    <3> QED BY <2>2, <3>1
  <2>4. BegunInTurn(plan', early')
    BY <1>0, <2>1, <2>2, <2>3, BegunKeeps
  <2> QED BY <1>0, <2>1, <2>2, <2>4, CurrentIsNext DEF RowInOrder
<1>13. ASSUME NEW lease, plan' = [plan EXCEPT !.claim.lease = lease], early' = early
       PROVE  RowInOrder
  <2>1. plan'.current = plan.current /\ plan'.steps = plan.steps /\ plan'.status = plan.status
    BY <1>0, <1>13 DEF PlanType
  <2> QED BY <1>9, <1>13, <2>1
<1>14. CASE LeaseAges \/ LeaseExpires \/ \E h \in Executor : RenewClaim(h)
  BY <1>13, <1>14 DEF LeaseAges, LeaseExpires, RenewClaim
<1> QED
  BY <1>2, <1>3, <1>4, <1>6, <1>7, <1>8, <1>10, <1>11, <1>12, <1>14
  DEF ClaimsNext, ExecutorStep, Begin, LoopReturn, LoopReload, Conflict, Candidate, InvokeStep,
      ClaimRead, ClaimRefused, Invoke, FinishRead, FinishRetry, FinishGivesUp, AfterInvoke,
      AgentAnswers, Abandon

(* What a request holds stays in order.                                    *)
LEMMA ExecOrder ==
  ASSUME ClaimsInv, OrderInv, ClaimsNext
  PROVE  \A g \in Executor : ExecOrdered(exec'[g], plan', early')
<1>0. /\ ClaimsTypeOK /\ plan \in PlanType /\ PlanHolds(plan) /\ CurrentHolds(plan)
      /\ exec \in [Executor -> ExecType] /\ Extends(plan, plan')
      /\ BegunInTurn(plan, early) /\ RowInOrder
  BY ClaimsStep, RowOrder DEF ClaimsInv, ClaimsTypeOK, OrderInv
<1>1. ASSUME NEW h \in Executor
      PROVE  /\ exec[h] \in ExecType /\ ExecHolds(exec[h], plan)
             /\ ExecOrdered(exec[h], plan, early) /\ ExecOrdered(exec[h], plan', early')
  BY <1>0, ExecOrderKeeps DEF ClaimsInv, OrderInv, RowInOrder
<1>2. ASSUME NEW h \in Executor, NEW e, exec' = [exec EXCEPT ![h] = e],
             ExecOrdered(e, plan', early')
      PROVE  \A g \in Executor : ExecOrdered(exec'[g], plan', early')
  BY <1>0, <1>1, <1>2
<1>3. ASSUME NEW h \in Executor, NEW e, exec' = [exec EXCEPT ![h] = e], ~AtWork(e)
      PROVE  \A g \in Executor : ExecOrdered(exec'[g], plan', early')
  <2>1. ExecOrdered(e, plan', early') BY <1>3 DEF ExecOrdered, AtWork
  <2> QED BY <1>2, <1>3, <2>1
<1>4. ASSUME NEW h \in Executor, NEW e, exec' = [exec EXCEPT ![h] = e],
             InTurn(plan', early', exec[h].step), e.step = exec[h].step,
             e.pc \notin {"select", "dispatch", "finish_write"}
      PROVE  \A g \in Executor : ExecOrdered(exec'[g], plan', early')
  <2>1. ExecOrdered(e, plan', early') BY <1>4 DEF ExecOrdered
  <2> QED BY <1>2, <1>4, <2>1
<1>5. CASE UNCHANGED exec
  BY <1>1, <1>5
<1>6. ASSUME NEW h \in Executor, Leave(h)
      PROVE  \A g \in Executor : ExecOrdered(exec'[g], plan', early')
  BY <1>3, <1>6, BlankTypes DEF Leave
<1>7. ASSUME NEW h \in Executor, NEW r \in BOOLEAN, Begin(h, r)
      PROVE  \A g \in Executor : ExecOrdered(exec'[g], plan', early')
  BY <1>3, <1>7 DEF Begin, AtWork, Idle
<1>8. ASSUME NEW h \in Executor, LoopReload(h)
      PROVE  \A g \in Executor : ExecOrdered(exec'[g], plan', early')
  <2> DEFINE p == GetPlan
             s == SelectStep(p, exec[h].resuming)
             pc == IF /\ p.steps[s] = "pending"
                      /\ p.current # s \/ p.status # "running" \/ p.action
                   THEN "select" ELSE "dispatch"
             e == [exec[h] EXCEPT !.snap = p, !.step = s, !.pc = pc]
  <2>1. p \in PlanType /\ p.steps = plan.steps /\ p.current = ReadCurrent(plan)
    BY <1>0, GetPlanType
  <2>2. ~Returns(p, exec[h].resuming) /\ ~Settles(p) /\ exec' = [exec EXCEPT ![h] = e]
        /\ plan' = plan /\ early' = early
    BY <1>8 DEF LoopReload
  <2> HIDE DEF p
  <2>3. s # 0
    BY <2>2 DEF Returns
  <2>4. s \in Steps /\ Done(p.steps, s)
    BY <2>1, <2>3, SelectStepSays
  <2>5. pc = "select" => p.steps[s] = "pending"
    OBVIOUS
  <2>6. pc \in {"select", "dispatch"}
    OBVIOUS
  <2>7. pc = "dispatch" => p.steps[s] # "pending" \/ p.current = s
    OBVIOUS
  <2> HIDE DEF s, pc
  <2>8. pc = "dispatch" => CurrentLive(plan)
    <3> SUFFICES ASSUME pc = "dispatch", plan.status \in Active
                 PROVE  plan.current \in Live(plan.steps)
      BY DEF CurrentLive
    <3>1. CASE p.steps[s] # "pending"
      BY <1>0, <2>1, <2>4, <3>1 DEF CurrentHolds, CurrentLive
    <3>2. CASE p.steps[s] = "pending"
      <4>1. plan.current = s
        BY <1>0, <2>1, <2>7, <3>2, ReadCurrentStays
      <4>2. s \in ReadySteps(plan.steps)
        BY <2>1, <2>4, <3>2 DEF ReadySteps
      <4> QED BY <4>1, <4>2 DEF Live
    <3> QED BY <3>1, <3>2
  <2>9. e.pc = pc /\ e.snap = p /\ e.step = s
    BY <1>1 DEF ExecType
  <2> HIDE DEF e
  <2>10. ExecOrdered(e, plan', early')
    BY <2>1, <2>2, <2>4, <2>5, <2>6, <2>8, <2>9 DEF ExecOrdered, InTurn
  <2> QED BY <1>2, <2>2, <2>10
<1>9. ASSUME NEW h \in Executor, Candidate(h)
      PROVE  \A g \in Executor : ExecOrdered(exec'[g], plan', early')
  <2> DEFINE e == [exec[h] EXCEPT !.pc = "claim", !.step = ReadCurrent(plan), !.snap = BlankPlan]
  <2>1. exec[h].pc = "dispatch" /\ plan.status \in Active /\ plan' = plan /\ early' = early
        /\ exec' = [exec EXCEPT ![h] = e]
    BY <1>9 DEF Candidate, At
  <2>2. ReadCurrent(plan) \in Live(plan.steps)
    BY <1>0, <1>1, <2>1, ReadCurrentStays DEF ExecOrdered, CurrentLive
  <2>3. InTurn(plan, early, ReadCurrent(plan))
    BY <1>0, <2>1, <2>2, LiveInTurn DEF PlanHolds, StatusHolds
  <2>4. e.pc = "claim" /\ e.step = ReadCurrent(plan)
    BY <1>1 DEF ExecType
  <2> HIDE DEF e
  <2>5. ExecOrdered(e, plan', early')
    BY <2>1, <2>3, <2>4 DEF ExecOrdered
  <2> QED BY <1>2, <2>1, <2>5
<1>10. ASSUME NEW h \in Executor, InvokeStep(h)
       PROVE  \A g \in Executor : ExecOrdered(exec'[g], plan', early')
  <2> DEFINE e == [Idle EXCEPT !.pc = "claim", !.alone = TRUE, !.step = ReadCurrent(plan)]
  <2>1. e.pc = "claim" /\ e.alone
    BY DEF Idle
  <2>2. exec' = [exec EXCEPT ![h] = e]
    BY <1>10 DEF InvokeStep
  <2> HIDE DEF e
  <2>3. ExecOrdered(e, plan', early')
    BY <2>1 DEF ExecOrdered
  <2> QED BY <1>2, <2>2, <2>3
<1>11. ASSUME NEW h \in Executor, MakeCurrent(h)
       PROVE  \A g \in Executor : ExecOrdered(exec'[g], plan', early')
  <2> DEFINE e == [exec[h] EXCEPT !.pc = "dispatch", !.snap = plan']
  <2>1. exec[h].pc = "select" /\ plan'.current = exec[h].step
        /\ exec[h].snap.version = plan.version /\ plan'.steps = exec[h].snap.steps
    BY <1>1, <1>11 DEF MakeCurrent, SavePlan, Saved, At, PlanType, ExecType
  <2>2. exec[h].step \in Steps /\ exec[h].step \in ReadySteps(plan'.steps)
        /\ InTurn(plan', early', exec[h].step)
    BY <1>1, <2>1 DEF ExecHolds, ExecOrdered, AtWork, ReadySteps
  <2>3. CurrentLive(plan')
    BY <2>1, <2>2 DEF CurrentLive, Live
  <2>4. exec' = [exec EXCEPT ![h] = e] /\ e.pc = "dispatch" /\ e.step = exec[h].step
    BY <1>0, <1>1, <1>11 DEF MakeCurrent, ExecType
  <2> HIDE DEF e
  <2>5. ExecOrdered(e, plan', early')
    BY <2>2, <2>3, <2>4 DEF ExecOrdered
  <2> QED BY <1>2, <2>4, <2>5
<1>12. ASSUME NEW h \in Executor, ClaimRead(h)
       PROVE  \A g \in Executor : ExecOrdered(exec'[g], plan', early')
  <2> DEFINE e == [exec[h] EXCEPT !.pc = "claim_write", !.read = ClaimPlan(exec[h].step)]
  <2>1. exec[h].pc = "claim" /\ exec' = [exec EXCEPT ![h] = e]
    BY <1>12 DEF ClaimRead, At
  <2>2. e.pc = "claim_write" /\ e.step = exec[h].step /\ e.alone = exec[h].alone
    BY <1>1 DEF ExecType
  <2> HIDE DEF e
  <2>3. ExecOrdered(e, plan', early')
    BY <1>1, <2>1, <2>2 DEF ExecOrdered, AtWork
  <2> QED BY <1>2, <2>1, <2>3
<1>13. ASSUME NEW h \in Executor, ClaimStep(h) \/ ClaimWrite(h)
       PROVE  \A g \in Executor : ExecOrdered(exec'[g], plan', early')
  <2> DEFINE e == [exec[h] EXCEPT !.pc = "claimed", !.claim = claims + 1, !.read = NoRead]
  <2>1. exec[h].pc \in {"claim", "claim_write"} /\ exec[h].step \in Steps
    BY <1>1, <1>13 DEF ClaimStep, ClaimWrite, At, ExecHolds, AtWork
  <2>2. PICK r : r.step = exec[h].step /\ Take(h, r)
    <3>1. ClaimPlan(exec[h].step).step = exec[h].step
      BY <1>0, <2>1, ClaimPlanType
    <3> QED BY <1>1, <1>13, <3>1 DEF ClaimStep, ClaimWrite, ExecHolds, At
  <2>3. InTurn(plan', early', exec[h].step)
    BY <2>1, <2>2, TakeInOrder
  <2>4. exec' = [exec EXCEPT ![h] = e] /\ e.pc = "claimed" /\ e.step = exec[h].step
    BY <1>0, <1>1, <2>2 DEF Take, ExecType
  <2> HIDE DEF e
  <2> QED BY <1>4, <2>3, <2>4
<1>14. ASSUME NEW h \in Executor, FinishRead(h)
       PROVE  \A g \in Executor : ExecOrdered(exec'[g], plan', early')
  <2> DEFINE p == GetPlan
             st == [p.steps EXCEPT ![exec[h].step] = AdvanceStep(@, exec[h].outcome)]
             snap == [p EXCEPT !.steps = st, !.current = NextStep(st),
                               !.status = PlanStatus(st), !.action = FALSE]
             a == [exec[h] EXCEPT !.pc = "after"]
             e == [exec[h] EXCEPT !.pc = "finish_write", !.snap = snap]
  <2>1. p \in PlanType
    BY <1>0, GetPlanType
  <2>2. exec' = [exec EXCEPT ![h] = IF p.status \in TERMINAL_STATUSES THEN a ELSE e]
        /\ exec[h].pc = "finish"
    BY <1>14 DEF FinishRead, At
  <2>3. InTurn(plan', early', exec[h].step)
    BY <1>1, <2>2 DEF ExecOrdered, AtWork
  <2>4. a.pc = "after" /\ a.step = exec[h].step
    BY <1>1 DEF ExecType
  <2> HIDE DEF p, st
  <2>5. snap.steps = st /\ snap.current = NextStep(st)
    BY <2>1 DEF PlanType
  <2> HIDE DEF snap
  <2>6. e.pc = "finish_write" /\ e.snap = snap /\ e.step = exec[h].step
    BY <1>1 DEF ExecType
  <2> HIDE DEF e, a
  <2>7. ExecOrdered(e, plan', early')
    BY <2>3, <2>5, <2>6 DEF ExecOrdered
  <2>8. CASE p.status \in TERMINAL_STATUSES
    BY <1>4, <2>2, <2>3, <2>4, <2>8
  <2>9. CASE p.status \notin TERMINAL_STATUSES
    BY <1>2, <2>2, <2>7, <2>9
  <2> QED BY <2>8, <2>9
<1>15. ASSUME NEW h \in Executor,
              \/ Invoke(h) \/ FinishWrite(h) \/ FinishRetry(h)
              \/ \E o \in {"completed", "blocked", "failed"} : AgentAnswers(h, o)
       PROVE  \A g \in Executor : ExecOrdered(exec'[g], plan', early')
  <2> DEFINE e == exec'[h]
  <2>1. exec' = [exec EXCEPT ![h] = e]
    BY <1>0, <1>15 DEF Invoke, FinishWrite, FinishRetry, AgentAnswers
  <2>2. /\ exec[h].pc \in {"claimed", "finish_write", "invoking"} /\ e.step = exec[h].step
        /\ e.pc \notin {"select", "dispatch", "finish_write"}
    BY <1>0, <1>1, <1>15 DEF Invoke, FinishWrite, FinishRetry, AgentAnswers, At, ExecType
  <2>3. InTurn(plan', early', exec[h].step)
    BY <1>1, <2>2 DEF ExecOrdered, AtWork
  <2> HIDE DEF e
  <2> QED BY <1>4, <2>1, <2>2, <2>3
<1>16. ASSUME NEW h \in Executor, FinishGivesUp(h) \/ AfterInvoke(h)
       PROVE  \A g \in Executor : ExecOrdered(exec'[g], plan', early')
  <2> DEFINE a == [exec[h] EXCEPT !.pc = "after"]
             l == [Idle EXCEPT !.pc = "loop", !.resuming = exec[h].resuming]
  <2>1. a.pc = "after" /\ a.step = exec[h].step /\ exec[h].pc \in {"finish", "after"}
    BY <1>1, <1>16 DEF ExecType, FinishGivesUp, AfterInvoke, At
  <2>2. ~AtWork(l)
    BY DEF AtWork, Idle
  <2>3. InTurn(plan', early', exec[h].step)
    BY <1>1, <2>1 DEF ExecOrdered, AtWork
  <2>4. exec' \in {[exec EXCEPT ![h] = x] : x \in {a, l, Idle}}
    BY <1>16 DEF FinishGivesUp, AfterInvoke
  <2> HIDE DEF a, l
  <2> QED BY <1>3, <1>4, <2>1, <2>2, <2>3, <2>4, BlankTypes
<1> QED
  BY <1>5, <1>6, <1>7, <1>8, <1>9, <1>10, <1>11, <1>12, <1>13, <1>14, <1>15, <1>16
  DEF ClaimsNext, ExecutorStep, LoopReturn, BlockStep, Conflict, ClaimRefused, Abandon, RenewClaim,
      LeaseAges, LeaseExpires, Confirm, CancelUnstarted, ApplyEvent

(* A new Plan is in order, whichever Step it names as the current one.     *)
LEMMA OrderInitial ==
  ASSUME ClaimsInit
  PROVE  OrderInv
<1>1. PICK c \in Steps : plan = [BlankPlan EXCEPT !.version = 1, !.current = c]
  BY DEF ClaimsInit
<1>2. plan.current = c /\ plan.steps = [s \in Steps |-> "pending"]
  BY <1>1 DEF BlankPlan
<1>3. CurrentHolds(plan) /\ BegunInTurn(plan, early)
  BY <1>2 DEF CurrentHolds, BegunInTurn
<1>4. \A h \in Executor : ExecOrdered(exec[h], plan, early)
  BY DEF ClaimsInit, ExecOrdered, AtWork, Idle
<1> QED BY <1>3, <1>4 DEF OrderInv

(* ClaimsSafe, in whatever order the Plan lists its Steps and whichever it   *)
(* names as current: claims fit, the status fits, an open Plan can go on,   *)
(* and the executor calls no agent before the Steps its Step depends on.   *)
THEOREM ClaimsAreSafe == ClaimsSpec => []ClaimsSafe
<1>1. ClaimsInv /\ OrderInv /\ [ClaimsNext]_claimVars => ClaimsInv' /\ OrderInv'
  <2> SUFFICES ASSUME ClaimsInv, OrderInv, [ClaimsNext]_claimVars PROVE OrderInv'
    BY ClaimsStep
  <2>1. CASE ClaimsNext
    BY <2>1, RowOrder, ExecOrder DEF OrderInv, RowInOrder
  <2>2. CASE UNCHANGED claimVars
    BY <2>2 DEF claimVars, OrderInv
  <2> QED BY <2>1, <2>2
<1>2. ClaimsInv /\ OrderInv => ClaimsSafe
  <2> SUFFICES ASSUME ClaimsInv, OrderInv PROVE ClaimsSafe
    OBVIOUS
  <2>1. ClaimFits
    BY DEF ClaimsInv, PlanHolds, ClaimHolds, ClaimFits
  <2>2. StatusFits
    BY SomethingToDo DEF ClaimsInv, PlanHolds, StatusHolds, StatusFits, OrderInv, Open, Some, Settles
  <2>3. DependenciesFirst
    BY DEF OrderInv, ExecOrdered, AtWork, InTurn, DependenciesFirst
  <2> QED BY <2>1, <2>2, <2>3 DEF ClaimsSafe
<1> QED BY <1>1, <1>2, ClaimsInitial, OrderInitial, PTL DEF ClaimsSpec

-----------------------------------------------------------------------------
(* Routing.                                                                *)

Statuses == {"none", "pending", "running", "blocked", "completed"}
PolicyNames == {"none", "auto_execute", "require_confirmation", "host_managed"}
AllActions == DirectActions \cup AgentActions \cup {"show_plan"}
Names == Agent \cup {NoAgent} \cup {q.current : q \in Requests}
Words == Texts \cup {"fixed", "known", "plan"}

AnswerType ==
  [action : AllActions, target : Names, relation : {"multi_task", "other"}, current : Names,
   confidence : Confidences, text : Words, plan : PlanIds \cup {NoPlan}, agents : Seq(Agent),
   version : Nat, planPolicy : PolicyNames, planStatus : Statuses, policy : PolicyNames,
   invocation : Names]

PlanRow ==
  [status : Statuses, agents : Seq(Agent), done : Nat, version : Nat, policy : PolicyNames,
   session : BOOLEAN]

(* What every stage of the corrections keeps of an answer: an agent that   *)
(* is opened is one, and Plans come with their steps.                      *)
Shaped(h, active, out) ==
  /\ out \in AnswerType
  /\ out.action \in AgentActions => out.target \in Agent
  /\ out.plan = NoPlan => out.agents = <<>> /\ out.policy = "none" /\ out.action # "show_plan"
  /\ out.plan # NoPlan => out.plan \in {h, active} /\ out.agents # <<>>
  /\ out.version = 0 /\ out.planStatus = "pending"

(* Blank answers are shaped.                                               *)
LEMMA BlankShaped ==
  ASSUME NEW h \in Attempt, NEW active
  PROVE  Shaped(h, active, Blank) /\ Blank.action = "unsupported" /\ Blank.target = NoAgent
         /\ Blank.plan = NoPlan /\ Blank.confidence = "high" /\ Blank.invocation = NoAgent
<1>1. <<>> \in Seq(Agent) BY EmptySeq
<1> DEFINE nothing == <<>>
<1>2. Blank = [action |-> "unsupported", target |-> NoAgent, relation |-> "other",
          current |-> NoAgent, confidence |-> "high", text |-> "fixed", plan |-> NoPlan,
          agents |-> nothing, version |-> 0, planPolicy |-> "none", planStatus |-> "pending",
          policy |-> "none", invocation |-> NoAgent]
  BY DEF Blank
<1>3. nothing \in Seq(Agent) /\ nothing = <<>> BY <1>1
<1> HIDE DEF nothing
<1>4. Blank \in AnswerType
  BY <1>2, <1>3 DEF AnswerType, AllActions, DirectActions, Names, Confidences, Words, PolicyNames,
    Statuses
<1> QED BY <1>2, <1>3, <1>4 DEF Shaped, AgentActions

(* The agents of a Plan made for a text that orders its parts.             *)
LEMMA ListsCandidates ==
  ASSUME NEW S, IsFiniteSet(S), Cardinality(S) > 1
  PROVE  SetToSeq(S) \in Seq(S) /\ Len(SetToSeq(S)) = Cardinality(S) /\ SetToSeq(S) # <<>>
<1> DEFINE n == Cardinality(S)
<1>1. n \in Nat /\ ExistsBijection(1..n, S) BY FS_CardinalityType
<1>2. \E f \in [1..n -> S] : IsInjective(f)
  BY <1>1 DEF ExistsBijection, Bijection, Injection, IsInjective
<1>3. SetToSeq(S) \in [1..n -> S] BY <1>2 DEF SetToSeq
<1> HIDE DEF n
<1>4. SetToSeq(S) \in Seq(S) BY <1>1, <1>3, SeqDef
<1>5. DOMAIN SetToSeq(S) = 1..n /\ DOMAIN SetToSeq(S) = 1..Len(SetToSeq(S))
  BY <1>3, <1>4, LenProperties
<1>6. Len(SetToSeq(S)) = n BY <1>1, <1>4, <1>5
<1>7. SetToSeq(S) # <<>> BY <1>4, <1>6, EmptySeq DEF n
<1> QED BY <1>4, <1>6, <1>7 DEF n

(* A denied answer names nobody.                                           *)
LEMMA DeniedShaped ==
  ASSUME NEW h \in Attempt, NEW active, NEW out \in AnswerType
  PROVE  Shaped(h, active, Denied(out)) /\ Denied(out).confidence = out.confidence
         /\ Denied(out).action = "unsupported"
<1> DEFINE b == Denied(out)
<1>1. b = [Blank EXCEPT !.confidence = out.confidence, !.current = NoAgent] BY DEF Denied
<1>2. Shaped(h, active, Blank) /\ Blank.action = "unsupported" BY BlankShaped
<1>3. Blank \in AnswerType BY <1>2 DEF Shaped
<1>4. b \in AnswerType BY <1>1, <1>3 DEF AnswerType, Names
<1>5. /\ b.action = Blank.action /\ b.target = Blank.target /\ b.plan = Blank.plan
      /\ b.agents = Blank.agents /\ b.policy = Blank.policy /\ b.version = Blank.version
      /\ b.planStatus = Blank.planStatus /\ b.confidence = out.confidence
  BY <1>1, <1>3 DEF AnswerType
<1> HIDE DEF b
<1>6. Shaped(h, active, b) BY <1>2, <1>4, <1>5 DEF Shaped
<1> QED BY <1>2, <1>5, <1>6 DEF b

(* Continuing an agent that is not in use becomes opening it, or nothing.  *)
LEMMA NormalizedShaped ==
  ASSUME NEW h \in Attempt, NEW active, NEW out, Shaped(h, active, out), NEW request, NEW candidates
  PROVE  /\ Shaped(h, active, NormalizeContinuation(out, request, candidates))
         /\ NormalizeContinuation(out, request, candidates).confidence = out.confidence
<1> DEFINE b == NormalizeContinuation(out, request, candidates)
           opened == [out EXCEPT !.action = "open_agent", !.relation = "other", !.current = NoAgent]
<1>1. out \in AnswerType BY DEF Shaped
<1>2. b = out \/ b = Denied(out) \/ (b = opened /\ out.action = "continue_agent")
  BY DEF NormalizeContinuation
<1>3. CASE b = out BY <1>3
<1>4. CASE b = Denied(out) BY <1>1, <1>4, DeniedShaped
<1>5. CASE b = opened /\ out.action = "continue_agent"
  <2>1. opened \in AnswerType BY <1>1 DEF AnswerType, AllActions, AgentActions, Names
  <2>2. /\ opened.action = "open_agent" /\ opened.target = out.target /\ opened.plan = out.plan
        /\ opened.agents = out.agents /\ opened.policy = out.policy
        /\ opened.version = out.version /\ opened.planStatus = out.planStatus
        /\ opened.confidence = out.confidence
    BY <1>1 DEF AnswerType
  <2> HIDE DEF opened
  <2>3. Shaped(h, active, opened) BY <1>5, <2>1, <2>2 DEF Shaped, AgentActions
  <2> QED BY <1>5, <2>2, <2>3
<1> QED BY <1>2, <1>3, <1>4, <1>5

(* Leaving an agent names it.                                              *)
LEMMA ExitShaped ==
  ASSUME NEW h \in Attempt, NEW active, NEW out, Shaped(h, active, out), NEW request \in Requests
  PROVE  /\ Shaped(h, active, BindExitTarget(out, request))
         /\ BindExitTarget(out, request).confidence = out.confidence
<1> DEFINE b == [out EXCEPT !.target = request.current]
<1>1. out \in AnswerType BY DEF Shaped
<1>2. \/ BindExitTarget(out, request) = out
      \/ BindExitTarget(out, request) = b /\ out.action = "exit_agent"
  BY DEF BindExitTarget
<1>3. b \in AnswerType BY <1>1 DEF AnswerType, Names
<1>4. /\ b.action = out.action /\ b.plan = out.plan /\ b.agents = out.agents
      /\ b.policy = out.policy /\ b.version = out.version /\ b.planStatus = out.planStatus
      /\ b.confidence = out.confidence
  BY <1>1 DEF AnswerType
<1> HIDE DEF b
<1>5. out.action = "exit_agent" => Shaped(h, active, b)
  BY <1>3, <1>4 DEF Shaped, AgentActions
<1> QED BY <1>2, <1>4, <1>5

(* A text with several tasks gets a Plan over the agents on offer.         *)
LEMMA PlannedShaped ==
  ASSUME NEW h \in Attempt, NEW active, NEW out, Shaped(h, active, out), NEW request,
         NEW candidates \in SUBSET Agent, IsFiniteSet(candidates)
  PROVE  /\ Shaped(h, active, EnsurePlan(h, out, request, candidates))
         /\ EnsurePlan(h, out, request, candidates).confidence = out.confidence
<1> DEFINE agents == SetToSeq(candidates)
           action == IF out.action \in AgentActions THEN "reply" ELSE out.action
           b == [out EXCEPT !.action = action, !.target = NoAgent, !.plan = h,
                            !.invocation = NoAgent, !.agents = agents, !.policy = "none",
                            !.planPolicy = "none"]
<1>1. out \in AnswerType BY DEF Shaped
<1>2. \/ EnsurePlan(h, out, request, candidates) = out
      \/ EnsurePlan(h, out, request, candidates) = b /\ Cardinality(candidates) > 1
  BY DEF EnsurePlan
<1>3. CASE Cardinality(candidates) > 1
  <2>1. agents \in Seq(candidates) /\ agents # <<>> BY <1>3, ListsCandidates
  <2>2. agents \in Seq(Agent) BY <2>1, SeqMonotonic
  <2>3. action \in AllActions /\ action \notin AgentActions
    BY <1>1 DEF AnswerType, AllActions, DirectActions, AgentActions
  <2>4. h \in PlanIds BY DEF PlanIds
  <2> HIDE DEF agents, action
  <2>5. b \in AnswerType BY <1>1, <2>2, <2>3, <2>4 DEF AnswerType, Names, PolicyNames
  <2>6. /\ b.action = action /\ b.plan = h /\ b.agents = agents
        /\ b.version = out.version /\ b.planStatus = out.planStatus
        /\ b.confidence = out.confidence
    BY <1>1 DEF AnswerType
  <2>7. h # NoPlan BY RoutingAssumption
  <2> HIDE DEF b
  <2>8. Shaped(h, active, b) BY <2>1, <2>3, <2>5, <2>6, <2>7 DEF Shaped
  <2> QED BY <1>2, <2>6, <2>8
<1>4. CASE ~(Cardinality(candidates) > 1) BY <1>2, <1>4
<1> QED BY <1>3, <1>4

(* A Plan over agents the user may not use is denied.                      *)
LEMMA PlanDeniedShaped ==
  ASSUME NEW h \in Attempt, NEW active, NEW out, Shaped(h, active, out), NEW candidates
  PROVE  /\ Shaped(h, active, DenyPlanAgents(out, candidates))
         /\ DenyPlanAgents(out, candidates).confidence = out.confidence
<1>1. out \in AnswerType BY DEF Shaped
<1>2. DenyPlanAgents(out, candidates) = out \/ DenyPlanAgents(out, candidates) = Denied(out)
  BY DEF DenyPlanAgents
<1> QED BY <1>1, <1>2, DeniedShaped

(* A Plan of one step is that step.                                        *)
LEMMA CollapsedShaped ==
  ASSUME NEW h \in Attempt, NEW active, NEW out, Shaped(h, active, out), NEW request
  PROVE  /\ Shaped(h, active, Collapse(out, request))
         /\ Collapse(out, request).confidence = out.confidence
<1> DEFINE action == IF request.current = out.agents[1] THEN "continue_agent" ELSE "open_agent"
           b == [Blank EXCEPT !.action = action, !.target = out.agents[1],
                              !.confidence = out.confidence, !.current = out.current]
<1>1. out \in AnswerType BY DEF Shaped
<1>2. \/ Collapse(out, request) = out
      \/ Collapse(out, request) = b /\ Len(out.agents) = 1
  BY DEF Collapse
<1>3. Len(out.agents) = 1 => out.agents[1] \in Agent BY <1>1, ElementOfSeq DEF AnswerType
<1>4. action \in AgentActions BY DEF AgentActions
<1>5. Shaped(h, active, Blank) /\ Blank.plan = NoPlan BY BlankShaped
<1>6. Blank \in AnswerType BY <1>5 DEF Shaped
<1> HIDE DEF action
<1>7. CASE Len(out.agents) = 1
  <2> DEFINE one == out.agents[1]
  <2>1. one \in Agent BY <1>3, <1>7
  <2> HIDE DEF one
  <2>2. b = [Blank EXCEPT !.action = action, !.target = one,
                              !.confidence = out.confidence, !.current = out.current]
    BY DEF one
  <2> HIDE DEF b
  <2>3. b \in AnswerType BY <1>1, <1>4, <1>6, <2>1, <2>2 DEF AnswerType, AllActions, Names
  <2>4. /\ b.action = action /\ b.target = one /\ b.plan = Blank.plan /\ b.agents = Blank.agents
        /\ b.policy = Blank.policy /\ b.version = Blank.version
        /\ b.planStatus = Blank.planStatus /\ b.confidence = out.confidence
    BY <1>6, <2>2 DEF AnswerType
  <2>5. action # "show_plan" BY <1>4 DEF AgentActions
  <2>6. Shaped(h, active, b) BY <1>5, <2>1, <2>3, <2>4, <2>5 DEF Shaped
  <2> QED BY <1>2, <2>4, <2>6 
<1>8. CASE Len(out.agents) # 1 BY <1>2, <1>8
<1> QED BY <1>7, <1>8

(* What the corrections end with.                                          *)
Permitted(out) == out.policy = "auto_execute" => AutoAllowed

(* Only where it is allowed does a Plan start by itself.                   *)
LEMMA PolicyShaped ==
  ASSUME NEW h \in Attempt, NEW active, NEW out, Shaped(h, active, out)
  PROVE  /\ Shaped(h, active, PlanPolicy(out)) /\ PlanPolicy(out).confidence = out.confidence
         /\ Permitted(PlanPolicy(out))
<1> DEFINE asked == IF out.policy # "none" THEN out.policy ELSE "require_confirmation"
           policy == IF asked = "auto_execute" /\ ~AutoAllowed THEN "require_confirmation"
                     ELSE asked
           b == [out EXCEPT !.policy = policy, !.planPolicy = policy]
<1>1. out \in AnswerType BY DEF Shaped
<1>2. PlanPolicy(out) = IF out.plan = NoPlan THEN out ELSE b BY DEF PlanPolicy
<1>3. policy \in PolicyNames /\ (policy = "auto_execute" => AutoAllowed)
  BY <1>1 DEF AnswerType, PolicyNames
<1> HIDE DEF policy
<1>4. b \in AnswerType BY <1>1, <1>3 DEF AnswerType
<1>5. /\ b.action = out.action /\ b.target = out.target /\ b.plan = out.plan
      /\ b.agents = out.agents /\ b.policy = policy /\ b.version = out.version
      /\ b.planStatus = out.planStatus /\ b.confidence = out.confidence
  BY <1>1 DEF AnswerType
<1> HIDE DEF b
<1>6. out.plan # NoPlan => Shaped(h, active, b) BY <1>4, <1>5 DEF Shaped
<1>7. out.plan = NoPlan => Permitted(out) BY DEF Shaped, Permitted
<1> QED BY <1>2, <1>3, <1>5, <1>6, <1>7 DEF Permitted

(* The corrections keep an answer in shape and its confidence as it was.   *)
LEMMA CorrectedShaped ==
  ASSUME NEW h \in Attempt, NEW active, NEW out, Shaped(h, active, out), NEW request \in Requests,
         NEW candidates \in SUBSET Agent, IsFiniteSet(candidates)
  PROVE  /\ Shaped(h, active, Corrected(h, out, request, candidates))
         /\ Corrected(h, out, request, candidates).confidence = out.confidence
         /\ Permitted(Corrected(h, out, request, candidates))
<1> DEFINE o1 == NormalizeContinuation(out, request, candidates)
           o2 == BindExitTarget(o1, request)
           o3 == EnsurePlan(h, o2, request, candidates)
           o4 == DenyPlanAgents(o3, candidates)
           o5 == Collapse(o4, request)
           o6 == NormalizeContinuation(o5, request, candidates)
<1>1. Shaped(h, active, o1) /\ o1.confidence = out.confidence BY NormalizedShaped
<1> HIDE DEF o1
<1>2. Shaped(h, active, o2) /\ o2.confidence = out.confidence BY <1>1, ExitShaped
<1> HIDE DEF o2
<1>3. Shaped(h, active, o3) /\ o3.confidence = out.confidence BY <1>2, PlannedShaped
<1> HIDE DEF o3
<1>4. Shaped(h, active, o4) /\ o4.confidence = out.confidence BY <1>3, PlanDeniedShaped
<1> HIDE DEF o4
<1>5. Shaped(h, active, o5) /\ o5.confidence = out.confidence BY <1>4, CollapsedShaped
<1> HIDE DEF o5
<1>6. Shaped(h, active, o6) /\ o6.confidence = out.confidence BY <1>5, NormalizedShaped
<1>7. Corrected(h, out, request, candidates) = PlanPolicy(o6)
  BY DEF Corrected, o1, o2, o3, o4, o5
<1> HIDE DEF o6
<1> QED BY <1>6, <1>7, PolicyShaped
-----------------------------------------------------------------------------
(* Decisions.                                                              *)

(* What an answer may be, whatever decided it: agents are on offer, one    *)
(* that lacks an input is not opened, an unsure answer does nothing.       *)
GoodAnswer(out, candidates, request, unsure) ==
  /\ out \in AnswerType
  /\ out.target = NoAgent \/ out.target \in candidates
  /\ Within(out.agents, candidates)
  /\ out.action \in AgentActions =>
       /\ out.target \notin request.missing
       /\ out.invocation = out.target
       /\ out.target \in Agent
  /\ Permitted(out)
  /\ unsure => out.action \notin AgentActions \cup {"show_plan", "reply"}
  /\ out.plan = NoPlan => out.action # "show_plan"

(* Nobody is in an empty list.                                             *)
LEMMA NobodyWithin == \A candidates : Within(<<>>, candidates)
<1>1. DOMAIN <<>> = {} BY EmptySeq, LenProperties
<1> QED BY <1>1 DEF Within, ToSet

(* The steps the model may name are a sequence.                            *)
LEMMA OneStep == ASSUME NEW S, NEW a \in S PROVE <<a>> \in Seq(S) /\ <<a>> # <<>>
OBVIOUS

(* So are two.                                                             *)
LEMMA TwoSteps ==
  ASSUME NEW S, NEW a \in S, NEW b \in S PROVE <<a, b>> \in Seq(S) /\ <<a, b>> # <<>>
OBVIOUS

(* Whichever the model named.                                              *)
LEMMA OneOrTwo == ASSUME NEW s \in StepLists PROVE s \in Seq(Agent) /\ s # <<>>
<1>1. CASE \E a \in Agent : s = <<a>> BY <1>1, OneStep
<1>2. CASE s \in Agent \X Agent
  <2>1. s = <<s[1], s[2]>> /\ s[1] \in Agent /\ s[2] \in Agent BY <1>2
  <2>2. PICK a \in Agent, b \in Agent : s = <<a, b>> BY <2>1, Zenon
  <2> QED BY <2>2, TwoSteps
<1> QED BY <1>1, <1>2 DEF StepLists

(* The model's schema lets only answers in shape pass.                     *)
LEMMA OutputsShaped ==
  ASSUME NEW h \in Attempt, attempt[h].request \in Requests,
         attempt[h].active \in PlanIds \cup {NoPlan},
         NEW out \in DirectOutputs \cup AgentOutputs \cup PlanOutputs(h)
  PROVE  Shaped(h, attempt[h].active, out)
<1> DEFINE active == attempt[h].active
           blank == Blank
<1>1. Shaped(h, active, blank) /\ blank.plan = NoPlan BY BlankShaped
<1>2. blank \in AnswerType BY <1>1 DEF Shaped
<1>3. CASE out \in DirectOutputs
  <2>1. PICK action \in DirectActions, text \in Texts, relation \in {"multi_task", "other"},
             c \in Confidences, inv \in Agent \cup {NoAgent} :
          out = Direct(action, text, relation, c, inv)
    BY <1>3 DEF DirectOutputs
  <2>a. out = [blank EXCEPT !.action = action, !.text = text, !.relation = relation,
                            !.confidence = c, !.invocation = inv]
    BY <2>1 DEF Direct
  <2> HIDE DEF blank
  <2>2. out \in AnswerType BY <1>2, <2>a DEF AnswerType, AllActions, Names, Words
  <2>3. /\ out.action = action /\ out.target = blank.target /\ out.plan = blank.plan
        /\ out.agents = blank.agents /\ out.policy = blank.policy
        /\ out.version = blank.version /\ out.planStatus = blank.planStatus
    BY <1>2, <2>a DEF AnswerType
  <2>4. action \notin AgentActions \cup {"show_plan"} BY DEF DirectActions, AgentActions
  <2> QED BY <1>1, <2>2, <2>3, <2>4 DEF Shaped
<1>4. CASE \E target \in Agent, c \in Confidences, relation \in {"multi_task", "other"} :
                 out = Opens(target, c, relation)
  <2>1. PICK target \in Agent, c \in Confidences, relation \in {"multi_task", "other"} :
                 out = Opens(target, c, relation)
    BY <1>4
  <2>a. out = [blank EXCEPT !.action = "open_agent", !.target = target, !.confidence = c,
                            !.relation = relation]
    BY <2>1 DEF Opens
  <2> HIDE DEF blank
  <2>2. out \in AnswerType
    BY <1>2, <2>a DEF AnswerType, AllActions, AgentActions, Names, Words
  <2>3. /\ out.action = "open_agent" /\ out.target = target /\ out.plan = blank.plan
        /\ out.agents = blank.agents /\ out.policy = blank.policy
        /\ out.version = blank.version /\ out.planStatus = blank.planStatus
    BY <1>2, <2>a DEF AnswerType
  <2> QED BY <1>1, <2>2, <2>3 DEF Shaped
<1>5. CASE \E target \in Agent, c \in Confidences : out = Continues(target, c)
  <2>1. PICK target \in Agent, c \in Confidences : out = Continues(target, c)
    BY <1>5
  <2>a. out = [blank EXCEPT !.action = "continue_agent", !.target = target,
                            !.current = target, !.confidence = c]
    BY <2>1 DEF Continues
  <2> HIDE DEF blank
  <2>2. out \in AnswerType
    BY <1>2, <2>a DEF AnswerType, AllActions, AgentActions, Names, Words
  <2>3. /\ out.action = "continue_agent" /\ out.target = target /\ out.plan = blank.plan
        /\ out.agents = blank.agents /\ out.policy = blank.policy
        /\ out.version = blank.version /\ out.planStatus = blank.planStatus
    BY <1>2, <2>a DEF AnswerType
  <2> QED BY <1>1, <2>2, <2>3 DEF Shaped
<1>6. CASE out \in PlanOutputs(h)
  <2>1. PICK action \in PlanActions, p \in {h, active} \ {NoPlan},
             agents \in StepLists,
             policy \in Policies, c \in Confidences,
             current \in {attempt[h].request.current, NoAgent} :
          out = Proposes(action, p, agents, policy, c, current)
    BY <1>6 DEF PlanOutputs
  <2>2. agents \in Seq(Agent) /\ agents # <<>> BY OneOrTwo DEF StepLists
  <2>3. /\ p \in PlanIds \cup {NoPlan} /\ policy \in PolicyNames /\ current \in Names
        /\ action \in AllActions /\ action \notin AgentActions
    BY RoutingAssumption DEF PlanIds, PolicyNames, Names, AllActions, DirectActions, AgentActions
  <2>a. out = [blank EXCEPT !.action = action, !.plan = p, !.agents = agents,
                   !.policy = policy, !.planPolicy = policy, !.confidence = c,
                   !.text = "plan", !.current = current]
    BY <2>1 DEF Proposes
  <2> HIDE DEF blank
  <2>4. out \in AnswerType BY <1>2, <2>a, <2>2, <2>3 DEF AnswerType, Words
  <2>5. /\ out.action = action /\ out.target = blank.target /\ out.plan = p
        /\ out.agents = agents
        /\ out.version = blank.version /\ out.planStatus = blank.planStatus
    BY <1>2, <2>a DEF AnswerType
  <2> QED BY <1>1, <2>2, <2>3, <2>4, <2>5 DEF Shaped
<1>7. CASE out \in AgentOutputs BY <1>4, <1>5, <1>7 DEF AgentOutputs
<1> QED BY <1>3, <1>6, <1>7

(* The answer to an unsure decision asks.                                  *)
LEMMA ClarifiedShaped ==
  ASSUME NEW h \in Attempt, NEW active, NEW out, Shaped(h, active, out), Permitted(out),
         NEW candidates, out.target = NoAgent \/ out.target \in candidates,
         out.plan # NoPlan => Within(out.agents, candidates)
  PROVE  LET b == ClarifyOnLowConfidence(out)
         IN  /\ Shaped(h, active, b) /\ Permitted(b)
             /\ b.target = NoAgent \/ b.target \in candidates
             /\ b.plan # NoPlan => Within(b.agents, candidates)
             /\ out.confidence = "low" => b.action \notin AgentActions \cup {"show_plan", "reply"}
<1> DEFINE asked == [Blank EXCEPT !.action = "clarify", !.confidence = out.confidence,
                       !.current = out.current, !.relation = out.relation]
<1>1. out \in AnswerType BY DEF Shaped
<1>2. \/ ClarifyOnLowConfidence(out) = asked
      \/ /\ ClarifyOnLowConfidence(out) = out
         /\ out.confidence # "low" \/ out.action \in {"clarify", "unsupported", "silent", "exit_agent"}
  BY DEF ClarifyOnLowConfidence
<1>3. Shaped(h, active, Blank) /\ Blank.plan = NoPlan /\ Blank.target = NoAgent BY BlankShaped
<1>4. Blank \in AnswerType BY <1>3 DEF Shaped
<1>5. asked \in AnswerType BY <1>1, <1>4 DEF AnswerType, AllActions, DirectActions
<1>6. /\ asked.action = "clarify" /\ asked.target = Blank.target /\ asked.plan = Blank.plan
      /\ asked.agents = Blank.agents /\ asked.policy = Blank.policy
      /\ asked.version = Blank.version /\ asked.planStatus = Blank.planStatus
  BY <1>4 DEF AnswerType
<1> HIDE DEF asked
<1>7. Shaped(h, active, asked) BY <1>3, <1>5, <1>6 DEF Shaped, AgentActions
<1>8. Permitted(asked) BY <1>3, <1>6 DEF Shaped, Permitted
<1>9. CASE ClarifyOnLowConfidence(out) = asked
  BY <1>3, <1>6, <1>7, <1>8, <1>9 DEF AgentActions
<1>10. CASE /\ ClarifyOnLowConfidence(out) = out
            /\ out.confidence # "low" \/ out.action \in {"clarify", "unsupported", "silent", "exit_agent"}
  BY <1>10 DEF AgentActions
<1> QED BY <1>2, <1>9, <1>10

(* An agent whose inputs are missing is not invoked.                       *)
LEMMA AttachedGood ==
  ASSUME NEW out \in AnswerType, NEW request, NEW candidates, NEW unsure \in BOOLEAN,
         out.target = NoAgent \/ out.target \in candidates, Within(out.agents, candidates),
         out.action \in AgentActions => out.target \in Agent,
         Permitted(out), unsure => out.action \notin AgentActions \cup {"show_plan", "reply"},
         out.plan = NoPlan => out.action # "show_plan"
  PROVE  LET b == AttachInvocation(request, out)
         IN  /\ GoodAnswer(b, candidates, request, unsure)
             /\ b.plan = out.plan /\ b.agents = out.agents /\ b.version = out.version
             /\ b.planStatus = out.planStatus /\ b.planPolicy = out.planPolicy
<1> DEFINE asked == [out EXCEPT !.action = "clarify", !.target = NoAgent, !.text = "fixed",
                                !.invocation = NoAgent]
           invoked == [out EXCEPT !.invocation = out.target]
<1>1. CASE out.action \notin AgentActions
  <2>1. AttachInvocation(request, out) = out BY <1>1 DEF AttachInvocation
  <2> QED BY <1>1, <2>1 DEF GoodAnswer
<1>2. CASE out.action \in AgentActions /\ out.target \in request.missing
  <2>1. AttachInvocation(request, out) = asked BY <1>2 DEF AttachInvocation
  <2>2. asked \in AnswerType
    BY DEF AnswerType, AllActions, DirectActions, Names, Words
  <2>3. /\ asked.action = "clarify" /\ asked.target = NoAgent /\ asked.plan = out.plan
        /\ asked.agents = out.agents /\ asked.version = out.version
        /\ asked.planStatus = out.planStatus /\ asked.planPolicy = out.planPolicy
        /\ asked.policy = out.policy
    BY DEF AnswerType
  <2> HIDE DEF asked
  <2> QED BY <2>1, <2>2, <2>3 DEF GoodAnswer, AgentActions, Permitted
<1>3. CASE out.action \in AgentActions /\ out.target \notin request.missing
  <2>1. AttachInvocation(request, out) = invoked BY <1>3 DEF AttachInvocation
  <2>2. invoked \in AnswerType BY DEF AnswerType
  <2>3. /\ invoked.action = out.action /\ invoked.target = out.target /\ invoked.plan = out.plan
        /\ invoked.agents = out.agents /\ invoked.version = out.version
        /\ invoked.planStatus = out.planStatus /\ invoked.planPolicy = out.planPolicy
        /\ invoked.policy = out.policy /\ invoked.invocation = out.target
    BY DEF AnswerType
  <2> HIDE DEF invoked
  <2> QED BY <1>3, <2>1, <2>2, <2>3 DEF GoodAnswer, Permitted
<1> QED BY <1>1, <1>2, <1>3

(* What is left out of an answer is not looked at again.                   *)
LEMMA KeptGood ==
  ASSUME NEW out, NEW candidates, NEW request, NEW unsure \in BOOLEAN,
         GoodAnswer(out, candidates, request, unsure)
  PROVE  /\ GoodAnswer(Kept(out), candidates, request, unsure)
         /\ Kept(out).plan = out.plan /\ Kept(out).agents = out.agents
         /\ Kept(out).version = out.version /\ Kept(out).planStatus = out.planStatus
<1> DEFINE b == Kept(out)
<1>1. out \in AnswerType BY DEF GoodAnswer
<1>2. b = [out EXCEPT !.relation = "other", !.current = NoAgent, !.confidence = "high"]
  BY DEF Kept
<1> HIDE DEF b
<1>3. b \in AnswerType BY <1>1, <1>2 DEF AnswerType, Names, Confidences
<1>4. /\ b.action = out.action /\ b.target = out.target /\ b.plan = out.plan
      /\ b.agents = out.agents /\ b.version = out.version /\ b.planStatus = out.planStatus
      /\ b.policy = out.policy /\ b.invocation = out.invocation
  BY <1>1, <1>2 DEF AnswerType
<1>5. GoodAnswer(b, candidates, request, unsure) BY <1>3, <1>4 DEF GoodAnswer, Permitted
<1> QED BY <1>4, <1>5 DEF b

(* Whatever the model returns, what is left of it is a good answer, and a  *)
(* Plan in it is new or the one the model was shown.                       *)
LEMMA ModelAnswersGood ==
  ASSUME NEW h \in Attempt, attempt[h].request \in Requests,
         attempt[h].active \in PlanIds \cup {NoPlan},
         attempt[h].candidates \in SUBSET Agent, IsFiniteSet(attempt[h].candidates),
         NEW out \in DirectOutputs \cup AgentOutputs \cup PlanOutputs(h),
         NEW unsure \in BOOLEAN, unsure <=> out.confidence = "low",
         Valid(Corrected(h, out, attempt[h].request, attempt[h].candidates),
               attempt[h].request, attempt[h].candidates)
  PROVE  LET b == Kept(AttachInvocation(attempt[h].request, ClarifyOnLowConfidence(
                         Corrected(h, out, attempt[h].request, attempt[h].candidates))))
         IN  /\ GoodAnswer(b, attempt[h].candidates, attempt[h].request, unsure)
             /\ b.plan # NoPlan => b.plan \in {h, attempt[h].active} /\ b.agents # <<>>
             /\ b.version = 0 /\ b.planStatus = "pending"
<1> DEFINE active == attempt[h].active
           request == attempt[h].request
           candidates == attempt[h].candidates
           fixed == Corrected(h, out, request, candidates)
           asked == ClarifyOnLowConfidence(fixed)
           sent == AttachInvocation(request, asked)
<1>1. Shaped(h, active, out) BY OutputsShaped
<1>2. Shaped(h, active, fixed) /\ fixed.confidence = out.confidence /\ Permitted(fixed)
  BY <1>1, CorrectedShaped
<1>3. /\ fixed.target = NoAgent \/ fixed.target \in candidates
      /\ fixed.plan # NoPlan => Within(fixed.agents, candidates)
  BY DEF Valid, ValidTarget
<1> HIDE DEF fixed
<1>4. /\ Shaped(h, active, asked) /\ Permitted(asked)
      /\ asked.target = NoAgent \/ asked.target \in candidates
      /\ asked.plan # NoPlan => Within(asked.agents, candidates)
      /\ unsure => asked.action \notin AgentActions \cup {"show_plan", "reply"}
  BY <1>2, <1>3, ClarifiedShaped
<1> HIDE DEF asked
<1>5. Within(asked.agents, candidates) BY <1>4, NobodyWithin DEF Shaped
<1>6. /\ GoodAnswer(sent, candidates, request, unsure)
      /\ sent.plan = asked.plan /\ sent.agents = asked.agents /\ sent.version = asked.version
      /\ sent.planStatus = asked.planStatus
  BY <1>4, <1>5, AttachedGood DEF Shaped
<1> HIDE DEF sent
<1>7. /\ GoodAnswer(Kept(sent), candidates, request, unsure)
      /\ Kept(sent).plan = sent.plan /\ Kept(sent).agents = sent.agents
      /\ Kept(sent).version = sent.version /\ Kept(sent).planStatus = sent.planStatus
  BY <1>6, KeptGood
<1> QED BY <1>4, <1>6, <1>7 DEF sent, asked, fixed, Shaped-----------------------------------------------------------------------------
(* Routing: the inductive invariant.                                       *)

AttemptPcs ==
  {"new", "load", "decide", "after", "attach", "attaching", "completing", "returned", "failed"}
AnsweredPcs == {"after", "attach", "attaching", "completing", "returned"}
Finals ==
  {<<>>} \cup ((AllActions \cup {"agent_result"}) \X (Words \cup {"x"}))
AttemptRec ==
  [pc : AttemptPcs, request : Requests \cup {<<>>}, candidates : Candidates \cup {{}},
   active : PlanIds \cup {NoPlan}, read : PlanRow \cup {NoStoredPlan}, out : AnswerType,
   seen : Nat, unsure : BOOLEAN]
TurnRec ==
  [status : {"none", "routing", "running", "blocked", "completed"}, version : Nat,
   request : Requests \cup {<<>>}, plan : PlanIds \cup {NoPlan}, final : Finals, agent : Names]

(* A stored Plan has steps; an open one has a current step.                *)
RowOK(row) ==
  /\ row.status = "none" => row.done = 0 /\ row.version = 0
  /\ row.status # "none" => row.version > 0 /\ row.agents # <<>>
  /\ row.status \in OpenStatuses => row.done < Len(row.agents)

(* A Plan as it was read: its steps are for good, and at the same version   *)
(* it is as it was.                                                        *)
ReadOf(read, row) ==
  /\ read \in PlanRow /\ RowOK(read) /\ read.status # "none"
  /\ read.agents = row.agents /\ read.version <= row.version
  /\ read.version = row.version => read = row

(* An answer with a Plan: one of the attempt's own, or one that is stored, *)
(* as the model named it or as it was read.                                *)
Fresh(h, a) ==
  /\ a.out.plan = h /\ a.out.agents # <<>> /\ a.out.planStatus = "pending" /\ a.read.done = 0
Known(a, P) ==
  /\ a.out.plan \in PlanIds /\ P[a.out.plan].status # "none"
  /\ Within(P[a.out.plan].agents, a.candidates)
  /\ \/ a.out.version = 0
     \/ /\ ReadOf(a.read, P[a.out.plan])
        /\ a.out.version = a.read.version /\ a.out.agents = a.read.agents
        /\ a.out.planStatus # "none"
        /\ a.out.planStatus \in OpenStatuses => a.read.status \in OpenStatuses

PlanSide(h, a, P) ==
  /\ a.pc \in {"new", "load", "decide", "after"} => P[h].status = "none"
  /\ a.pc = "decide" /\ a.active # NoPlan =>
       /\ P[a.active].status # "none" /\ ReadOf(a.read, P[a.active])
       /\ Within(P[a.active].agents, a.candidates)
  /\ a.pc = "after" /\ a.out.plan # NoPlan => Fresh(h, a) \/ Known(a, P)
  /\ a.pc \in {"attach", "attaching"} => a.out.plan # NoPlan
  /\ a.pc \in {"attach", "attaching", "returned"} /\ a.out.plan # NoPlan =>
       P[a.out.plan].status # "none"

AnswerSide(a) ==
  /\ a.pc \in AnsweredPcs => GoodAnswer(a.out, a.candidates, a.request, a.unsure)
  /\ a.pc \in {"new", "load"} => a.out = Blank /\ a.active = NoPlan
  /\ a.pc \in {"new", "load", "decide"} => a.unsure = FALSE

TurnSide(a, T) ==
  /\ a.pc \notin {"new", "failed"} =>
       a.request \in Requests /\ Same(T.request, a.request) /\ T.status # "none"
  /\ a.pc \in {"attaching", "completing"} => a.seen <= T.version
  /\ a.pc = "attaching" /\ a.seen = T.version /\ TurnOpen(T) => T.plan \in {NoPlan, a.out.plan}
  /\ a.pc = "completing" => RouteOnly(a.out)
  /\ a.pc = "returned" /\ a.out.plan # NoPlan /\ TurnOpen(T) => T.plan = a.out.plan
  /\ a.pc = "returned" /\ a.out.plan = NoPlan /\ a.out.invocation = NoAgent =>
       T.status = "completed" /\ T.final = Final(a.out)

AttemptOK(h, a, T, P) == PlanSide(h, a, P) /\ AnswerSide(a) /\ TurnSide(a, T)

FinalOK(T) ==
  /\ T.final # <<>> <=> T.status = "completed"
  /\ T.status = "none" => T.version = 0

PlanOf(a) == IF a.pc = "returned" THEN a.out.plan ELSE NoPlan

RouteTypeOK ==
  /\ rturn \in TurnRec
  /\ plans \in [PlanIds -> PlanRow]
  /\ attempt \in [Attempt -> AttemptRec]

RouteInv ==
  /\ RouteTypeOK
  /\ FinalOK(rturn)
  /\ \A p \in PlanIds : RowOK(plans[p])
  /\ \A h \in Attempt : AttemptOK(h, attempt[h], rturn, plans)
  /\ \A h, k \in Attempt : NoPlan \in {PlanOf(attempt[h]), PlanOf(attempt[k])}
                           \/ PlanOf(attempt[h]) = PlanOf(attempt[k])

-----------------------------------------------------------------------------
(* What a step does to a Turn and to a Plan others have looked at.         *)

TurnMoves(T, U) ==
  /\ T.status # "none" => U.status # "none" /\ U.request = T.request
  /\ U # T => U.version > T.version
  /\ T.status = "completed" => U = T
  /\ TurnOpen(T) /\ TurnOpen(U) /\ T.plan # NoPlan => U.plan = T.plan

Onward(row, new) ==
  row.status # "none" =>
    /\ new.status # "none" /\ new.agents = row.agents /\ new.done >= row.done
    /\ new # row => new.version > row.version

(* A Turn that moves on takes nothing from an attempt that is not moving.  *)
LEMMA TurnSideStays ==
  ASSUME NEW a \in AttemptRec, NEW T \in TurnRec, NEW U \in TurnRec, TurnMoves(T, U),
         TurnSide(a, T)
  PROVE  TurnSide(a, U)
<1>1. T.version \in Nat /\ U.version \in Nat /\ a.seen \in Nat BY DEF TurnRec, AttemptRec
<1>2. T.status \in {"none", "routing", "running", "blocked", "completed"} BY DEF TurnRec
<1>3. TurnOpen(U) /\ T.status # "none" => TurnOpen(T) BY <1>2 DEF TurnMoves, TurnOpen
<1>4. a.pc \in {"attaching", "completing"} /\ a.seen = U.version => U = T
  BY <1>1 DEF TurnMoves, TurnSide
<1> HIDE DEF TurnOpen
<1>5. a.pc \notin {"new", "failed"} =>
       a.request \in Requests /\ Same(U.request, a.request) /\ U.status # "none"
  BY DEF TurnSide, TurnMoves
<1>6. a.pc \in {"attaching", "completing"} => a.seen <= U.version
  BY <1>1 DEF TurnSide, TurnMoves
<1>7. a.pc = "attaching" /\ a.seen = U.version /\ TurnOpen(U) => U.plan \in {NoPlan, a.out.plan}
  BY <1>4 DEF TurnSide
<1>8. a.pc = "returned" /\ a.out.plan # NoPlan /\ TurnOpen(U) => U.plan = a.out.plan
  BY <1>3 DEF TurnSide, TurnMoves
<1>9. a.pc = "returned" /\ a.out.plan = NoPlan /\ a.out.invocation = NoAgent =>
       U.status = "completed" /\ U.final = Final(a.out)
  BY DEF TurnSide, TurnMoves
<1> QED BY <1>5, <1>6, <1>7, <1>8, <1>9 DEF TurnSide

(* What was read of a Plan stays true of it.                               *)
LEMMA ReadStays ==
  ASSUME NEW read, NEW row \in PlanRow, NEW new \in PlanRow, row.status # "none",
         Onward(row, new), ReadOf(read, row)
  PROVE  ReadOf(read, new)
<1>1. row.version \in Nat /\ new.version \in Nat BY DEF PlanRow
<1>2. read \in PlanRow BY DEF ReadOf
<1>3. read.version \in Nat BY <1>2 DEF PlanRow
<1> QED BY <1>1, <1>3 DEF ReadOf, Onward

(* A Plan that moves on takes nothing from it either.                      *)
LEMMA PlanSideStays ==
  ASSUME NEW h \in Attempt, NEW a \in AttemptRec, NEW P \in [PlanIds -> PlanRow],
         NEW Q \in [PlanIds -> PlanRow], \A p \in PlanIds : Onward(P[p], Q[p]),
         P[h].status = "none" => Q[h].status = "none", PlanSide(h, a, P)
  PROVE  PlanSide(h, a, Q)
<1>0. a.active \in PlanIds \cup {NoPlan} /\ a.out \in AnswerType BY DEF AttemptRec
<1>0a. a.out.plan \in PlanIds \cup {NoPlan} BY <1>0 DEF AnswerType
<1>0b. \A p \in PlanIds : P[p] \in PlanRow /\ Q[p] \in PlanRow OBVIOUS
<1>1. a.pc \in {"new", "load", "decide", "after"} => Q[h].status = "none" BY DEF PlanSide
<1>2. ASSUME a.pc = "decide" /\ a.active # NoPlan
      PROVE  /\ Q[a.active].status # "none" /\ ReadOf(a.read, Q[a.active])
             /\ Within(Q[a.active].agents, a.candidates)
  <2>1. /\ P[a.active].status # "none" /\ ReadOf(a.read, P[a.active])
        /\ Within(P[a.active].agents, a.candidates)
    BY <1>2 DEF PlanSide
  <2>2. a.active \in PlanIds BY <1>0, <1>2
  <2>3. ReadOf(a.read, Q[a.active]) BY <2>1, <2>2, <1>0b, ReadStays
  <2> QED BY <2>1, <2>2, <2>3 DEF Onward
<1>3. ASSUME Known(a, P) PROVE Known(a, Q)
  <2>1. a.out.plan \in PlanIds /\ P[a.out.plan].status # "none"
        /\ Within(P[a.out.plan].agents, a.candidates)
    BY <1>3 DEF Known
  <2>2. Onward(P[a.out.plan], Q[a.out.plan]) BY <2>1
  <2>3. Q[a.out.plan].status # "none" /\ Q[a.out.plan].agents = P[a.out.plan].agents
    BY <2>1, <2>2 DEF Onward
  <2>4. ReadOf(a.read, P[a.out.plan]) => ReadOf(a.read, Q[a.out.plan])
    BY <2>1, <2>2, <1>0b, ReadStays
  <2> QED BY <1>3, <2>1, <2>3, <2>4 DEF Known
<1>4. a.pc = "after" /\ a.out.plan # NoPlan => Fresh(h, a) \/ Known(a, Q)
  BY <1>3 DEF PlanSide
<1>5. a.pc \in {"attach", "attaching"} => a.out.plan # NoPlan BY DEF PlanSide
<1>6. a.pc \in {"attach", "attaching", "returned"} /\ a.out.plan # NoPlan =>
       Q[a.out.plan].status # "none"
  BY <1>0a DEF PlanSide, Onward
<1> QED BY <1>1, <1>2, <1>4, <1>5, <1>6 DEF PlanSide

(* A step of an attempt, from what it does to its own record, the Turn and *)
(* the Plans.                                                              *)
LEMMA AttemptSteps ==
  ASSUME RouteInv, NEW h \in Attempt, NEW b \in AttemptRec, attempt' = [attempt EXCEPT ![h] = b],
         rturn' \in TurnRec, FinalOK(rturn'), TurnMoves(rturn, rturn'),
         plans' \in [PlanIds -> PlanRow], \A p \in PlanIds : RowOK(plans'[p]),
         \A p \in PlanIds : Onward(plans[p], plans'[p]),
         \A p \in PlanIds \ {h} : plans[p].status = "none" => plans'[p].status = "none",
         AttemptOK(h, b, rturn', plans'),
         PlanOf(b) = NoPlan \/ \A k \in Attempt \ {h} : PlanOf(attempt[k]) \in {NoPlan, PlanOf(b)}
  PROVE  RouteInv'
<1>1. attempt \in [Attempt -> AttemptRec] /\ rturn \in TurnRec /\ plans \in [PlanIds -> PlanRow]
  BY DEF RouteInv, RouteTypeOK
<1>2. attempt' \in [Attempt -> AttemptRec] BY <1>1
<1>3. attempt'[h] = b /\ \A k \in Attempt \ {h} : attempt'[k] = attempt[k] BY <1>1
<1>4. \A k \in Attempt : AttemptOK(k, attempt'[k], rturn', plans')
  <2> TAKE k \in Attempt
  <2>1. CASE k = h BY <1>3, <2>1
  <2>2. CASE k # h
    <3>1. AttemptOK(k, attempt[k], rturn, plans) BY DEF RouteInv
    <3>2. k \in PlanIds \ {h} BY <2>2 DEF PlanIds
    <3>3. TurnSide(attempt[k], rturn') BY <1>1, <3>1, TurnSideStays DEF AttemptOK
    <3>4. plans[k].status = "none" => plans'[k].status = "none" BY <3>2
    <3>5. PlanSide(k, attempt[k], plans') BY <1>1, <3>1, <3>4, PlanSideStays DEF AttemptOK
    <3> QED BY <1>3, <2>2, <3>1, <3>3, <3>5 DEF AttemptOK
  <2> QED BY <2>1, <2>2
<1>5. \A k, m \in Attempt : NoPlan \in {PlanOf(attempt'[k]), PlanOf(attempt'[m])}
                            \/ PlanOf(attempt'[k]) = PlanOf(attempt'[m])
  <2>1. \A k, m \in Attempt : NoPlan \in {PlanOf(attempt[k]), PlanOf(attempt[m])}
                            \/ PlanOf(attempt[k]) = PlanOf(attempt[m])
    BY DEF RouteInv
  <2> HIDE DEF PlanOf
  <2> QED BY <1>3, <2>1
<1> QED BY <1>2, <1>4, <1>5 DEF RouteInv, RouteTypeOK, PlanOf-----------------------------------------------------------------------------
(* The steps.                                                              *)

(* Where nothing moves, everything is as it was.                           *)
LEMMA NothingMoves ==
  ASSUME RouteInv
  PROVE  /\ TurnMoves(rturn, rturn) /\ \A p \in PlanIds : Onward(plans[p], plans[p])
         /\ rturn \in TurnRec /\ FinalOK(rturn) /\ plans \in [PlanIds -> PlanRow]
         /\ attempt \in [Attempt -> AttemptRec] /\ \A p \in PlanIds : RowOK(plans[p])
<1>1. \A p \in PlanIds : plans[p] \in PlanRow BY DEF RouteInv, RouteTypeOK
<1>2. \A p \in PlanIds : plans[p].done \in Nat BY <1>1 DEF PlanRow
<1>3. \A p \in PlanIds : plans[p].done >= plans[p].done BY <1>2
<1> QED BY <1>3 DEF RouteInv, RouteTypeOK, TurnMoves, Onward

(* A step that only changes the record of its attempt.                     *)
LEMMA QuietSteps ==
  ASSUME RouteInv, NEW h \in Attempt, NEW b \in AttemptRec, attempt' = [attempt EXCEPT ![h] = b],
         UNCHANGED <<rturn, plans>>, AttemptOK(h, b, rturn, plans),
         PlanOf(b) = NoPlan \/ \A k \in Attempt \ {h} : PlanOf(attempt[k]) \in {NoPlan, PlanOf(b)}
  PROVE  RouteInv'
<1>1. rturn' = rturn /\ plans' = plans OBVIOUS
<1>2. AttemptOK(h, b, rturn', plans') BY <1>1
<1>3. /\ rturn' \in TurnRec /\ FinalOK(rturn') /\ TurnMoves(rturn, rturn')
      /\ plans' \in [PlanIds -> PlanRow] /\ \A p \in PlanIds : RowOK(plans'[p])
      /\ \A p \in PlanIds : Onward(plans[p], plans'[p])
  BY <1>1, NothingMoves
<1>4. \A p \in PlanIds \ {h} : plans[p].status = "none" => plans'[p].status = "none" BY <1>1
<1> HIDE DEF RouteInv, AttemptOK, PlanOf
<1> QED BY <1>2, <1>3, <1>4, AttemptSteps

(* An attempt as it begins and as it ends without an answer.               *)
LEMMA FreshAttempts ==
  ASSUME NEW h \in Attempt, NEW T, NEW P
  PROVE  /\ NewAttempt \in AttemptRec /\ Failed \in AttemptRec
         /\ NewAttempt.pc = "new" /\ Failed.pc = "failed"
         /\ NewAttempt.out = Blank /\ NewAttempt.active = NoPlan /\ NewAttempt.unsure = FALSE
         /\ AttemptOK(h, Failed, T, P) /\ PlanOf(Failed) = NoPlan
<1> DEFINE blank == Blank
           none == NoStoredPlan
           empty == <<>>
<1>1. blank \in AnswerType BY BlankShaped DEF Shaped
<1>2. NewAttempt = [pc |-> "new", request |-> empty, candidates |-> {}, active |-> NoPlan,
               read |-> none, out |-> blank, seen |-> 0, unsure |-> FALSE]
  BY DEF NewAttempt
<1>3. empty \in Requests \cup {<<>>} /\ none \in PlanRow \cup {NoStoredPlan} OBVIOUS
<1> HIDE DEF blank, none, empty
<1> DEFINE new == NewAttempt
<1>4. new \in AttemptRec BY <1>1, <1>2, <1>3 DEF AttemptRec, AttemptPcs
<1>5. new.pc = "new" /\ new.out = blank /\ new.active = NoPlan /\ new.unsure = FALSE BY <1>2
<1>6. Failed = [new EXCEPT !.pc = "failed"] BY DEF Failed
<1> HIDE DEF new
<1> DEFINE failed == Failed
<1>7. failed \in AttemptRec /\ failed.pc = "failed" BY <1>4, <1>6 DEF AttemptRec, AttemptPcs
<1> HIDE DEF failed
<1>8. AttemptOK(h, failed, T, P) /\ PlanOf(failed) = NoPlan
  BY <1>7 DEF AttemptOK, PlanSide, AnswerSide, TurnSide, AnsweredPcs, PlanOf
<1> QED BY <1>4, <1>5, <1>7, <1>8 DEF new, failed, blank

(* An attempt fails.                                                       *)
LEMMA FailSteps ==
  ASSUME RouteInv, NEW h \in Attempt, attempt' = [attempt EXCEPT ![h] = Failed],
         UNCHANGED <<rturn, plans>>
  PROVE  RouteInv'
<1>1. Failed \in AttemptRec /\ AttemptOK(h, Failed, rturn, plans) /\ PlanOf(Failed) = NoPlan
  BY FreshAttempts
<1> QED BY <1>1, QuietSteps

(* The initial states.                                                     *)
LEMMA RouteInitial == RouteInit => RouteInv
<1> SUFFICES ASSUME RouteInit PROVE RouteInv OBVIOUS
<1>1. PICK agents \in OldAgents, session \in BOOLEAN :
         plans = [p \in PlanIds |->
               IF p = OldPlan
               THEN [status |-> "pending", agents |-> agents, done |-> 0, version |-> 1,
                     policy |-> "require_confirmation", session |-> session]
               ELSE [status |-> "none", agents |-> <<>>, done |-> 0, version |-> 0,
                     policy |-> "none", session |-> TRUE]]
  BY DEF RouteInit
<1> DEFINE empty == <<>>
           old == [status |-> "pending", agents |-> agents, done |-> 0, version |-> 1,
                     policy |-> "require_confirmation", session |-> session]
           none == [status |-> "none", agents |-> empty, done |-> 0, version |-> 0,
                     policy |-> "none", session |-> TRUE]
<1>2. empty \in Seq(Agent) BY EmptySeq
<1>3. agents \in Seq(Agent) /\ agents # empty BY RoutingAssumption
<1>4. Len(agents) \in Nat /\ Len(agents) > 0 BY <1>3, LenProperties, EmptySeq
<1>5. plans = [p \in PlanIds |-> IF p = OldPlan THEN old ELSE none] BY <1>1
<1>e. empty = <<>> OBVIOUS
<1> HIDE DEF empty
<1>6. old \in PlanRow /\ none \in PlanRow BY <1>2, <1>3 DEF PlanRow, Statuses, PolicyNames
<1>7. RowOK(old) /\ RowOK(none)
  BY <1>3, <1>4, <1>e DEF RowOK, OpenStatuses
<1>8. old.status = "pending" /\ none.status = "none" OBVIOUS
<1> HIDE DEF old, none
<1>9. plans \in [PlanIds -> PlanRow] /\ \A p \in PlanIds : RowOK(plans[p])
  BY <1>5, <1>6, <1>7
<1>10. \A h \in Attempt : plans[h].status = "none"
  BY <1>5, <1>8, RoutingAssumption DEF PlanIds
<1>11. rturn \in TurnRec /\ FinalOK(rturn)
  <2>1. rturn = [status |-> "none", version |-> 0, request |-> <<>>, plan |-> NoPlan,
                 final |-> <<>>, agent |-> NoAgent]
    BY DEF RouteInit
  <2> HIDE DEF RouteInit
  <2>2. rturn = [status |-> "none", version |-> 0, request |-> empty, plan |-> NoPlan,
                 final |-> empty, agent |-> NoAgent]
    BY <2>1, <1>e
  <2>3. empty \in Requests \cup {<<>>} /\ empty \in Finals BY <1>e DEF Finals
  <2>4. rturn \in TurnRec BY <2>2, <2>3 DEF TurnRec, Names
  <2>5. rturn.final = empty /\ rturn.status = "none" /\ rturn.version = 0 BY <2>2
  <2> QED BY <2>4, <2>5, <1>e DEF FinalOK
<1>12. attempt = [h \in Attempt |-> NewAttempt] BY DEF RouteInit
<1>13. \A h \in Attempt : /\ NewAttempt \in AttemptRec /\ NewAttempt.pc = "new"
                          /\ NewAttempt.out = Blank /\ NewAttempt.active = NoPlan
                          /\ NewAttempt.unsure = FALSE
  BY FreshAttempts
<1> DEFINE new == NewAttempt
           blank == Blank
<1> HIDE DEF new, blank
<1>14. attempt \in [Attempt -> AttemptRec] BY <1>12, <1>13
<1>15. \A h \in Attempt : AttemptOK(h, attempt[h], rturn, plans) /\ PlanOf(attempt[h]) = NoPlan
  BY <1>10, <1>12, <1>13
     DEF AttemptOK, PlanSide, AnswerSide, TurnSide, AnsweredPcs, PlanOf
<1> QED BY <1>9, <1>11, <1>14, <1>15 DEF RouteInv, RouteTypeOK(* What an attempt that is not at its end is bound to.                     *)
LEMMA AttemptFacts ==
  ASSUME RouteInv, NEW h \in Attempt
  PROVE  /\ attempt[h] \in AttemptRec /\ PlanSide(h, attempt[h], plans)
         /\ AnswerSide(attempt[h]) /\ TurnSide(attempt[h], rturn)
         /\ attempt[h].candidates \in SUBSET Agent /\ IsFiniteSet(attempt[h].candidates)
         /\ attempt[h].out \in AnswerType /\ attempt[h].unsure \in BOOLEAN
         /\ attempt[h].active \in PlanIds \cup {NoPlan}
         /\ attempt[h].read \in PlanRow \cup {NoStoredPlan}
<1>1. attempt[h] \in AttemptRec BY DEF RouteInv, RouteTypeOK
<1>2. attempt[h].candidates \in Candidates \cup {{}} BY <1>1 DEF AttemptRec
<1>3. attempt[h].candidates \in SUBSET Agent /\ IsFiniteSet(attempt[h].candidates)
  BY <1>2, FS_EmptySet, RoutingAssumption
<1>4. /\ attempt[h].out \in AnswerType /\ attempt[h].unsure \in BOOLEAN
      /\ attempt[h].active \in PlanIds \cup {NoPlan}
      /\ attempt[h].read \in PlanRow \cup {NoStoredPlan}
  BY <1>1 DEF AttemptRec
<1> QED BY <1>1, <1>3, <1>4 DEF RouteInv, AttemptOK

(* The question nobody can answer is refused.                              *)
LEMMA BlankGood ==
  ASSUME NEW candidates, NEW request
  PROVE  GoodAnswer(Blank, candidates, request, FALSE)
<1> DEFINE blank == Blank
<1>2. blank = [action |-> "unsupported", target |-> NoAgent, relation |-> "other",
          current |-> NoAgent, confidence |-> "high", text |-> "fixed", plan |-> NoPlan,
          agents |-> <<>>, version |-> 0, planPolicy |-> "none", planStatus |-> "pending",
          policy |-> "none", invocation |-> NoAgent]
  BY DEF Blank
<1>3. blank \in AnswerType
  <2> DEFINE empty == <<>>
  <2>1. empty \in Seq(Agent) BY EmptySeq
  <2>2. blank = [action |-> "unsupported", target |-> NoAgent, relation |-> "other",
          current |-> NoAgent, confidence |-> "high", text |-> "fixed", plan |-> NoPlan,
          agents |-> empty, version |-> 0, planPolicy |-> "none", planStatus |-> "pending",
          policy |-> "none", invocation |-> NoAgent]
    BY <1>2
  <2> HIDE DEF empty, blank
  <2> QED BY <2>1, <2>2 DEF AnswerType, AllActions, DirectActions, Names, Confidences, Words,
    PolicyNames, Statuses
<1>4. Within(blank.agents, candidates) BY <1>2, NobodyWithin
<1>5. blank.action = "unsupported" /\ blank.target = NoAgent /\ blank.policy = "none" BY <1>2
<1> HIDE DEF blank
<1>6. GoodAnswer(blank, candidates, request, FALSE)
  BY <1>3, <1>4, <1>5 DEF GoodAnswer, AgentActions, Permitted
<1> QED BY <1>6 DEF blank

(* The Turn of a request is opened, or found open for the same request.    *)
LEMMA StartTurnSteps ==
  ASSUME RouteInv, NEW h \in Attempt, NEW request \in Requests, NEW candidates \in Candidates,
         StartTurn(h, request, candidates)
  PROVE  RouteInv'
<1> DEFINE a == attempt[h]
           pc == IF candidates = {} THEN "after" ELSE "load"
           b == [a EXCEPT !.pc = pc, !.request = request, !.candidates = candidates]
           opened == [rturn EXCEPT !.status = "routing", !.version = 1, !.request = request]
<1>1. /\ a.pc = "new" /\ UNCHANGED plans
      /\ rturn.status # "none" => Same(rturn.request, request)
      /\ rturn' = IF rturn.status # "none" THEN rturn ELSE opened
      /\ attempt' = [attempt EXCEPT ![h].pc = pc, ![h].request = request,
                                    ![h].candidates = candidates]
  BY DEF StartTurn, Is, SameRequest
<1>2. a \in AttemptRec /\ PlanSide(h, a, plans) /\ AnswerSide(a) /\ TurnSide(a, rturn)
  BY AttemptFacts
<1>3. /\ TurnMoves(rturn, rturn) /\ \A p \in PlanIds : Onward(plans[p], plans[p])
      /\ rturn \in TurnRec /\ FinalOK(rturn) /\ plans \in [PlanIds -> PlanRow]
      /\ attempt \in [Attempt -> AttemptRec] /\ \A p \in PlanIds : RowOK(plans[p])
  BY NothingMoves
<1>4. pc \in {"after", "load"} OBVIOUS
<1> HIDE DEF pc
<1>5. attempt' = [attempt EXCEPT ![h] = b] BY <1>1, <1>3
<1>6. b \in AttemptRec BY <1>2, <1>4 DEF AttemptRec, AttemptPcs
<1>7. /\ b.pc = pc /\ b.request = request /\ b.candidates = candidates
      /\ b.out = a.out /\ b.active = a.active /\ b.unsure = a.unsure
  BY <1>2 DEF AttemptRec
<1> HIDE DEF b
<1>8. opened \in TurnRec /\ opened.status = "routing" /\ opened.version = 1
      /\ opened.request = request /\ opened.final = rturn.final
  BY <1>3 DEF TurnRec
<1>9. rturn.status = "none" => FinalOK(opened) BY <1>3, <1>8 DEF FinalOK
<1>10. rturn.status = "none" => TurnMoves(rturn, opened)
  <2>1. ASSUME rturn.status = "none" PROVE rturn.version = 0
    BY <2>1, <1>3 DEF FinalOK
  <2> QED BY <1>8, <2>1 DEF TurnMoves, TurnOpen
<1> HIDE DEF opened
<1>11. /\ rturn' \in TurnRec /\ FinalOK(rturn') /\ TurnMoves(rturn, rturn')
       /\ rturn'.status # "none" /\ Same(rturn'.request, request)
  BY <1>1, <1>3, <1>8, <1>9, <1>10 DEF Same
<1>12. PlanSide(h, b, plans)
  <2>1. b.out.plan = NoPlan
    BY <1>1, <1>2, <1>7, BlankShaped DEF AnswerSide
  <2> QED BY <1>1, <1>2, <1>4, <1>7, <2>1 DEF PlanSide
<1>13. AnswerSide(b)
  BY <1>1, <1>2, <1>4, <1>7, BlankGood DEF AnswerSide, AnsweredPcs
<1>14. TurnSide(b, rturn') BY <1>4, <1>7, <1>11 DEF TurnSide
<1>15. PlanOf(b) = NoPlan BY <1>4, <1>7 DEF PlanOf
<1>16. AttemptOK(h, b, rturn', plans') BY <1>1, <1>12, <1>13, <1>14 DEF AttemptOK
<1> HIDE DEF RouteInv, AttemptOK, PlanOf
<1>17. plans' = plans BY <1>1
<1> QED BY <1>3, <1>5, <1>6, <1>11, <1>15, <1>16, <1>17, AttemptSteps

(* The Plan the request is about is read.                                  *)
LEMMA LoadPlanSteps ==
  ASSUME RouteInv, NEW h \in Attempt, LoadPlan(h)
  PROVE  RouteInv'
<1> DEFINE a == attempt[h]
           found == ActivePlans(a.request)
           b == [a EXCEPT !.pc = "decide"]
           c(p) == [a EXCEPT !.pc = "decide", !.active = p, !.read = plans[p]]
<1>1. a.pc = "load" /\ UNCHANGED <<rturn, plans>>
  BY DEF LoadPlan, Is
<1>2. \/ attempt' = [attempt EXCEPT ![h].pc = "decide"]
      \/ \E p \in found : attempt' = [attempt EXCEPT ![h] =
                IF Within(plans[p].agents, a.candidates) THEN c(p) ELSE Failed]
  BY DEF LoadPlan
<1>3. a \in AttemptRec /\ PlanSide(h, a, plans) /\ AnswerSide(a) /\ TurnSide(a, rturn)
  BY AttemptFacts
<1>4. attempt \in [Attempt -> AttemptRec] /\ plans \in [PlanIds -> PlanRow]
      /\ \A p \in PlanIds : RowOK(plans[p])
  BY NothingMoves
<1>5. CASE attempt' = [attempt EXCEPT ![h].pc = "decide"]
  <2>1. attempt' = [attempt EXCEPT ![h] = b] BY <1>4, <1>5
  <2>2. b \in AttemptRec BY <1>3 DEF AttemptRec, AttemptPcs
  <2>3. b.pc = "decide" /\ b.active = a.active /\ b.unsure = a.unsure /\ b.request = a.request
    BY <1>3 DEF AttemptRec
  <2> HIDE DEF b
  <2>4. AttemptOK(h, b, rturn, plans)
    BY <1>1, <1>3, <2>3 DEF AttemptOK, PlanSide, AnswerSide, TurnSide, AnsweredPcs
  <2>5. PlanOf(b) = NoPlan BY <2>3 DEF PlanOf
  <2> QED BY <1>1, <2>1, <2>2, <2>4, <2>5, QuietSteps
<1>6. CASE \E p \in found : attempt' = [attempt EXCEPT ![h] =
                IF Within(plans[p].agents, a.candidates) THEN c(p) ELSE Failed]
  <2>1. PICK p \in found : attempt' = [attempt EXCEPT ![h] =
                IF Within(plans[p].agents, a.candidates) THEN c(p) ELSE Failed]
    BY <1>6
  <2>2. p \in PlanIds /\ plans[p].status # "none" BY DEF ActivePlans
  <2>3. CASE ~Within(plans[p].agents, a.candidates)
    <3>1. attempt' = [attempt EXCEPT ![h] = Failed] BY <2>1, <2>3
    <3> QED BY <1>1, <3>1, FailSteps
  <2>4. CASE Within(plans[p].agents, a.candidates)
    <3> DEFINE d == c(p)
    <3>1. attempt' = [attempt EXCEPT ![h] = d] BY <2>1, <2>4
    <3>2. plans[p] \in PlanRow BY <1>4, <2>2
    <3>3. d \in AttemptRec BY <1>3, <2>2, <3>2 DEF AttemptRec, AttemptPcs
    <3>4. /\ d.pc = "decide" /\ d.active = p /\ d.unsure = a.unsure /\ d.request = a.request
          /\ d.read = plans[p] /\ d.candidates = a.candidates
      BY <1>3 DEF AttemptRec
    <3> HIDE DEF d
    <3>5. ReadOf(plans[p], plans[p])
      <4>1. plans[p].version \in Nat BY <3>2 DEF PlanRow
      <4> QED BY <1>4, <2>2, <3>2, <4>1 DEF ReadOf
    <3>6. PlanSide(h, d, plans) BY <1>1, <1>3, <2>2, <2>4, <3>4, <3>5 DEF PlanSide
    <3>7. AnswerSide(d) /\ TurnSide(d, rturn)
      BY <1>1, <1>3, <3>4 DEF AnswerSide, TurnSide, AnsweredPcs
    <3>8. PlanOf(d) = NoPlan BY <3>4 DEF PlanOf
    <3>9. AttemptOK(h, d, rturn, plans) BY <3>6, <3>7 DEF AttemptOK
    <3> QED BY <1>1, <3>1, <3>3, <3>8, <3>9, QuietSteps
  <2> QED BY <2>3, <2>4
<1> QED BY <1>2, <1>5, <1>6

(* A decision that is good for the request and names no Plan, or one that  *)
(* may be stored.                                                          *)
LEMMA AnswerSteps ==
  ASSUME RouteInv, NEW h \in Attempt, attempt[h].pc = "decide", NEW out, Answer(h, out),
         GoodAnswer(out, attempt[h].candidates, attempt[h].request, FALSE),
         out.plan = NoPlan \/ Known([attempt[h] EXCEPT !.pc = "after", !.out = out], plans)
  PROVE  RouteInv'
<1> DEFINE a == attempt[h]
           b == [a EXCEPT !.pc = "after", !.out = out]
<1>1. a \in AttemptRec /\ PlanSide(h, a, plans) /\ AnswerSide(a) /\ TurnSide(a, rturn)
  BY AttemptFacts
<1>2. attempt \in [Attempt -> AttemptRec] BY NothingMoves
<1>3. attempt' = [attempt EXCEPT ![h] = b] /\ UNCHANGED <<rturn, plans>> BY <1>2 DEF Answer
<1>4. out \in AnswerType BY DEF GoodAnswer
<1>5. b \in AttemptRec BY <1>1, <1>4 DEF AttemptRec, AttemptPcs
<1>6. /\ b.pc = "after" /\ b.out = out /\ b.unsure = a.unsure /\ b.request = a.request
      /\ b.candidates = a.candidates
  BY <1>1 DEF AttemptRec
<1>7. out.plan = NoPlan \/ Known(b, plans) OBVIOUS
<1> HIDE DEF b
<1>8. PlanSide(h, b, plans) BY <1>1, <1>6, <1>7 DEF PlanSide
<1>9. AnswerSide(b) /\ TurnSide(b, rturn)
  BY <1>1, <1>6 DEF AnswerSide, TurnSide, AnsweredPcs
<1>10. AttemptOK(h, b, rturn, plans) BY <1>8, <1>9 DEF AttemptOK
<1>11. PlanOf(b) = NoPlan BY <1>6 DEF PlanOf
<1> QED BY <1>3, <1>5, <1>10, <1>11, QuietSteps(* An answer the router words itself.                                      *)
Worded(action, target, text) ==
  [Blank EXCEPT !.action = action, !.target = target, !.text = text]

(* It is good if the agent it names is on offer.                           *)
LEMMA WordedGood ==
  ASSUME NEW candidates, NEW request, NEW action \in {"reply", "open_agent"}, NEW target \in Names,
         NEW text \in Words,
         action = "open_agent" => target \in Agent /\ target \in candidates,
         action = "reply" => target = NoAgent
  PROVE  LET out == Worded(action, target, text)
         IN  /\ out \in AnswerType /\ out.action = action /\ out.target = target
             /\ Within(out.agents, candidates) /\ Permitted(out) /\ out.plan = NoPlan
             /\ out.invocation = NoAgent
<1> DEFINE blank == Blank
           out == [blank EXCEPT !.action = action, !.target = target, !.text = text]
<1>1. /\ blank \in AnswerType
      /\ Within(blank.agents, candidates)
  BY BlankGood DEF GoodAnswer
<1>2. blank.plan = NoPlan /\ blank.policy = "none" /\ blank.invocation = NoAgent BY DEF Blank
<1> HIDE DEF blank
<1>a. action \in AllActions BY DEF AllActions, DirectActions, AgentActions
<1>b. blank \in AnswerType BY <1>1
<1>3. out \in AnswerType BY <1>a, <1>b DEF AnswerType
<1>4. /\ out.action = action /\ out.target = target /\ out.plan = blank.plan
      /\ out.agents = blank.agents /\ out.policy = blank.policy
      /\ out.invocation = blank.invocation
  BY <1>1 DEF AnswerType
<1>5. out = Worded(action, target, text) BY DEF blank, Worded
<1> HIDE DEF out
<1> QED BY <1>1, <1>2, <1>3, <1>4, <1>5 DEF Permitted

(* A fixed question.                                                       *)
LEMMA FixedQuestionSteps ==
  ASSUME RouteInv, NEW h \in Attempt, NEW target \in Agent, FixedQuestion(h, target)
  PROVE  RouteInv'
<1> DEFINE a == attempt[h]
           blank == Blank
           asked == [Blank EXCEPT !.action = "open_agent", !.target = target]
           sent == AttachInvocation(a.request, asked)
<1>1. a.pc = "decide" /\ Answer(h, IF target \in a.candidates THEN sent ELSE Blank)
  BY DEF FixedQuestion, Is
<1>2. CASE target \in a.candidates
  <2> DEFINE out == Worded("open_agent", target, "fixed")
  <2>0. target \in Names /\ "fixed" \in Words BY DEF Names, Words
  <2>1. /\ out \in AnswerType /\ out.action = "open_agent" /\ out.target = target
        /\ Within(out.agents, a.candidates) /\ Permitted(out) /\ out.plan = NoPlan
    BY <1>2, <2>0, WordedGood
  <2>2. out = asked
    <3>1. blank.text = "fixed" BY DEF Blank
    <3>2. blank \in AnswerType BY BlankGood DEF GoodAnswer
    <3> HIDE DEF blank
    <3>3. [blank EXCEPT !.action = "open_agent", !.target = target, !.text = "fixed"]
          = [blank EXCEPT !.action = "open_agent", !.target = target]
      BY <3>1, <3>2 DEF AnswerType
    <3> QED BY <3>3 DEF blank, Worded
  <2> HIDE DEF out
  <2>3. GoodAnswer(sent, a.candidates, a.request, FALSE) /\ sent.plan = NoPlan
    <3> HIDE DEF asked
    <3> QED BY <1>2, <2>1, <2>2, AttachedGood DEF AgentActions
  <2>4. Answer(h, sent) BY <1>1, <1>2
  <2> HIDE DEF sent
  <2> QED BY <1>1, <2>3, <2>4, AnswerSteps
<1>3. CASE target \notin a.candidates
  <2>1. Answer(h, Blank) BY <1>1, <1>3
  <2>2. Blank.plan = NoPlan BY DEF Blank
  <2> QED BY <1>1, <2>1, <2>2, BlankGood, AnswerSteps
<1> QED BY <1>2, <1>3

(* A knowledge item answers.                                               *)
LEMMA KnowledgeReplySteps ==
  ASSUME RouteInv, NEW h \in Attempt, KnowledgeReply(h)
  PROVE  RouteInv'
<1> DEFINE a == attempt[h]
           blank == Blank
           known == [Blank EXCEPT !.action = "reply", !.text = "known"]
           out == Worded("reply", NoAgent, "known")
<1>0. NoAgent \in Names /\ "known" \in Words BY DEF Names, Words
<1>1. a.pc = "decide" /\ Answer(h, known) BY DEF KnowledgeReply, Is
<1>2. out = known
  <2>1. blank.target = NoAgent BY DEF Blank
  <2>2. blank \in AnswerType BY BlankGood DEF GoodAnswer
  <2> HIDE DEF blank
  <2>3. [blank EXCEPT !.action = "reply", !.target = NoAgent, !.text = "known"]
        = [blank EXCEPT !.action = "reply", !.text = "known"]
    BY <2>1, <2>2 DEF AnswerType
  <2> QED BY <2>3 DEF blank, Worded
<1>3. /\ out \in AnswerType /\ out.action = "reply" /\ out.target = NoAgent
      /\ Within(out.agents, a.candidates) /\ Permitted(out) /\ out.plan = NoPlan
  BY <1>0, WordedGood
<1> HIDE DEF out, known
<1>4. GoodAnswer(known, a.candidates, a.request, FALSE)
  BY <1>2, <1>3 DEF GoodAnswer, AgentActions
<1> QED BY <1>1, <1>2, <1>3, <1>4, AnswerSteps

(* The step of a confirmed Plan, or the end the Plan has come to.          *)
LEMMA ControlledStepSteps ==
  ASSUME RouteInv, NEW h \in Attempt, ControlledStep(h)
  PROVE  RouteInv'
<1> DEFINE a == attempt[h]
           p == a.read
           shown(out) == [out EXCEPT !.plan = a.active, !.agents = p.agents,
                            !.version = p.version, !.planPolicy = p.policy, !.planStatus = p.status]
           replied == [Blank EXCEPT !.action = "reply"]
           opened == [Blank EXCEPT !.action = "open_agent", !.target = p.agents[p.done + 1]]
           sent == AttachInvocation(a.request, ShowPlan(h, opened))
           out == IF p.status \notin OpenStatuses THEN ShowPlan(h, replied)
                  ELSE [sent EXCEPT !.planStatus = "blocked"]
<1>1. a.pc = "decide" /\ a.active # NoPlan /\ Answer(h, out)
  BY DEF ControlledStep, Is, Controlled
<1>2. /\ a \in AttemptRec /\ PlanSide(h, a, plans) /\ a.candidates \in SUBSET Agent
      /\ a.active \in PlanIds \cup {NoPlan}
  BY AttemptFacts
<1>3. /\ a.active \in PlanIds /\ plans[a.active].status # "none"
      /\ ReadOf(p, plans[a.active]) /\ Within(plans[a.active].agents, a.candidates)
  BY <1>1, <1>2 DEF PlanSide
<1>4. /\ p \in PlanRow /\ RowOK(p) /\ p.status # "none" /\ Within(p.agents, a.candidates)
  BY <1>3 DEF ReadOf
<1>5. ASSUME NEW o \in AnswerType, Permitted(o)
      PROVE  /\ ShowPlan(h, o) \in AnswerType /\ ShowPlan(h, o).action = o.action
             /\ ShowPlan(h, o).target = o.target /\ Permitted(ShowPlan(h, o))
             /\ ShowPlan(h, o).plan = a.active /\ ShowPlan(h, o).agents = p.agents
             /\ ShowPlan(h, o).version = p.version /\ ShowPlan(h, o).planStatus = p.status
  <2>1. ShowPlan(h, o) = shown(o) BY DEF ShowPlan
  <2>2. /\ p.agents \in Seq(Agent) /\ p.version \in Nat /\ p.policy \in PolicyNames
        /\ p.status \in Statuses
    BY <1>4 DEF PlanRow
  <2>3. shown(o) \in AnswerType BY <1>3, <1>5, <2>2 DEF AnswerType
  <2>4. /\ shown(o).action = o.action /\ shown(o).target = o.target
        /\ shown(o).policy = o.policy /\ shown(o).plan = a.active
        /\ shown(o).agents = p.agents /\ shown(o).version = p.version
        /\ shown(o).planStatus = p.status
    BY <1>5 DEF AnswerType
  <2> HIDE DEF shown
  <2> QED BY <1>5, <2>1, <2>3, <2>4 DEF Permitted
<1>6. ASSUME NEW o, o.plan = a.active, o.version = p.version, o.agents = p.agents,
             o.planStatus # "none", o.planStatus \in OpenStatuses => p.status \in OpenStatuses
      PROVE  Known([a EXCEPT !.pc = "after", !.out = o], plans)
  <2> DEFINE b == [a EXCEPT !.pc = "after", !.out = o]
  <2>1. b.out = o /\ b.read = p /\ b.candidates = a.candidates BY <1>2 DEF AttemptRec
  <2> HIDE DEF b
  <2>2. Known(b, plans) BY <1>3, <1>6, <2>1 DEF Known
  <2> QED BY <2>2 DEF b
<1> HIDE DEF shown
<1>7. CASE p.status \notin OpenStatuses
  <2> DEFINE o == Worded("reply", NoAgent, "fixed")
             blank == Blank
  <2>0. NoAgent \in Names /\ "fixed" \in Words BY DEF Names, Words
  <2>1. /\ o \in AnswerType /\ o.action = "reply" /\ o.target = NoAgent /\ Permitted(o)
    BY <2>0, WordedGood
  <2>2. o = replied
    <3>1. blank.target = NoAgent /\ blank.text = "fixed" BY DEF Blank
    <3>2. blank \in AnswerType BY BlankGood DEF GoodAnswer
    <3> HIDE DEF blank
    <3>3. [blank EXCEPT !.action = "reply", !.target = NoAgent, !.text = "fixed"]
          = [blank EXCEPT !.action = "reply"]
      BY <3>1, <3>2 DEF AnswerType
    <3> QED BY <3>3 DEF blank, Worded
  <2> HIDE DEF o, replied
  <2>3. out = ShowPlan(h, replied) BY <1>7
  <2> HIDE DEF out
  <2>4. /\ out \in AnswerType /\ out.action = "reply" /\ out.target = NoAgent
        /\ Permitted(out) /\ out.plan = a.active /\ out.agents = p.agents
        /\ out.version = p.version /\ out.planStatus = p.status
    BY <1>5, <2>1, <2>2, <2>3
  <2>5. GoodAnswer(out, a.candidates, a.request, FALSE)
    BY <1>1, <1>4, <2>4 DEF GoodAnswer, AgentActions
  <2>6. Known([a EXCEPT !.pc = "after", !.out = out], plans) BY <1>4, <1>6, <2>4
  <2> QED BY <1>1, <2>5, <2>6, AnswerSteps
<1>8. CASE p.status \in OpenStatuses
  <2> DEFINE target == p.agents[p.done + 1]
             o == Worded("open_agent", target, "fixed")
             blank == Blank
             s == ShowPlan(h, opened)
  <2>1. p.agents \in Seq(Agent) /\ p.done \in Nat /\ p.done < Len(p.agents)
    BY <1>4, <1>8 DEF PlanRow, RowOK
  <2>2. Len(p.agents) \in Nat /\ DOMAIN p.agents = 1..Len(p.agents) BY <2>1, LenProperties
  <2>3. p.done + 1 \in 1..Len(p.agents) BY <2>1, <2>2
  <2>4. target \in Agent BY <2>1, <2>3, ElementOfSeq
  <2>5. target \in a.candidates BY <1>4, <2>2, <2>3 DEF Within, ToSet
  <2> HIDE DEF target
  <2>5a. target \in Names /\ "fixed" \in Words BY <2>4 DEF Names, Words
  <2>6. /\ o \in AnswerType /\ o.action = "open_agent" /\ o.target = target /\ Permitted(o)
    BY <2>4, <2>5, <2>5a, WordedGood
  <2>7. o = opened
    <3>1. blank.text = "fixed" BY DEF Blank
    <3>2. blank \in AnswerType BY BlankGood DEF GoodAnswer
    <3> HIDE DEF blank
    <3>3. [blank EXCEPT !.action = "open_agent", !.target = target, !.text = "fixed"]
          = [blank EXCEPT !.action = "open_agent", !.target = target]
      BY <3>1, <3>2 DEF AnswerType
    <3> QED BY <3>3 DEF blank, target, Worded
  <2> HIDE DEF o, opened
  <2>8. /\ s \in AnswerType /\ s.action = "open_agent" /\ s.target = target
        /\ Permitted(s) /\ s.plan = a.active /\ s.agents = p.agents
        /\ s.version = p.version /\ s.planStatus = p.status
    BY <1>5, <2>6, <2>7
  <2>9. sent = AttachInvocation(a.request, s) OBVIOUS
  <2> HIDE DEF s, sent
  <2>10. /\ GoodAnswer(sent, a.candidates, a.request, FALSE)
         /\ sent.plan = s.plan /\ sent.agents = s.agents /\ sent.version = s.version
    BY <1>4, <2>4, <2>5, <2>8, <2>9, AttachedGood DEF AgentActions
  <2>11. out = [sent EXCEPT !.planStatus = "blocked"] BY <1>8
  <2> HIDE DEF out
  <2>12. sent \in AnswerType BY <2>10 DEF GoodAnswer
  <2>13. out \in AnswerType BY <2>11, <2>12 DEF AnswerType, Statuses
  <2>14. /\ out.action = sent.action /\ out.target = sent.target /\ out.plan = sent.plan
         /\ out.agents = sent.agents /\ out.version = sent.version
         /\ out.policy = sent.policy /\ out.invocation = sent.invocation
         /\ out.planStatus = "blocked"
    BY <2>11, <2>12 DEF AnswerType
  <2>15. GoodAnswer(out, a.candidates, a.request, FALSE)
    BY <2>10, <2>13, <2>14 DEF GoodAnswer, Permitted
  <2>16. Known([a EXCEPT !.pc = "after", !.out = out], plans)
    BY <1>6, <1>8, <2>8, <2>10, <2>14
  <2> QED BY <1>1, <2>15, <2>16, AnswerSteps
<1> QED BY <1>7, <1>8

(* The language model decides.                                             *)
LEMMA ModelDecidesSteps ==
  ASSUME RouteInv, NEW h \in Attempt, ModelDecides(h)
  PROVE  RouteInv'
<1> DEFINE a == attempt[h]
           fixed(out) == Corrected(h, out, a.request, a.candidates)
           low(out) == out.confidence = "low"
           final(out) == Kept(AttachInvocation(a.request, ClarifyOnLowConfidence(fixed(out))))
           left(out) == [a EXCEPT !.pc = "after", !.unsure = low(out), !.active = NoPlan,
                                  !.read = NoStoredPlan, !.out = final(out)]
<1>1. a.pc = "decide" /\ UNCHANGED <<rturn, plans>> BY DEF ModelDecides, Is
<1>2. PICK out \in DirectOutputs \cup AgentOutputs \cup PlanOutputs(h) :
        attempt' = [attempt EXCEPT ![h] =
                      IF ~Valid(fixed(out), a.request, a.candidates) THEN Failed ELSE left(out)]
  BY DEF ModelDecides
<1>3. /\ a \in AttemptRec /\ PlanSide(h, a, plans) /\ AnswerSide(a) /\ TurnSide(a, rturn)
      /\ a.candidates \in SUBSET Agent /\ IsFiniteSet(a.candidates)
      /\ a.active \in PlanIds \cup {NoPlan}
  BY AttemptFacts
<1>4. CASE ~Valid(fixed(out), a.request, a.candidates)
  <2>1. attempt' = [attempt EXCEPT ![h] = Failed] BY <1>2, <1>4
  <2> QED BY <1>1, <2>1, FailSteps
<1>5. CASE Valid(fixed(out), a.request, a.candidates)
  <2>1. PICK unsure \in BOOLEAN : unsure = low(out) OBVIOUS
  <2> DEFINE o == final(out)
             none == NoStoredPlan
             b == [a EXCEPT !.pc = "after", !.unsure = unsure, !.active = NoPlan,
                            !.read = none, !.out = o]
  <2>2. attempt' = [attempt EXCEPT ![h] = b] BY <1>2, <1>5, <2>1
  <2>3. a.request \in Requests BY <1>1, <1>3 DEF TurnSide
  <2>4. /\ GoodAnswer(o, a.candidates, a.request, unsure)
        /\ o.plan # NoPlan => o.plan \in {h, a.active} /\ o.agents # <<>>
        /\ o.version = 0 /\ o.planStatus = "pending"
    <3>1. unsure <=> out.confidence = "low" BY <2>1
    <3> QED BY <1>3, <1>5, <2>3, <3>1, ModelAnswersGood
  <2>5. none \in PlanRow \cup {NoStoredPlan} /\ none.done = 0 BY DEF NoStoredPlan
  <2> HIDE DEF o, none
  <2>6. o \in AnswerType BY <2>4 DEF GoodAnswer
  <2>7. b \in AttemptRec BY <1>3, <2>5, <2>6 DEF AttemptRec, AttemptPcs
  <2>8. /\ b.pc = "after" /\ b.out = o /\ b.unsure = unsure /\ b.request = a.request
        /\ b.candidates = a.candidates /\ b.read = none
    BY <1>3 DEF AttemptRec
  <2> HIDE DEF b
  <2>10. PlanSide(h, b, plans)
    <3>1. CASE o.plan = NoPlan BY <1>1, <1>3, <2>8, <3>1 DEF PlanSide
    <3>2. CASE o.plan = h /\ o.plan # NoPlan
      <4>1. Fresh(h, b) BY <2>4, <2>5, <2>8, <3>2 DEF Fresh
      <4> QED BY <1>1, <1>3, <2>8, <4>1 DEF PlanSide
    <3>3. CASE o.plan = a.active /\ o.plan # NoPlan
      <4>1. /\ a.active \in PlanIds /\ plans[a.active].status # "none"
            /\ Within(plans[a.active].agents, a.candidates)
        BY <1>1, <1>3, <3>3 DEF PlanSide
      <4>2. Known(b, plans) BY <2>4, <2>8, <3>3, <4>1 DEF Known
      <4> QED BY <1>1, <1>3, <2>8, <4>2 DEF PlanSide
    <3> QED BY <2>4, <3>1, <3>2, <3>3
  <2>11. AnswerSide(b) BY <2>4, <2>8 DEF AnswerSide
  <2>12. TurnSide(b, rturn) BY <1>1, <1>3, <2>8 DEF TurnSide
  <2>13. AttemptOK(h, b, rturn, plans) BY <2>10, <2>11, <2>12 DEF AttemptOK
  <2>14. PlanOf(b) = NoPlan BY <2>8 DEF PlanOf
  <2> QED BY <1>1, <2>2, <2>7, <2>13, <2>14, QuietSteps
<1> QED BY <1>4, <1>5-----------------------------------------------------------------------------
(* _after_route.                                                           *)

(* What is written to a Plan and to a Turn.                                *)
RowWritten(row, status, agents, policy, version, done) ==
  [row EXCEPT !.status = status, !.agents = agents, !.policy = policy, !.version = version,
              !.done = done]
TurnWritten(turn, status, version, bound) ==
  [turn EXCEPT !.status = status, !.version = version, !.plan = bound]
TurnEnded(turn, version, final) ==
  [turn EXCEPT !.status = "completed", !.version = version, !.plan = NoPlan, !.final = final]
TurnAnswered(turn, version, agent, final) ==
  [turn EXCEPT !.status = "completed", !.version = version, !.agent = agent, !.final = final]

(* A row that is written is a row.                                         *)
LEMMA RowsWritten ==
  ASSUME NEW row \in PlanRow, NEW status \in Statuses, NEW agents \in Seq(Agent),
         NEW policy \in PolicyNames, NEW version \in Nat, NEW done \in Nat,
         NEW new, new = RowWritten(row, status, agents, policy, version, done)
  PROVE  /\ new \in PlanRow /\ new.status = status /\ new.agents = agents
         /\ new.version = version /\ new.done = done
BY DEF PlanRow, RowWritten

(* So is a Turn.                                                           *)
LEMMA TurnsWritten ==
  ASSUME NEW turn \in TurnRec, NEW status \in {"running", "blocked"},
         NEW version \in Nat, NEW bound \in PlanIds \cup {NoPlan},
         NEW new, new = TurnWritten(turn, status, version, bound)
  PROVE  /\ new \in TurnRec /\ new.status = status /\ new.version = version
         /\ new.plan = bound /\ new.request = turn.request /\ new.final = turn.final
<1> DEFINE requests == Requests \cup {<<>>}
<1>1. TurnRec = [status : {"none", "routing", "running", "blocked", "completed"}, version : Nat,
        request : requests, plan : PlanIds \cup {NoPlan}, final : Finals, agent : Names]
  BY DEF TurnRec
<1> HIDE DEF requests
<1> QED BY <1>1 DEF TurnWritten

(* So is one that ends.                                                    *)
LEMMA TurnsEnded ==
  ASSUME NEW turn \in TurnRec, NEW version \in Nat, NEW agent \in Names, NEW final \in Finals,
         NEW new, \/ new = TurnEnded(turn, version, final)
                  \/ new = TurnAnswered(turn, version, agent, final)
  PROVE  /\ new \in TurnRec /\ new.status = "completed" /\ new.version = version
         /\ new.request = turn.request /\ new.final = final
<1> DEFINE requests == Requests \cup {<<>>}
<1>1. TurnRec = [status : {"none", "routing", "running", "blocked", "completed"}, version : Nat,
        request : requests, plan : PlanIds \cup {NoPlan}, final : Finals, agent : Names]
  BY DEF TurnRec
<1> HIDE DEF requests
<1>2. CASE new = TurnEnded(turn, version, final) BY <1>1, <1>2 DEF TurnEnded
<1>3. CASE new = TurnAnswered(turn, version, agent, final) BY <1>1, <1>3 DEF TurnAnswered
<1> QED BY <1>2, <1>3

(* The Plan is stored, or found as it is stored: a stored one keeps its    *)
(* steps and what is done of them.                                         *)
LEMMA AfterPlanMoves ==
  ASSUME RouteInv, NEW h \in Attempt, AfterPlan(h)
  PROVE  /\ plans' \in [PlanIds -> PlanRow] /\ \A p \in PlanIds : RowOK(plans'[p])
         /\ \A p \in PlanIds : Onward(plans[p], plans'[p])
         /\ \A p \in PlanIds \ {h} : plans[p].status = "none" => plans'[p].status = "none"
         /\ plans'[attempt[h].out.plan].status # "none" /\ attempt[h].out.plan \in PlanIds
         /\ Within(plans'[attempt[h].out.plan].agents, attempt[h].candidates)
<1> DEFINE a == attempt[h]
           out == a.out
           q == out.plan
           stored == plans[q]
           same == out.agents = stored.agents /\ out.version = stored.version
                /\ out.planStatus = stored.status /\ out.planPolicy = stored.policy
           kept == same \/ ~MayStore(stored, out)
           row == [stored EXCEPT !.status = out.planStatus, !.agents = out.agents,
                                 !.policy = out.planPolicy, !.version = stored.version + 1,
                                 !.done = a.read.done]
<1>1. /\ a.pc = "after" /\ q # NoPlan /\ rturn' = rturn
      /\ plans' = IF kept THEN plans ELSE [plans EXCEPT ![q] = row]
  BY DEF AfterPlan, Is
<1>2. /\ a \in AttemptRec /\ PlanSide(h, a, plans) /\ AnswerSide(a) /\ out \in AnswerType
  BY AttemptFacts
<1>3. /\ \A p \in PlanIds : Onward(plans[p], plans[p])
      /\ plans \in [PlanIds -> PlanRow] /\ \A p \in PlanIds : RowOK(plans[p])
  BY NothingMoves
<1>4. q \in PlanIds BY <1>1, <1>2 DEF AnswerType
<1>5. stored \in PlanRow /\ RowOK(stored) BY <1>3, <1>4
<1>6. /\ stored.version \in Nat /\ stored.done \in Nat /\ stored.agents \in Seq(Agent)
      /\ out.version \in Nat /\ out.agents \in Seq(Agent) /\ out.planStatus \in Statuses
      /\ out.planPolicy \in PolicyNames
  BY <1>2, <1>5 DEF PlanRow, AnswerType
<1>7. Within(out.agents, a.candidates)
  BY <1>1, <1>2 DEF AnswerSide, AnsweredPcs, GoodAnswer
<1>8. CASE Fresh(h, a)
  <2>1. q = h /\ stored.status = "none" /\ out.agents # <<>> /\ out.planStatus = "pending"
        /\ a.read.done = 0 /\ stored.version = 0 /\ stored.done = 0
    BY <1>1, <1>2, <1>5, <1>8 DEF Fresh, PlanSide, RowOK
  <2>2. ~kept BY <2>1 DEF MayStore
  <2>3. plans' = [plans EXCEPT ![q] = row] BY <1>1, <2>2
  <2>4. stored.version + 1 \in Nat /\ a.read.done \in Nat BY <1>6, <2>1
  <2>4a. row = RowWritten(stored, out.planStatus, out.agents, out.planPolicy,
                          stored.version + 1, a.read.done)
    BY DEF RowWritten
  <2> HIDE DEF row
  <2>5. /\ row \in PlanRow /\ row.status = "pending" /\ row.agents = out.agents
        /\ row.version = 1 /\ row.done = 0
    BY <1>5, <1>6, <2>1, <2>4, <2>4a, RowsWritten
  <2>6. Len(out.agents) \in Nat /\ Len(out.agents) > 0 BY <1>6, <2>1, LenProperties, EmptySeq
  <2>7. RowOK(row) BY <2>1, <2>5, <2>6 DEF RowOK
  <2>8. plans'[q] = row /\ \A p \in PlanIds \ {q} : plans'[p] = plans[p] BY <1>3, <1>4, <2>3
  <2>9. Onward(stored, row) BY <2>1 DEF Onward
  <2>10. plans' \in [PlanIds -> PlanRow] BY <1>3, <1>4, <2>3, <2>5
  <2>11. \A p \in PlanIds : RowOK(plans'[p]) BY <1>3, <2>7, <2>8
  <2>12. \A p \in PlanIds : Onward(plans[p], plans'[p]) BY <1>3, <2>8, <2>9
  <2>13. \A p \in PlanIds \ {h} : plans[p].status = "none" => plans'[p].status = "none"
    BY <2>1, <2>8
  <2>14. plans'[q].status # "none" /\ Within(plans'[q].agents, a.candidates)
    BY <1>7, <2>5, <2>8
  <2> QED BY <1>4, <2>10, <2>11, <2>12, <2>13, <2>14
<1>9. CASE Known(a, plans)
  <2>1. stored.status # "none" /\ Within(stored.agents, a.candidates) BY <1>9 DEF Known
  <2>2. stored.version > 0 /\ stored.agents # <<>> BY <1>5, <2>1 DEF RowOK
  <2>3. CASE kept
    <3>1. plans' = plans BY <1>1, <2>3
    <3> QED BY <1>3, <1>4, <2>1, <3>1
  <2>4. CASE ~kept
    <3>1. out.version = stored.version BY <2>1, <2>4 DEF MayStore
    <3>2. /\ ReadOf(a.read, stored) /\ out.version = a.read.version
          /\ out.agents = a.read.agents /\ out.planStatus # "none"
          /\ out.planStatus \in OpenStatuses => a.read.status \in OpenStatuses
      BY <1>6, <1>9, <2>2, <3>1 DEF Known
    <3>3. a.read = stored BY <3>1, <3>2 DEF ReadOf
    <3>4. plans' = [plans EXCEPT ![q] = row] BY <1>1, <2>4
    <3>5. stored.version + 1 \in Nat /\ a.read.done \in Nat BY <1>6, <3>3
    <3>5a. row = RowWritten(stored, out.planStatus, out.agents, out.planPolicy,
                            stored.version + 1, a.read.done)
      BY DEF RowWritten
    <3> HIDE DEF row
    <3>5b. stored \in PlanRow /\ out.agents = stored.agents /\ a.read.done = stored.done
      BY <1>5, <3>2, <3>3
    <3>5c. /\ row \in PlanRow /\ row.status = out.planStatus /\ row.agents = out.agents
           /\ row.version = stored.version + 1 /\ row.done = a.read.done
      <4>1. /\ out.planStatus \in Statuses /\ out.agents \in Seq(Agent)
            /\ out.planPolicy \in PolicyNames
        BY <1>6
      <4> HIDE DEF a, out, stored
      <4> QED BY <3>5, <3>5a, <3>5b, <4>1, RowsWritten
    <3>6. /\ row \in PlanRow /\ row.status = out.planStatus /\ row.agents = stored.agents
          /\ row.version = stored.version + 1 /\ row.done = stored.done
      BY <3>5b, <3>5c
    <3>7. RowOK(row) BY <1>5, <1>6, <2>1, <2>2, <3>2, <3>3, <3>6 DEF RowOK
    <3>8. Onward(stored, row) BY <1>6, <3>2, <3>6 DEF Onward
    <3>9. plans'[q] = row /\ \A p \in PlanIds \ {q} : plans'[p] = plans[p] BY <1>3, <1>4, <3>4
    <3>10. plans' \in [PlanIds -> PlanRow] BY <1>3, <1>4, <3>4, <3>6
    <3>11. \A p \in PlanIds : RowOK(plans'[p]) BY <1>3, <3>7, <3>9
    <3>12. \A p \in PlanIds : Onward(plans[p], plans'[p]) BY <1>3, <3>8, <3>9
    <3>13. \A p \in PlanIds \ {h} : plans[p].status = "none" => plans'[p].status = "none"
      BY <2>1, <3>9
    <3>14. plans'[q].status # "none" /\ Within(plans'[q].agents, a.candidates)
      BY <2>1, <3>2, <3>6, <3>9
    <3> QED BY <1>4, <3>10, <3>11, <3>12, <3>13, <3>14
  <2> QED BY <2>3, <2>4
<1> QED BY <1>1, <1>2, <1>8, <1>9 DEF PlanSide

(* The attempt goes on with the Plan that is stored.                       *)
LEMMA AfterPlanSteps ==
  ASSUME RouteInv, NEW h \in Attempt, AfterPlan(h)
  PROVE  RouteInv'
<1> DEFINE a == attempt[h]
           out == a.out
           stored == plans[out.plan]
           same == out.agents = stored.agents /\ out.version = stored.version
                /\ out.planStatus = stored.status /\ out.planPolicy = stored.policy
           kept == same \/ ~MayStore(stored, out)
           agents == IF kept THEN stored.agents ELSE out.agents
           o == [out EXCEPT !.agents = agents]
           b == [a EXCEPT !.pc = "attach", !.out = o]
<1>1. /\ a.pc = "after" /\ out.plan # NoPlan /\ rturn' = rturn
      /\ attempt' = [attempt EXCEPT ![h] = b]
      /\ kept => plans' = plans
  BY DEF AfterPlan, Is
<1>2. /\ a \in AttemptRec /\ AnswerSide(a) /\ TurnSide(a, rturn) /\ out \in AnswerType
  BY AttemptFacts
<1>3. /\ plans' \in [PlanIds -> PlanRow] /\ \A p \in PlanIds : RowOK(plans'[p])
      /\ \A p \in PlanIds : Onward(plans[p], plans'[p])
      /\ \A p \in PlanIds \ {h} : plans[p].status = "none" => plans'[p].status = "none"
      /\ plans'[out.plan].status # "none" /\ out.plan \in PlanIds
      /\ Within(plans'[out.plan].agents, a.candidates)
  BY AfterPlanMoves
<1>4. /\ TurnMoves(rturn, rturn') /\ rturn' \in TurnRec /\ FinalOK(rturn')
      /\ plans \in [PlanIds -> PlanRow]
  BY <1>1, NothingMoves
<1>5. GoodAnswer(out, a.candidates, a.request, a.unsure)
  BY <1>1, <1>2 DEF AnswerSide, AnsweredPcs
<1>6. agents \in Seq(Agent) /\ Within(agents, a.candidates)
  <2>1. CASE kept
    <3>1. plans[out.plan] \in PlanRow BY <1>3, <1>4
    <3>2. stored.agents \in Seq(Agent) BY <3>1 DEF PlanRow
    <3>3. Within(stored.agents, a.candidates) BY <1>1, <1>3, <2>1
    <3> QED BY <2>1, <3>2, <3>3
  <2>2. CASE ~kept
    <3>1. out.agents \in Seq(Agent) BY <1>2 DEF AnswerType
    <3> QED BY <1>5, <2>2, <3>1 DEF GoodAnswer
  <2> QED BY <2>1, <2>2
<1> HIDE DEF agents
<1>7. o \in AnswerType BY <1>2, <1>6 DEF AnswerType
<1>8. /\ o.action = out.action /\ o.target = out.target /\ o.plan = out.plan
      /\ o.agents = agents /\ o.policy = out.policy /\ o.invocation = out.invocation
  BY <1>2 DEF AnswerType
<1> HIDE DEF o
<1>9. GoodAnswer(o, a.candidates, a.request, a.unsure)
  BY <1>5, <1>6, <1>7, <1>8 DEF GoodAnswer, Permitted
<1>10. b \in AttemptRec BY <1>2, <1>7 DEF AttemptRec, AttemptPcs
<1>11. /\ b.pc = "attach" /\ b.out = o /\ b.unsure = a.unsure /\ b.request = a.request
       /\ b.candidates = a.candidates
  BY <1>2 DEF AttemptRec
<1> HIDE DEF b
<1>12. PlanSide(h, b, plans') BY <1>1, <1>3, <1>8, <1>11 DEF PlanSide
<1>13. AnswerSide(b) BY <1>9, <1>11 DEF AnswerSide
<1>14. TurnSide(b, rturn') BY <1>1, <1>2, <1>11 DEF TurnSide
<1>15. AttemptOK(h, b, rturn', plans') BY <1>12, <1>13, <1>14 DEF AttemptOK
<1>16. PlanOf(b) = NoPlan BY <1>11 DEF PlanOf
<1> HIDE DEF RouteInv, AttemptOK, PlanOf, out
<1> QED BY <1>1, <1>3, <1>4, <1>10, <1>15, <1>16, AttemptSteps

(* The Turn is read before the Plan is attached to it.                     *)
LEMMA AttachReadSteps ==
  ASSUME RouteInv, NEW h \in Attempt, AttachRead(h)
  PROVE  RouteInv'
<1> DEFINE a == attempt[h]
           b == [a EXCEPT !.pc = "attaching", !.seen = rturn.version]
<1>1. /\ a.pc = "attach" /\ UNCHANGED <<rturn, plans>>
      /\ attempt' = [attempt EXCEPT ![h] =
             IF TurnOpen(rturn) /\ rturn.plan \in {NoPlan, a.out.plan} THEN b ELSE Failed]
  BY DEF AttachRead, Is
<1>2. /\ a \in AttemptRec /\ PlanSide(h, a, plans) /\ AnswerSide(a) /\ TurnSide(a, rturn)
  BY AttemptFacts
<1>3. rturn \in TurnRec BY NothingMoves
<1>4. CASE TurnOpen(rturn) /\ rturn.plan \in {NoPlan, a.out.plan}
  <2>1. attempt' = [attempt EXCEPT ![h] = b] BY <1>1, <1>4
  <2>2. rturn.version \in Nat BY <1>3 DEF TurnRec
  <2>3. b \in AttemptRec BY <1>2, <2>2 DEF AttemptRec, AttemptPcs
  <2>4. /\ b.pc = "attaching" /\ b.out = a.out /\ b.unsure = a.unsure
        /\ b.request = a.request /\ b.candidates = a.candidates /\ b.seen = rturn.version
    BY <1>2 DEF AttemptRec
  <2> HIDE DEF b
  <2>5. PlanSide(h, b, plans) BY <1>1, <1>2, <2>4 DEF PlanSide
  <2>6. AnswerSide(b) BY <1>1, <1>2, <2>4 DEF AnswerSide, AnsweredPcs
  <2>7. TurnSide(b, rturn) BY <1>1, <1>2, <1>4, <2>2, <2>4 DEF TurnSide
  <2>8. AttemptOK(h, b, rturn, plans) BY <2>5, <2>6, <2>7 DEF AttemptOK
  <2>9. PlanOf(b) = NoPlan BY <2>4 DEF PlanOf
  <2> QED BY <1>1, <2>1, <2>3, <2>8, <2>9, QuietSteps
<1>5. CASE ~(TurnOpen(rturn) /\ rturn.plan \in {NoPlan, a.out.plan})
  <2>1. attempt' = [attempt EXCEPT ![h] = Failed] BY <1>1, <1>5
  <2> QED BY <1>1, <2>1, FailSteps
<1> QED BY <1>4, <1>5

(* The Plan is attached, if the Turn is as it was read.                    *)
LEMMA AttachStoreSteps ==
  ASSUME RouteInv, NEW h \in Attempt, AttachStore(h)
  PROVE  RouteInv'
<1> DEFINE a == attempt[h]
           status == IF a.out.policy = "auto_execute" THEN "running" ELSE "blocked"
           moved == [rturn EXCEPT !.status = status, !.version = rturn.version + 1,
                                  !.plan = a.out.plan]
           b == [a EXCEPT !.pc = "returned", !.seen = 0]
<1>1. /\ a.pc = "attaching" /\ plans' = plans
      /\ IF Unchanged(h) THEN rturn' = moved /\ Return(h)
         ELSE attempt' = [attempt EXCEPT ![h] = Failed] /\ UNCHANGED rturn
  BY DEF AttachStore, Is
<1>2. /\ a \in AttemptRec /\ PlanSide(h, a, plans) /\ AnswerSide(a) /\ TurnSide(a, rturn)
      /\ a.out \in AnswerType
  BY AttemptFacts
<1>3. /\ rturn \in TurnRec /\ FinalOK(rturn) /\ plans \in [PlanIds -> PlanRow]
      /\ \A p \in PlanIds : RowOK(plans[p]) /\ Onward(plans[p], plans[p])
      /\ attempt \in [Attempt -> AttemptRec]
  BY NothingMoves
<1>4. CASE ~Unchanged(h) BY <1>1, <1>4, FailSteps
<1>5. CASE Unchanged(h)
  <2>1. a.seen = rturn.version /\ TurnOpen(rturn) BY <1>5 DEF Unchanged
  <2>2. /\ a.out.plan # NoPlan /\ plans[a.out.plan].status # "none"
        /\ rturn.plan \in {NoPlan, a.out.plan}
    BY <1>1, <1>2, <2>1 DEF PlanSide, TurnSide
  <2>3. attempt' = [attempt EXCEPT ![h] = b] /\ rturn' = moved
    BY <1>1, <1>3, <1>5 DEF Return
  <2>4. b \in AttemptRec BY <1>2 DEF AttemptRec, AttemptPcs
  <2>5. /\ b.pc = "returned" /\ b.out = a.out /\ b.unsure = a.unsure
        /\ b.request = a.request /\ b.candidates = a.candidates
    BY <1>2 DEF AttemptRec
  <2> HIDE DEF b
  <2>6. status \in {"running", "blocked"} OBVIOUS
  <2> HIDE DEF status
  <2>7. rturn.version \in Nat /\ a.out.plan \in PlanIds \cup {NoPlan}
    BY <1>2, <1>3 DEF TurnRec, AnswerType
  <2>8. rturn.version + 1 \in Nat BY <2>7
  <2>8a. moved = TurnWritten(rturn, status, rturn.version + 1, a.out.plan) BY DEF TurnWritten
  <2> HIDE DEF moved
  <2>9. /\ moved \in TurnRec /\ moved.status = status /\ moved.version = rturn.version + 1
        /\ moved.plan = a.out.plan /\ moved.request = rturn.request
        /\ moved.final = rturn.final
    <3>1. rturn \in TurnRec /\ a.out.plan \in PlanIds \cup {NoPlan} BY <1>3, <2>7
    <3> HIDE DEF a
    <3> QED BY <3>1, <2>6, <2>8, <2>8a, TurnsWritten, SMTT(30)
  <2>10. FinalOK(moved) /\ TurnMoves(rturn, moved)
    BY <1>3, <2>1, <2>2, <2>6, <2>7, <2>9 DEF FinalOK, TurnMoves, TurnOpen
  <2>11. PlanSide(h, b, plans) BY <2>2, <2>5 DEF PlanSide
  <2>12. AnswerSide(b) BY <1>1, <1>2, <2>5 DEF AnswerSide, AnsweredPcs
  <2>13. TurnSide(b, moved) BY <1>1, <1>2, <2>2, <2>5, <2>6, <2>9 DEF TurnSide
  <2>14. AttemptOK(h, b, rturn', plans') BY <1>1, <2>3, <2>11, <2>12, <2>13 DEF AttemptOK
  <2>15. \A k \in Attempt \ {h} : PlanOf(attempt[k]) \in {NoPlan, PlanOf(b)}
    <3> TAKE k \in Attempt \ {h}
    <3>1. TurnSide(attempt[k], rturn) BY AttemptFacts
    <3>2. PlanOf(b) = a.out.plan BY <2>5 DEF PlanOf
    <3> QED BY <2>1, <2>2, <3>1, <3>2 DEF TurnSide, PlanOf
  <2> HIDE DEF RouteInv, AttemptOK, PlanOf
  <2> QED BY <1>1, <1>3, <2>3, <2>4, <2>9, <2>10, <2>14, <2>15, AttemptSteps
<1> QED BY <1>4, <1>5

(* A text is no empty list.                                                *)
LEMMA FinalsProper ==
  ASSUME NEW out \in AnswerType
  PROVE  Final(out) \in Finals /\ Final(out) # <<>>
<1> DEFINE action == IF out.action = "exit_agent" THEN "reply" ELSE out.action
           text == out.text
<1>1. action \in AllActions \cup {"agent_result"} /\ text \in Words \cup {"x"}
  BY DEF AnswerType, AllActions, DirectActions
<1>2. Final(out) = <<action, text>> BY DEF Final
<1> HIDE DEF action, text
<1>3. <<action, text>> # <<>> OBVIOUS
<1> QED BY <1>1, <1>2, <1>3 DEF Finals

(* The Turn is read before it is completed.                                *)
LEMMA CompleteReadSteps ==
  ASSUME RouteInv, NEW h \in Attempt, CompleteRead(h)
  PROVE  RouteInv'
<1> DEFINE a == attempt[h]
           b == [a EXCEPT !.pc = "completing", !.seen = rturn.version]
           c == [a EXCEPT !.pc = "returned"]
<1>1. /\ a.pc = "after" /\ UNCHANGED <<rturn, plans>> /\ RouteOnly(a.out)
      /\ \/ TurnOpen(rturn) /\ attempt' = [attempt EXCEPT ![h] = b]
         \/ ~TurnOpen(rturn) /\ rturn.final = Final(a.out) /\ attempt' = [attempt EXCEPT ![h] = c]
         \/ attempt' = [attempt EXCEPT ![h] = Failed]
  <2>1. attempt' = [attempt EXCEPT ![h] =
               CASE TurnOpen(rturn) -> b
                 [] ~TurnOpen(rturn) /\ rturn.final = Final(a.out) -> c
                 [] OTHER -> Failed]
    BY DEF CompleteRead
  <2> HIDE DEF b, c
  <2>2. a.pc = "after" /\ UNCHANGED <<rturn, plans>> /\ RouteOnly(a.out)
    BY DEF CompleteRead, Is
  <2> QED BY <2>1, <2>2
<1>2. /\ a \in AttemptRec /\ PlanSide(h, a, plans) /\ AnswerSide(a) /\ TurnSide(a, rturn)
      /\ a.out \in AnswerType
  BY AttemptFacts
<1>3. rturn \in TurnRec /\ FinalOK(rturn) BY NothingMoves
<1>4. a.out.plan = NoPlan /\ a.out.invocation = NoAgent BY <1>1 DEF RouteOnly
<1>5. CASE TurnOpen(rturn) /\ attempt' = [attempt EXCEPT ![h] = b]
  <2>1. rturn.version \in Nat BY <1>3 DEF TurnRec
  <2>2. b \in AttemptRec BY <1>2, <2>1 DEF AttemptRec, AttemptPcs
  <2>3. /\ b.pc = "completing" /\ b.out = a.out /\ b.unsure = a.unsure
        /\ b.request = a.request /\ b.candidates = a.candidates /\ b.seen = rturn.version
    BY <1>2 DEF AttemptRec
  <2> HIDE DEF b
  <2>4. PlanSide(h, b, plans) BY <2>3 DEF PlanSide
  <2>5. AnswerSide(b) BY <1>1, <1>2, <2>3 DEF AnswerSide, AnsweredPcs
  <2>6. TurnSide(b, rturn) BY <1>1, <1>2, <2>1, <2>3 DEF TurnSide
  <2>7. AttemptOK(h, b, rturn, plans) BY <2>4, <2>5, <2>6 DEF AttemptOK
  <2>8. PlanOf(b) = NoPlan BY <2>3 DEF PlanOf
  <2> QED BY <1>1, <1>5, <2>2, <2>7, <2>8, QuietSteps
<1>6. CASE /\ ~TurnOpen(rturn) /\ rturn.final = Final(a.out)
           /\ attempt' = [attempt EXCEPT ![h] = c]
  <2>1. rturn.status = "completed" BY <1>2, <1>3, <1>6, FinalsProper DEF FinalOK
  <2>2. c \in AttemptRec BY <1>2 DEF AttemptRec, AttemptPcs
  <2>3. /\ c.pc = "returned" /\ c.out = a.out /\ c.unsure = a.unsure
        /\ c.request = a.request /\ c.candidates = a.candidates
    BY <1>2 DEF AttemptRec
  <2> HIDE DEF c
  <2>4. PlanSide(h, c, plans) BY <1>4, <2>3 DEF PlanSide
  <2>5. AnswerSide(c) BY <1>1, <1>2, <2>3 DEF AnswerSide, AnsweredPcs
  <2>6. TurnSide(c, rturn) BY <1>1, <1>2, <1>4, <1>6, <2>1, <2>3 DEF TurnSide
  <2>7. AttemptOK(h, c, rturn, plans) BY <2>4, <2>5, <2>6 DEF AttemptOK
  <2>8. PlanOf(c) = NoPlan BY <1>4, <2>3 DEF PlanOf
  <2> QED BY <1>1, <1>6, <2>2, <2>7, <2>8, QuietSteps
<1>7. CASE attempt' = [attempt EXCEPT ![h] = Failed] BY <1>1, <1>7, FailSteps
<1> QED BY <1>1, <1>5, <1>6, <1>7(* The Turn is completed, if it is as it was read.                         *)
LEMMA CompleteStoreSteps ==
  ASSUME RouteInv, NEW h \in Attempt, CompleteStore(h)
  PROVE  RouteInv'
<1> DEFINE a == attempt[h]
           final == Final(a.out)
           moved == [rturn EXCEPT !.status = "completed", !.version = rturn.version + 1,
                                  !.plan = NoPlan, !.final = final]
           b == [a EXCEPT !.pc = "returned", !.seen = 0]
<1>1. /\ a.pc = "completing" /\ plans' = plans
      /\ IF Unchanged(h) THEN rturn' = moved /\ Return(h)
         ELSE /\ attempt' = [attempt EXCEPT ![h] = IF rturn.final = final THEN b ELSE Failed]
              /\ UNCHANGED rturn
  BY DEF CompleteStore, Is
<1>2. /\ a \in AttemptRec /\ PlanSide(h, a, plans) /\ AnswerSide(a) /\ TurnSide(a, rturn)
      /\ a.out \in AnswerType
  BY AttemptFacts
<1>3. /\ rturn \in TurnRec /\ FinalOK(rturn) /\ plans \in [PlanIds -> PlanRow]
      /\ \A p \in PlanIds : RowOK(plans[p]) /\ Onward(plans[p], plans[p])
      /\ attempt \in [Attempt -> AttemptRec]
  BY NothingMoves
<1>4. a.out.plan = NoPlan /\ a.out.invocation = NoAgent BY <1>1, <1>2 DEF TurnSide, RouteOnly
<1>5. final \in Finals /\ final # <<>> BY <1>2, FinalsProper
<1>6. b \in AttemptRec BY <1>2 DEF AttemptRec, AttemptPcs
<1>7. /\ b.pc = "returned" /\ b.out = a.out /\ b.unsure = a.unsure
      /\ b.request = a.request /\ b.candidates = a.candidates
  BY <1>2 DEF AttemptRec
<1>8. PlanSide(h, b, plans) BY <1>4, <1>7 DEF PlanSide
<1>9. AnswerSide(b) BY <1>1, <1>2, <1>7 DEF AnswerSide, AnsweredPcs
<1>10. PlanOf(b) = NoPlan BY <1>4, <1>7 DEF PlanOf
<1>11. Unchanged(h) => attempt' = [attempt EXCEPT ![h] = b] BY <1>1, <1>3 DEF Return
<1> HIDE DEF b
<1>12. CASE ~Unchanged(h)
  <2>1. CASE rturn.final # final
    <3>1. attempt' = [attempt EXCEPT ![h] = Failed] /\ UNCHANGED <<rturn, plans>>
      BY <1>1, <1>12, <2>1
    <3> QED BY <3>1, FailSteps
  <2>2. CASE rturn.final = final
    <3>1. attempt' = [attempt EXCEPT ![h] = b] /\ UNCHANGED <<rturn, plans>>
      BY <1>1, <1>12, <2>2
    <3>2. rturn.status = "completed" BY <1>3, <1>5, <2>2 DEF FinalOK
    <3>3. TurnSide(b, rturn) BY <1>1, <1>2, <1>4, <1>7, <2>2, <3>2 DEF TurnSide
    <3>4. AttemptOK(h, b, rturn, plans) BY <1>8, <1>9, <3>3 DEF AttemptOK
    <3> QED BY <1>6, <1>10, <3>1, <3>4, QuietSteps
  <2> QED BY <2>1, <2>2
<1>13. CASE Unchanged(h)
  <2>1. attempt' = [attempt EXCEPT ![h] = b] /\ rturn' = moved BY <1>1, <1>11, <1>13
  <2>2. TurnOpen(rturn) BY <1>13 DEF Unchanged
  <2>3. rturn.version \in Nat BY <1>3 DEF TurnRec
  <2>4. moved = TurnEnded(rturn, rturn.version + 1, final) BY DEF TurnEnded
  <2>5. /\ moved \in TurnRec /\ moved.status = "completed"
        /\ moved.version = rturn.version + 1 /\ moved.request = rturn.request
        /\ moved.final = final
    <3>1. rturn \in TurnRec /\ rturn.version + 1 \in Nat /\ NoAgent \in Names
      BY <1>3, <2>3 DEF Names
    <3> HIDE DEF moved, final, a
    <3> QED BY <1>5, <2>4, <3>1, TurnsEnded
  <2> HIDE DEF moved
  <2>6. FinalOK(moved) BY <1>5, <2>5 DEF FinalOK
  <2>7. TurnMoves(rturn, moved) BY <2>2, <2>3, <2>5 DEF TurnMoves, TurnOpen
  <2>8. TurnSide(b, moved) BY <1>1, <1>2, <1>4, <1>7, <2>5 DEF TurnSide
  <2>9. AttemptOK(h, b, rturn', plans') BY <1>1, <1>8, <1>9, <2>1, <2>8 DEF AttemptOK
  <2> HIDE DEF RouteInv, AttemptOK, PlanOf
  <2> QED BY <1>1, <1>3, <1>6, <1>10, <2>1, <2>5, <2>6, <2>7, <2>9, AttemptSteps
<1> QED BY <1>12, <1>13

(* The Turn is left to whoever invokes the agent.                          *)
LEMMA LeaveTurnSteps ==
  ASSUME RouteInv, NEW h \in Attempt, LeaveTurn(h)
  PROVE  RouteInv'
<1> DEFINE a == attempt[h]
           b == [a EXCEPT !.pc = "returned", !.seen = 0]
<1>1. /\ a.pc = "after" /\ a.out.plan = NoPlan /\ ~RouteOnly(a.out)
      /\ Return(h) /\ UNCHANGED <<rturn, plans>>
  BY DEF LeaveTurn, Is
<1>2. /\ a \in AttemptRec /\ AnswerSide(a) /\ TurnSide(a, rturn) /\ a.out \in AnswerType
  BY AttemptFacts
<1>3. attempt \in [Attempt -> AttemptRec] BY NothingMoves
<1>4. attempt' = [attempt EXCEPT ![h] = b] BY <1>1, <1>3 DEF Return
<1>5. GoodAnswer(a.out, a.candidates, a.request, a.unsure)
  BY <1>1, <1>2 DEF AnswerSide, AnsweredPcs
<1>6. a.out.invocation # NoAgent
  <2>1. CASE a.out.action \in AgentActions
    BY <1>5, <2>1, RoutingAssumption DEF GoodAnswer
  <2>2. CASE a.out.action \notin AgentActions
    <3>1. a.out.action \in DirectActions \cup {"show_plan"}
      BY <1>2, <2>2 DEF AnswerType, AllActions
    <3> QED BY <1>1, <1>5, <3>1 DEF GoodAnswer, RouteOnly
  <2> QED BY <2>1, <2>2
<1>7. b \in AttemptRec BY <1>2 DEF AttemptRec, AttemptPcs
<1>8. /\ b.pc = "returned" /\ b.out = a.out /\ b.unsure = a.unsure
      /\ b.request = a.request /\ b.candidates = a.candidates
  BY <1>2 DEF AttemptRec
<1> HIDE DEF b
<1>9. PlanSide(h, b, plans) BY <1>1, <1>8 DEF PlanSide
<1>10. AnswerSide(b) BY <1>5, <1>8 DEF AnswerSide
<1>11. TurnSide(b, rturn) BY <1>1, <1>2, <1>6, <1>8 DEF TurnSide
<1>12. AttemptOK(h, b, rturn, plans) BY <1>9, <1>10, <1>11 DEF AttemptOK
<1>13. PlanOf(b) = NoPlan BY <1>1, <1>8 DEF PlanOf
<1> QED BY <1>1, <1>4, <1>7, <1>12, <1>13, QuietSteps

(* What moves beside the attempts.                                         *)
LEMMA WorldSteps ==
  ASSUME RouteInv, attempt' = attempt, rturn' \in TurnRec, FinalOK(rturn'),
         TurnMoves(rturn, rturn'), plans' \in [PlanIds -> PlanRow],
         \A p \in PlanIds : RowOK(plans'[p]), \A p \in PlanIds : Onward(plans[p], plans'[p]),
         \A p \in PlanIds : plans[p].status = "none" => plans'[p].status = "none"
  PROVE  RouteInv'
<1>1. rturn \in TurnRec /\ plans \in [PlanIds -> PlanRow] /\ attempt \in [Attempt -> AttemptRec]
  BY NothingMoves
<1>2. \A h \in Attempt : AttemptOK(h, attempt'[h], rturn', plans')
  <2> TAKE h \in Attempt
  <2>1. /\ attempt[h] \in AttemptRec /\ PlanSide(h, attempt[h], plans)
        /\ AnswerSide(attempt[h]) /\ TurnSide(attempt[h], rturn)
    BY AttemptFacts
  <2>2. TurnSide(attempt[h], rturn') BY <1>1, <2>1, TurnSideStays
  <2>3. plans[h].status = "none" => plans'[h].status = "none" BY DEF PlanIds
  <2>4. PlanSide(h, attempt[h], plans') BY <1>1, <2>1, <2>3, PlanSideStays
  <2> QED BY <2>1, <2>2, <2>4 DEF AttemptOK
<1>3. \A h, k \in Attempt : NoPlan \in {PlanOf(attempt'[h]), PlanOf(attempt'[k])}
                           \/ PlanOf(attempt'[h]) = PlanOf(attempt'[k])
  BY DEF RouteInv
<1> QED BY <1>1, <1>2, <1>3 DEF RouteInv, RouteTypeOK

(* The agent is invoked.                                                   *)
LEMMA InvokeSteps ==
  ASSUME RouteInv, NEW h \in Attempt, InvokeFromRoute(h)
  PROVE  RouteInv'
<1> DEFINE out == attempt[h].out
           final == <<"agent_result", "x">>
           agent == out.invocation
           moved == [rturn EXCEPT !.status = "completed", !.version = rturn.version + 1,
                                  !.agent = agent, !.final = final]
<1>1. attempt' = attempt /\ plans' = plans /\ rturn' = moved /\ TurnOpen(rturn)
  BY DEF InvokeFromRoute
<1>2. /\ rturn \in TurnRec /\ FinalOK(rturn) /\ plans \in [PlanIds -> PlanRow]
      /\ \A p \in PlanIds : RowOK(plans[p]) /\ Onward(plans[p], plans[p])
  BY NothingMoves
<1>3. agent \in Names
  <2>1. out \in AnswerType BY AttemptFacts
  <2> QED BY <2>1 DEF AnswerType
<1>4. final \in Finals /\ final # <<>> BY DEF Finals
<1>5. rturn.version \in Nat BY <1>2 DEF TurnRec
<1>6. moved = TurnAnswered(rturn, rturn.version + 1, agent, final) BY DEF TurnAnswered
<1>7. /\ moved \in TurnRec /\ moved.status = "completed"
      /\ moved.version = rturn.version + 1 /\ moved.request = rturn.request
      /\ moved.final = final
  <2>1. rturn \in TurnRec /\ rturn.version + 1 \in Nat BY <1>2, <1>5
  <2> HIDE DEF moved, final, agent
  <2> QED BY <1>3, <1>4, <1>6, <2>1, TurnsEnded
<1> HIDE DEF moved, final
<1>8. FinalOK(moved) BY <1>4, <1>7 DEF FinalOK
<1>9. TurnMoves(rturn, moved) BY <1>1, <1>5, <1>7 DEF TurnMoves, TurnOpen
<1>10. /\ rturn' \in TurnRec /\ FinalOK(rturn') /\ TurnMoves(rturn, rturn')
  BY <1>1, <1>7, <1>8, <1>9
<1> HIDE DEF RouteInv
<1> QED BY <1>1, <1>2, <1>10, WorldSteps

(* A step of a Plan ends.                                                  *)
LEMMA PlanAdvancesSteps ==
  ASSUME RouteInv, NEW p \in PlanIds, PlanAdvances(p)
  PROVE  /\ RouteInv' /\ \A q \in PlanIds : Onward(plans[q], plans'[q])
<1> DEFINE row == plans[p]
           status == IF row.done + 1 = Len(row.agents) THEN "completed" ELSE "running"
           new == [row EXCEPT !.done = row.done + 1, !.version = row.version + 1,
                              !.status = status]
<1>1. row.status \in OpenStatuses /\ UNCHANGED <<rturn, attempt>> BY DEF PlanAdvances
<1>2. /\ rturn \in TurnRec /\ FinalOK(rturn) /\ plans \in [PlanIds -> PlanRow]
      /\ \A q \in PlanIds : RowOK(plans[q])
      /\ \A q \in PlanIds : Onward(plans[q], plans[q])
      /\ TurnMoves(rturn, rturn)
  BY NothingMoves
<1>3. plans' = [plans EXCEPT ![p] = new] BY <1>2 DEF PlanAdvances
<1>4. row \in PlanRow /\ RowOK(row) BY <1>2
<1>5. row.done \in Nat /\ row.version \in Nat /\ row.agents \in Seq(Agent) BY <1>4 DEF PlanRow
<1>6. row.done < Len(row.agents) /\ Len(row.agents) \in Nat /\ row.agents # <<>>
  BY <1>1, <1>4, <1>5, LenProperties DEF RowOK, OpenStatuses
<1>7. status \in {"completed", "running"} /\ (status = "running" => row.done + 1 < Len(row.agents))
  BY <1>5, <1>6
<1> HIDE DEF status
<1>8. row.done + 1 \in Nat /\ row.version + 1 \in Nat BY <1>5
<1>9. new \in PlanRow BY <1>4, <1>7, <1>8 DEF PlanRow, Statuses
<1>10. /\ new.status = status /\ new.agents = row.agents /\ new.done = row.done + 1
       /\ new.version = row.version + 1
  BY <1>4 DEF PlanRow
<1> HIDE DEF new
<1>11. RowOK(new) BY <1>5, <1>6, <1>7, <1>10 DEF RowOK, OpenStatuses
<1>12. Onward(row, new) BY <1>5, <1>7, <1>10 DEF Onward
<1>13. plans'[p] = new /\ \A q \in PlanIds \ {p} : plans'[q] = plans[q] BY <1>2, <1>3
<1>14. plans' \in [PlanIds -> PlanRow] BY <1>2, <1>3, <1>9
<1>15. \A q \in PlanIds : RowOK(plans'[q]) BY <1>2, <1>11, <1>13
<1>16. \A q \in PlanIds : Onward(plans[q], plans'[q]) BY <1>2, <1>12, <1>13
<1>17. \A q \in PlanIds : plans[q].status = "none" => plans'[q].status = "none"
  BY <1>1, <1>13 DEF OpenStatuses
<1> HIDE DEF RouteInv
<1>18. rturn' = rturn /\ attempt' = attempt BY <1>1
<1>19. RouteInv' BY <1>2, <1>14, <1>15, <1>16, <1>17, <1>18, WorldSteps
<1> QED BY <1>16, <1>19

-----------------------------------------------------------------------------
(* The theorems.                                                           *)

(* Every step keeps the invariant and no stored Plan goes back.            *)
LEMMA RouteSteps ==
  ASSUME RouteInv, [RouteNext]_routeVars
  PROVE  RouteInv' /\ \A p \in PlanIds : Onward(plans[p], plans'[p])
<1>0. /\ \A p \in PlanIds : Onward(plans[p], plans[p])
      /\ TurnMoves(rturn, rturn) /\ rturn \in TurnRec /\ FinalOK(rturn)
      /\ plans \in [PlanIds -> PlanRow] /\ \A p \in PlanIds : RowOK(plans[p])
  BY NothingMoves
<1>1. CASE UNCHANGED routeVars
  <2>1. rturn' = rturn /\ plans' = plans /\ attempt' = attempt BY <1>1 DEF routeVars
  <2>2. RouteInv' BY <1>0, <2>1, WorldSteps
  <2> QED BY <1>0, <2>1, <2>2
<1>2. ASSUME NEW h \in Attempt, NEW request \in Requests, StartConflict(h, request)
      PROVE  RouteInv' /\ plans' = plans
  <2>1. attempt' = [attempt EXCEPT ![h] = Failed] /\ UNCHANGED <<rturn, plans>>
    BY <1>2 DEF StartConflict, Fail
  <2> QED BY <2>1, FailSteps
<1>3. ASSUME NEW h \in Attempt, NEW request \in Requests, NEW c \in Candidates,
             StartTurn(h, request, c)
      PROVE  RouteInv' /\ plans' = plans
  <2>1. plans' = plans BY <1>3 DEF StartTurn
  <2> QED BY <1>3, <2>1, StartTurnSteps
<1>4. ASSUME NEW h \in Attempt,
             \/ LoadPlan(h) \/ ControlledStep(h) \/ KnowledgeReply(h) \/ ModelDecides(h)
             \/ \E target \in Agent : FixedQuestion(h, target)
      PROVE  RouteInv' /\ plans' = plans
  <2>1. RouteInv'
    BY <1>4, LoadPlanSteps, ControlledStepSteps, KnowledgeReplySteps, ModelDecidesSteps,
       FixedQuestionSteps
  <2>2. CASE LoadPlan(h) BY <2>1, <2>2 DEF LoadPlan
  <2>3. CASE ControlledStep(h) BY <2>1, <2>3 DEF ControlledStep, Answer
  <2>4. CASE KnowledgeReply(h) BY <2>1, <2>4 DEF KnowledgeReply, Answer
  <2>5. CASE ModelDecides(h) BY <2>1, <2>5 DEF ModelDecides
  <2>6. CASE \E target \in Agent : FixedQuestion(h, target)
    BY <2>1, <2>6 DEF FixedQuestion, Answer
  <2> QED BY <1>4, <2>2, <2>3, <2>4, <2>5, <2>6
<1>5. ASSUME NEW h \in Attempt, AfterPlan(h)
      PROVE  RouteInv' /\ \A p \in PlanIds : Onward(plans[p], plans'[p])
  BY <1>5, AfterPlanSteps, AfterPlanMoves
<1>6. ASSUME NEW h \in Attempt,
             \/ AttachRead(h) \/ AttachStore(h) \/ CompleteRead(h) \/ CompleteStore(h)
             \/ LeaveTurn(h) \/ InvokeFromRoute(h)
      PROVE  RouteInv' /\ plans' = plans
  <2>1. RouteInv'
    BY <1>6, AttachReadSteps, AttachStoreSteps, CompleteReadSteps, CompleteStoreSteps,
       LeaveTurnSteps, InvokeSteps
  <2>2. plans' = plans
    BY <1>6 DEF AttachRead, AttachStore, CompleteRead, CompleteStore, LeaveTurn, InvokeFromRoute
  <2> QED BY <2>1, <2>2
<1>7. ASSUME NEW p \in PlanIds, PlanAdvances(p)
      PROVE  RouteInv' /\ \A q \in PlanIds : Onward(plans[q], plans'[q])
  BY <1>7, PlanAdvancesSteps
<1>8. ASSUME plans' = plans PROVE \A p \in PlanIds : Onward(plans[p], plans'[p])
  BY <1>0, <1>8
<1> HIDE DEF RouteInv, Onward
<1> QED BY <1>1, <1>2, <1>3, <1>4, <1>5, <1>6, <1>7, <1>8 DEF RouteNext

(* The invariant implies what the answers promise.                         *)
LEMMA AnswersFollow == RouteInv => AnswersHold
<1> SUFFICES ASSUME RouteInv PROVE AnswersHold OBVIOUS
<1>1. \A h \in Attempt : PlanSide(h, attempt[h], plans) /\ TurnSide(attempt[h], rturn)
  BY AttemptFacts
<1>2. EveryAnswerIsAnchored
  BY <1>1 DEF EveryAnswerIsAnchored, Returned, Is, PlanSide, TurnSide
<1>3. AttemptsAgree
  <2> SUFFICES ASSUME NEW h \in Attempt, NEW k \in Attempt, Returned(h), Returned(k)
               PROVE  LET a == attempt[h].out
                          b == attempt[k].out
                      IN  /\ a.plan = NoPlan /\ a.invocation = NoAgent /\ b.plan = NoPlan
                             /\ b.invocation = NoAgent => Final(a) = Final(b)
                          /\ a.plan # NoPlan /\ b.plan # NoPlan => a.plan = b.plan
                          /\ Same(attempt[h].request, attempt[k].request)
    BY DEF AttemptsAgree
  <2>1. attempt[h].pc = "returned" /\ attempt[k].pc = "returned" BY DEF Returned, Is
  <2>2. TurnSide(attempt[h], rturn) /\ TurnSide(attempt[k], rturn) BY <1>1
  <2>3. NoPlan \in {PlanOf(attempt[h]), PlanOf(attempt[k])}
        \/ PlanOf(attempt[h]) = PlanOf(attempt[k])
    BY DEF RouteInv
  <2>4. PlanOf(attempt[h]) = attempt[h].out.plan /\ PlanOf(attempt[k]) = attempt[k].out.plan
    BY <2>1 DEF PlanOf
  <2> HIDE DEF RouteInv
  <2> QED BY <2>1, <2>2, <2>3, <2>4 DEF TurnSide, Same
<1> QED BY <1>2, <1>3 DEF AnswersHold

(* RouteInv and the types of Routing: for every set of attempts, agents,   *)
(* requests and texts, and whatever the language model returns.            *)
THEOREM RoutingInvariant == RouteSpec => []RouteInv
<1>1. RouteInit => RouteInv BY RouteInitial
<1>2. RouteInv /\ [RouteNext]_routeVars => RouteInv' BY RouteSteps
<1> QED BY <1>1, <1>2, PTL DEF RouteSpec

(* AnswersHold: however many attempts of a request overlap, every answer   *)
(* stands and none contradicts another.                                    *)
THEOREM AnswersAlwaysHold == RouteSpec => []AnswersHold
<1>1. RouteInv => AnswersHold BY AnswersFollow
<1> QED BY <1>1, RoutingInvariant, PTL

(* WithinCandidates: whatever the model returns, only agents the user may  *)
(* use are opened or planned with, none without its inputs, and an unsure  *)
(* model neither answers nor opens anything.                               *)
THEOREM AnswersStayWithinCandidates == RouteSpec => []WithinCandidates
<1>1. RouteInv => WithinCandidates
  <2> SUFFICES ASSUME RouteInv PROVE WithinCandidates OBVIOUS
  <2>1. \A h \in Attempt : AnswerSide(attempt[h]) BY AttemptFacts
  <2> QED BY <2>1
       DEF WithinCandidates, AnswerSide, AnsweredPcs, GoodAnswer, Within, Permitted
<1> QED BY <1>1, RoutingInvariant, PTL

(* RouterNeverRewinds: a Plan the router read a while ago takes no step    *)
(* back that has ended meanwhile.                                          *)
THEOREM TheRouterNeverRewinds == RouteSpec => RouterNeverRewinds
<1> DEFINE Keeps == \A p \in PlanIds : plans[p].status # "none" =>
                       /\ plans'[p].done >= plans[p].done
                       /\ plans'[p].agents = plans[p].agents
<1>1. RouteInv /\ [RouteNext]_routeVars => Keeps
  <2>1. ASSUME RouteInv, [RouteNext]_routeVars PROVE Keeps
    <3>1. \A p \in PlanIds : Onward(plans[p], plans'[p]) BY <2>1, RouteSteps
    <3> QED BY <3>1 DEF Onward
  <2> QED BY <2>1
<1>2. RouteInv /\ [RouteNext]_routeVars => [Keeps]_routeVars BY <1>1
<1> QED BY <1>2, RoutingInvariant, PTL DEF RouteSpec, RouterNeverRewinds
=============================================================================
