--------------------------- MODULE FormationProofs ----------------------------
(***************************************************************************)
(* Proofs about how memory is formed: TurnOutbox for every set of events   *)
(* and consumers and every bound, FormationJobs for every set of Turns,    *)
(* sessions, jobs and workers, every window and every number of attempts,  *)
(* and StructuredFormation for every set of writers, workers and versions, *)
(* every number of attempts and every cast of a job's candidates.          *)
(***************************************************************************)
EXTENDS TurnOutbox, FormationJobs, StructuredFormation, TLAPS

-----------------------------------------------------------------------------
(* The outbox of Turns.                                                    *)

(* A consumer that has delivered has had the effect: the fact that makes   *)
(* NothingLost inductive, because complete does not look at the effect.    *)
DeliveredIsEffective ==
  \A k \in Consumers : AtStage(k, "delivered") => Effective(consumer[k].event)

(* The claims of a row are numbered: no consumer has a later number than   *)
(* the row, and no two consumers have the same one.                        *)
ClaimsNumbered ==
  /\ \A k \in Consumers :
       consumer[k] # NoDelivery => consumer[k].token <= row[consumer[k].event].token
  /\ \A k, l \in Consumers :
       k # l /\ consumer[k] # NoDelivery /\ consumer[l] # NoDelivery
         /\ consumer[k].event = consumer[l].event
       => consumer[k].token # consumer[l].token

OutboxInv ==
  /\ OutboxTypeOK
  /\ NothingLost
  /\ DeliveredIsEffective
  /\ AttemptsDecide
  /\ ClaimsNumbered
  /\ ClaimsRespected

(* What a consumer at work holds.                                          *)
LEMMA AtWork ==
  ASSUME OutboxTypeOK, NEW k \in Consumers, consumer[k] # NoDelivery
  PROVE  /\ consumer[k] \in ConsumerType
         /\ consumer[k].event \in Events
BY DEF OutboxTypeOK, ConsumerType

(* The empty table satisfies the invariant.                                *)
LEMMA OutboxInitial ==
  ASSUME OutboxInit
  PROVE  OutboxInv
BY OutboxConstants DEF OutboxInit, OutboxInv, OutboxTypeOK, NothingLost, DeliveredIsEffective,
   AttemptsDecide, ClaimsNumbered, ClaimsRespected, AtStage, RowType, ConsumerType, Settled

(* Every step keeps the types.                                             *)
LEMMA OutboxTypeStep ==
  ASSUME OutboxTypeOK, [OutboxNext]_outboxVars
  PROVE  OutboxTypeOK'
<1> USE DEF OutboxTypeOK
<1>1. ASSUME NEW e \in Events, AddEvent(e) PROVE OutboxTypeOK'
  BY <1>1 DEF AddEvent, RowType, Settled
<1>2. ASSUME NEW e \in Events, Clock(e) PROVE OutboxTypeOK'
  <2>1. CASE LeaseExpires(e)
    <3>1. row' \in [Events -> RowType] BY <2>1 DEF LeaseExpires, RowType, Settled
    <3> QED BY <2>1, <3>1 DEF LeaseExpires
  <2>2. CASE RetryDue(e) BY <2>2 DEF RetryDue, RowType, Settled
  <2> QED BY <1>2, <2>1, <2>2 DEF Clock
<1>3. ASSUME NEW k \in Consumers, NEW e \in Events, Claim(k, e) PROVE OutboxTypeOK'
  BY <1>3 DEF Claim, RowType, Settled, ConsumerType
<1>4. ASSUME NEW k \in Consumers, Deliver(k) PROVE OutboxTypeOK'
  BY <1>4, AtWork DEF Deliver, AtStage, ConsumerType
<1>5. ASSUME NEW k \in Consumers, Raise(k) PROVE OutboxTypeOK'
  BY <1>5, AtWork DEF Raise, AtStage, ConsumerType
<1>6. ASSUME NEW k \in Consumers, Complete(k) PROVE OutboxTypeOK'
  <2>1. consumer[k] \in ConsumerType BY <1>6, AtWork DEF Complete, AtStage
  <2> QED BY <1>6, <2>1 DEF Complete, RowType, Settled, ConsumerType
<1>7. ASSUME NEW k \in Consumers, FailRead(k) PROVE OutboxTypeOK'
  <2>1. consumer[k] \in ConsumerType BY <1>7, AtWork DEF FailRead, AtStage
  <2> QED BY <1>7, <2>1 DEF FailRead, RowType, ConsumerType
<1>8. ASSUME NEW k \in Consumers, FailWrite(k) PROVE OutboxTypeOK'
  <2>1. consumer[k] \in ConsumerType BY <1>8, AtWork DEF FailWrite, AtStage
  <2> QED BY <1>8, <2>1 DEF FailWrite, StatusAfterFailure, RowType, Settled, ConsumerType
<1>9. ASSUME NEW k \in Consumers, Crash(k) PROVE OutboxTypeOK'
  BY <1>9 DEF Crash
<1>10. CASE UNCHANGED outboxVars BY <1>10 DEF outboxVars
<1> QED
  BY <1>1, <1>2, <1>3, <1>4, <1>5, <1>6, <1>7, <1>8, <1>9, <1>10 DEF OutboxNext, RunOnce

(* Every step keeps the effects: they are never undone, and a consumer     *)
(* reaches the stage where it completes an event only through delivery.    *)
LEMMA EffectStep ==
  ASSUME OutboxTypeOK, NothingLost, DeliveredIsEffective, [OutboxNext]_outboxVars
  PROVE  NothingLost' /\ DeliveredIsEffective'
<1> USE DEF NothingLost, DeliveredIsEffective, Effective, AtStage
<1> USE DEF OutboxTypeOK
<1>1. ASSUME NEW e \in Events, AddEvent(e) PROVE NothingLost' /\ DeliveredIsEffective'
  BY <1>1 DEF AddEvent, RowType
<1>2. ASSUME NEW e \in Events, Clock(e) PROVE NothingLost' /\ DeliveredIsEffective'
  BY <1>2 DEF Clock, LeaseExpires, RetryDue, RowType
<1>3. ASSUME NEW k \in Consumers, NEW e \in Events, Claim(k, e)
      PROVE  NothingLost' /\ DeliveredIsEffective'
  BY <1>3 DEF Claim, RowType
<1>4. ASSUME NEW k \in Consumers, Deliver(k) PROVE NothingLost' /\ DeliveredIsEffective'
  BY <1>4, AtWork DEF Deliver, ConsumerType
<1>5. ASSUME NEW k \in Consumers, Raise(k) PROVE NothingLost' /\ DeliveredIsEffective'
  BY <1>5, AtWork DEF Raise, ConsumerType
<1>6. ASSUME NEW k \in Consumers, Complete(k) PROVE NothingLost' /\ DeliveredIsEffective'
  <2>1. Effective(consumer[k].event) BY <1>6 DEF Complete
  <2>2. NothingLost' BY <1>6, <2>1, AtWork DEF Complete, ConsumerType, RowType
  <2>3. DeliveredIsEffective' BY <1>6, AtWork DEF Complete, ConsumerType
  <2> QED BY <2>2, <2>3
<1>7. ASSUME NEW k \in Consumers, FailRead(k) PROVE NothingLost' /\ DeliveredIsEffective'
  BY <1>7, AtWork DEF FailRead, ConsumerType
<1>8. ASSUME NEW k \in Consumers, FailWrite(k) PROVE NothingLost' /\ DeliveredIsEffective'
  BY <1>8, AtWork DEF FailWrite, StatusAfterFailure, ConsumerType, RowType
<1>9. ASSUME NEW k \in Consumers, Crash(k) PROVE NothingLost' /\ DeliveredIsEffective'
  BY <1>9 DEF Crash
<1>10. CASE UNCHANGED outboxVars BY <1>10 DEF outboxVars
<1> QED
  BY <1>1, <1>2, <1>3, <1>4, <1>5, <1>6, <1>7, <1>8, <1>9, <1>10 DEF OutboxNext, RunOnce

(* Only fail puts a row back or aside, with the count it writes.           *)
LEMMA AttemptsStep ==
  ASSUME OutboxTypeOK, AttemptsDecide, [OutboxNext]_outboxVars
  PROVE  AttemptsDecide'
<1> USE DEF AttemptsDecide, OutboxTypeOK
<1>1. ASSUME NEW e \in Events, AddEvent(e) PROVE AttemptsDecide'
  BY <1>1 DEF AddEvent, RowType
<1>2. ASSUME NEW e \in Events, Clock(e) PROVE AttemptsDecide'
  BY <1>2 DEF Clock, LeaseExpires, RetryDue, RowType
<1>3. ASSUME NEW k \in Consumers, NEW e \in Events, Claim(k, e) PROVE AttemptsDecide'
  BY <1>3 DEF Claim, RowType
<1>4. ASSUME NEW k \in Consumers, Complete(k) PROVE AttemptsDecide'
  BY <1>4, AtWork DEF Complete, AtStage, ConsumerType, RowType
<1>5. ASSUME NEW k \in Consumers, FailWrite(k) PROVE AttemptsDecide'
  <2>1. consumer[k] \in ConsumerType BY <1>5, AtWork DEF FailWrite, AtStage
  <2> QED
    BY <1>5, <2>1, OutboxConstants DEF FailWrite, StatusAfterFailure, ConsumerType, RowType
<1>6. CASE UNCHANGED row BY <1>6
<1> QED
  BY <1>1, <1>2, <1>3, <1>4, <1>5, <1>6
  DEF OutboxNext, RunOnce, Deliver, Raise, FailRead, Crash, outboxVars

(* What a step does to the claims: a consumer keeps its claim or gives it  *)
(* up, a row keeps its claim, and it is completed by its holder alone.     *)
KeepsClaims ==
  /\ \A k \in Consumers :
       \/ consumer'[k] = NoDelivery
       \/ /\ consumer[k] # NoDelivery /\ consumer'[k] # NoDelivery
          /\ consumer'[k].event = consumer[k].event
          /\ consumer'[k].token = consumer[k].token
  /\ \A e \in Events :
       /\ row'[e].token = row[e].token
       /\ \/ row'[e].status = "completed" => row[e].status = "completed"
          \/ \E k \in Consumers :
               /\ consumer[k] # NoDelivery /\ consumer[k].event = e
               /\ consumer[k].token = row[e].token
               /\ consumer'[k] = NoDelivery

(* Every step but a claim keeps the claims.                                *)
LEMMA OthersKeepClaims ==
  ASSUME OutboxTypeOK, [OutboxNext]_outboxVars,
         ~\E k \in Consumers, e \in Events : Claim(k, e)
  PROVE  KeepsClaims
<1> USE DEF OutboxTypeOK, KeepsClaims, AtStage
<1>1. ASSUME NEW e \in Events, AddEvent(e) PROVE KeepsClaims
  BY <1>1 DEF AddEvent, RowType
<1>2. ASSUME NEW e \in Events, Clock(e) PROVE KeepsClaims
  BY <1>2 DEF Clock, LeaseExpires, RetryDue, RowType
<1>3. ASSUME NEW k \in Consumers, Deliver(k) \/ Raise(k) PROVE KeepsClaims
  <2>1. consumer[k] \in ConsumerType BY <1>3, AtWork DEF Deliver, Raise
  <2> QED BY <1>3, <2>1 DEF Deliver, Raise, ConsumerType
<1>4. ASSUME NEW k \in Consumers, Complete(k) PROVE KeepsClaims
  <2>1. consumer[k] \in ConsumerType BY <1>4, AtWork DEF Complete
  <2>2. consumer[k] # NoDelivery BY <1>4 DEF Complete
  <2> QED BY <1>4, <2>1, <2>2 DEF Complete, Holds, ConsumerType, RowType
<1>5. ASSUME NEW k \in Consumers, FailRead(k) PROVE KeepsClaims
  <2>1. consumer[k] \in ConsumerType BY <1>5, AtWork DEF FailRead
  <2> QED BY <1>5, <2>1 DEF FailRead, ConsumerType
<1>6. ASSUME NEW k \in Consumers, FailWrite(k) PROVE KeepsClaims
  <2>1. consumer[k] \in ConsumerType BY <1>6, AtWork DEF FailWrite
  <2> QED BY <1>6, <2>1 DEF FailWrite, StatusAfterFailure, ConsumerType, RowType
<1>7. ASSUME NEW k \in Consumers, Crash(k) PROVE KeepsClaims
  BY <1>7 DEF Crash
<1>8. CASE UNCHANGED outboxVars BY <1>8 DEF outboxVars
<1> QED BY <1>1, <1>2, <1>3, <1>4, <1>5, <1>6, <1>7, <1>8 DEF OutboxNext, RunOnce

(* A claim takes the next number of the row, the other steps take none;    *)
(* so the holder of the last number is alone, and it alone completes.      *)
LEMMA ClaimsStep ==
  ASSUME OutboxTypeOK, ClaimsNumbered, ClaimsRespected, [OutboxNext]_outboxVars
  PROVE  ClaimsNumbered' /\ ClaimsRespected'
<1> USE DEF OutboxTypeOK
<1>1. ASSUME NEW k \in Consumers, NEW e \in Events, Claim(k, e)
      PROVE  ClaimsNumbered' /\ ClaimsRespected'
  <2>1. /\ row'[e].token = row[e].token + 1
        /\ row'[e].status = "claimed"
        /\ \A d \in Events \ {e} : row'[d] = row[d]
        /\ row[e].token \in Nat
    BY <1>1 DEF Claim, RowType
  <2>2. /\ consumer'[k].event = e
        /\ consumer'[k].token = row[e].token + 1
        /\ \A l \in Consumers \ {k} : consumer'[l] = consumer[l]
    BY <1>1 DEF Claim
  <2>3. \A l \in Consumers : consumer[l] # NoDelivery =>
          /\ consumer[l].event \in Events /\ consumer[l].token \in Nat
          /\ consumer[l].token <= row[consumer[l].event].token
    BY AtWork DEF ConsumerType, ClaimsNumbered
  <2>4. \A l \in Consumers \ {k} : consumer'[l] # NoDelivery /\ consumer'[l].event = e
          => consumer'[l].token <= row[e].token
    BY <2>2, <2>3
  <2>5. ClaimsNumbered'
    BY <2>1, <2>2, <2>3, <2>4 DEF ClaimsNumbered
  <2>6. ClaimsRespected'
    BY <2>1, <2>2, <2>3, <2>4 DEF ClaimsRespected
  <2> QED BY <2>5, <2>6
<1>2. CASE ~\E k \in Consumers, e \in Events : Claim(k, e)
  <2>1. KeepsClaims BY <1>2, OthersKeepClaims
  <2>2. \A k \in Consumers : consumer'[k] # NoDelivery =>
          /\ consumer[k] # NoDelivery /\ consumer[k].event \in Events
          /\ consumer'[k].event = consumer[k].event
          /\ consumer'[k].token = consumer[k].token
    BY <2>1, AtWork DEF KeepsClaims
  <2>3. ClaimsNumbered' BY <2>1, <2>2 DEF KeepsClaims, ClaimsNumbered
  <2>4. ClaimsRespected'
    <3> SUFFICES ASSUME NEW k \in Consumers, consumer'[k] # NoDelivery,
                        row'[consumer'[k].event].token = consumer'[k].token,
                        row'[consumer'[k].event].status = "completed"
                 PROVE  FALSE
      BY DEF ClaimsRespected
    <3> DEFINE e == consumer[k].event
    <3>1. consumer[k] # NoDelivery /\ e \in Events /\ row[e].token = consumer[k].token
          /\ row'[e].status = "completed"
      BY <2>1, <2>2 DEF KeepsClaims
    <3>2. row[e].status # "completed" BY <3>1 DEF ClaimsRespected
    <3>3. PICK l \in Consumers : /\ consumer[l] # NoDelivery /\ consumer[l].event = e
                                 /\ consumer[l].token = row[e].token
                                 /\ consumer'[l] = NoDelivery
      BY <2>1, <3>1, <3>2 DEF KeepsClaims
    <3>4. l # k BY <3>3
    <3> QED BY <3>1, <3>3, <3>4 DEF ClaimsNumbered
  <2> QED BY <2>3, <2>4
<1> QED BY <1>1, <1>2

(* The invariant of the outbox, whatever the number of consumers, crashes  *)
(* and expired leases.                                                     *)
THEOREM OutboxInvariant == OutboxSpec => []OutboxInv
<1>1. OutboxInit => OutboxInv BY OutboxInitial
<1>2. OutboxInv /\ [OutboxNext]_outboxVars => OutboxInv'
  BY OutboxTypeStep, EffectStep, AttemptsStep, ClaimsStep DEF OutboxInv
<1> QED BY <1>1, <1>2, PTL DEF OutboxSpec

(* The rows and the consumers have their types.                            *)
THEOREM OutboxTypeCorrect == OutboxSpec => []OutboxTypeOK
<1>1. OutboxInv => OutboxTypeOK BY DEF OutboxInv
<1> QED BY <1>1, OutboxInvariant, PTL

(* An event is completed only after its capture or its audited skip: the   *)
(* consumer may lose its lease, die and be replaced at any point.          *)
THEOREM NothingIsLost == OutboxSpec => []NothingLost
<1>1. OutboxInv => NothingLost BY DEF OutboxInv
<1> QED BY <1>1, OutboxInvariant, PTL

(* A retry has an attempt left and a dead letter has none.                 *)
THEOREM AttemptsAreDecisive == OutboxSpec => []AttemptsDecide
<1>1. OutboxInv => AttemptsDecide BY DEF OutboxInv
<1> QED BY <1>1, OutboxInvariant, PTL

(* The outbox loses nothing, never stops short and completes no event over *)
(* its holder's head, whatever consumers crash, stall and take over.       *)
THEOREM OutboxIsSafe == OutboxSpec => []OutboxSafe
<1>1. OutboxInv => OutboxSafe BY DEF OutboxInv, OutboxSafe
<1> QED BY <1>1, OutboxInvariant, PTL

-----------------------------------------------------------------------------
(* Formation jobs of Turns.                                                *)

(* A Turn has a job once it is frozen, and for ever.                       *)
FrozenHasJob ==
  \A t \in Captures : capture[t].status \in {"absent", "pending"} <=> capture[t].job = None

UnusedJobsAreEmpty == \A j \in Jobs : job[j].status = "absent" => job[j].refs = {}

(* The claims of a job are numbered by its attempts: no worker has a later *)
(* number than the job, and no two workers have the same one.              *)
JobClaimsNumbered ==
  /\ \A j \in Jobs : job[j].status = "absent" => job[j].attempts = 0
  /\ \A w \in JobWorkers :
       worker[w] # None => worker[w].token \in 1 .. job[worker[w].job].attempts
  /\ \A v, w \in JobWorkers :
       v # w /\ worker[v] # None /\ worker[w] # None /\ worker[v].job = worker[w].job
       => worker[v].token # worker[w].token

JobsInv ==
  /\ JobsTypeOK
  /\ RangesPartition
  /\ FrozenHasJob
  /\ UnusedJobsAreEmpty
  /\ FormedWithJob
  /\ WaitingHasAttempts
  /\ JobClaimsNumbered
  /\ JobClaimsRespected

-----------------------------------------------------------------------------
(* The ways in which a step can move Turns and jobs                        *)

(* Nothing but the clock, the claim and the outcome of some jobs moves.    *)
Handled ==
  /\ capture' = capture
  /\ \A j \in Jobs :
       \/ job'[j] = job[j]
       \/ /\ job'[j].refs = job[j].refs
          /\ job[j].status \notin {"absent", "completed", "dead_letter"}
          /\ job'[j].status \notin {"absent", "pending", "completed"}
          /\ job'[j].status = "retry" => job'[j].attempts < JobAttempts

(* Turns outside S stay as they are, or are captured and wait.             *)
Captured(S) ==
  /\ capture' \in [Captures -> CaptureRow]
  /\ \A t \in Captures \ S :
       \/ capture'[t] = capture[t]
       \/ capture[t].status = "absent" /\ capture'[t] = [status |-> "pending", job |-> None]

(* The Turns S, none of which had a job, are frozen into the new job j.    *)
Frozen(S, j) ==
  /\ S \subseteq Captures
  /\ \A t \in S : capture[t].job = None
  /\ job[j].status = "absent"
  /\ job' = [job EXCEPT ![j] = NewJob(S)]
  /\ \A t \in S : capture'[t] = [status |-> "claimed", job |-> j]
  /\ Captured(S)

(* Job j completes with its Turns.                                         *)
Formed(j) ==
  /\ job[j].status = "claimed"
  /\ job' = [job EXCEPT ![j].status = "completed"]
  /\ capture' = FormTurns(j)

Moves ==
  \/ Handled
  \/ Captured({}) /\ job' = job
  \/ \E S \in SUBSET Captures, j \in Jobs : Frozen(S, j)
  \/ \E j \in Jobs : Formed(j)

(* A range of Turns without a job is no job's range: its first Turn would  *)
(* belong to that job.  So the idempotency key of a new range is free, and *)
(* the branches that find a job under it never apply.                      *)
LEMMA RangeIsNew ==
  ASSUME JobsTypeOK, RangesPartition, NEW S \in SUBSET Captures,
         \A t \in S : capture[t].job = None
  PROVE  JobsOfRange(S) = {}
<1> SUFFICES ASSUME NEW j \in Jobs, SameRange(job[j].refs, S) PROVE FALSE
  BY DEF JobsOfRange
<1>1. PICK t \in job[j].refs \cap S : TRUE BY DEF SameRange
<1>2. capture[t].job = j BY <1>1 DEF RangesPartition
<1> QED BY <1>1, <1>2, FormationConstants

(* Turns that wait have no job.                                            *)
LEMMA PendingHaveNoJob ==
  ASSUME FrozenHasJob, NEW s, NEW t \in Pending(s)
  PROVE  t \in Captures /\ capture[t].job = None
BY DEF Pending, FrozenHasJob

(* Capturing a Turn makes it wait, or freezes the window it completes.     *)
LEMMA AppendMoves ==
  ASSUME JobsInv, NEW t \in Captures, NEW late \in BOOLEAN, AppendTurn(t, late)
  PROVE  Moves
<1> DEFINE turns == [capture EXCEPT ![t] = [status |-> "pending", job |-> None]]
           P == Pending(SessionOf[t]) \cup {t}
           S == Oldest(P, WindowTurns)
<1>1. capture[t].status = "absent" /\ WindowJob(turns, P) BY DEF AppendTurn
<1>2. S \subseteq Captures /\ \A u \in S : capture[u].job = None
  BY <1>1, PendingHaveNoJob DEF Oldest, JobsInv, FrozenHasJob
<1>3. CASE Cardinality(P) < WindowTurns
  <2>1. capture' = turns /\ job' = job BY <1>1, <1>3 DEF WindowJob
  <2> QED BY <1>1, <2>1 DEF Moves, Captured, JobsInv, JobsTypeOK, CaptureRow
<1>4. CASE ~(Cardinality(P) < WindowTurns)
  <2>1. JobsOfRange(S) = {} BY <1>2, RangeIsNew DEF JobsInv
  <2>2. PICK j \in FreshJobs :
          capture' = Freeze(turns, S, j) /\ job' = [job EXCEPT ![j] = NewJob(S)]
    BY <1>1, <1>4, <2>1 DEF WindowJob
  <2>3. j \in Jobs /\ job[j].status = "absent" BY <2>2 DEF FreshJobs
  <2>4. \A u \in S : capture'[u] = [status |-> "claimed", job |-> j]
    BY <1>2, <2>2 DEF Freeze
  <2>5. Captured(S)
    BY <1>1, <1>2, <2>2, <2>3 DEF Captured, Freeze, JobsInv, JobsTypeOK, CaptureRow
  <2>6. Frozen(S, j) BY <1>2, <2>2, <2>3, <2>4, <2>5 DEF Frozen
  <2> QED BY <1>2, <2>3, <2>6 DEF Moves
<1> QED BY <1>3, <1>4

(* The idle sweep freezes all that waits in the session.                   *)
LEMMA IdleMoves ==
  ASSUME JobsInv, NEW s \in Sessions, IdleJob(s)
  PROVE  Moves
<1> DEFINE S == Pending(s)
<1>1. S \subseteq Captures /\ \A u \in S : capture[u].job = None
  BY PendingHaveNoJob DEF JobsInv
<1>2. PICK j \in FreshJobs :
        capture' = Freeze(capture, S, j) /\ job' = [job EXCEPT ![j] = NewJob(S)]
  BY DEF IdleJob
<1>3. j \in Jobs /\ job[j].status = "absent" BY <1>2 DEF FreshJobs
<1>4. \A u \in S : capture'[u] = [status |-> "claimed", job |-> j]
  BY <1>1, <1>2 DEF Freeze
<1>5. Captured(S)
  BY <1>1, <1>2, <1>3 DEF Captured, Freeze, JobsInv, JobsTypeOK, CaptureRow
<1>6. Frozen(S, j) BY <1>1, <1>2, <1>3, <1>4, <1>5 DEF Frozen
<1> QED BY <1>1, <1>3, <1>6 DEF Moves

(* A structured-event job is a new job with no Turns.                      *)
LEMMA AddMoves ==
  ASSUME JobsInv, NEW j \in Jobs, AddJob(j)
  PROVE  Moves
<1>1. Frozen({}, j) BY DEF AddJob, Frozen, Captured, JobsInv, JobsTypeOK
<1> QED BY <1>1 DEF Moves

(* What a worker at work holds.                                            *)
LEMMA WorkerAtWork ==
  ASSUME JobsTypeOK, NEW w \in JobWorkers, worker[w] # None
  PROVE  worker[w] \in WorkerRow /\ worker[w].job \in Jobs
BY DEF JobsTypeOK, WorkerRow

(* Claiming a job, and putting the exhausted ones aside.                   *)
LEMMA ClaimMoves ==
  ASSUME JobsInv, NEW w \in JobWorkers,
         ReapJobs(w) \/ \E j \in Jobs : ClaimJob(w, j)
  PROVE  Handled
<1> USE DEF JobsInv, JobsTypeOK
<1>1. ASSUME NEW j \in Jobs
      PROVE  \/ Reaped[j] = job[j]
             \/ /\ job[j].status = "claimed"
                /\ Reaped[j].status = "dead_letter"
                /\ Reaped[j].refs = job[j].refs
  <2>1. job[j] \in JobRow OBVIOUS
  <2> QED BY <2>1 DEF Reaped, Exhausted, JobRow
<1>2. CASE ReapJobs(w)
  <2>1. capture' = capture /\ job' = Reaped BY <1>2 DEF ReapJobs
  <2> QED BY <1>1, <2>1 DEF Handled
<1>3. ASSUME NEW i \in Jobs, ClaimJob(w, i) PROVE Handled
  <2>1. job[i].status \in {"pending", "retry", "claimed"} BY <1>3 DEF ClaimJob, Eligible
  <2>2. capture' = capture BY <1>3 DEF ClaimJob
  <2>3. Reaped = [j \in Jobs |-> Reaped[j]] BY DEF Reaped
  <2>4. \A j \in Jobs \ {i} : job'[j] = Reaped[j] BY <1>3, <2>3 DEF ClaimJob
  <2>5. job[i] \in JobRow OBVIOUS
  <2>6. Reaped[i] = job[i]
    <3>1. job[i].attempts < JobAttempts /\ job[i].attempts \in Nat
      BY <1>3, <2>5 DEF ClaimJob, Eligible, JobRow
    <3>2. ~Exhausted(i) BY <3>1, FormationConstants DEF Exhausted
    <3> QED BY <3>2 DEF Reaped
  <2>7. job'[i].refs = job[i].refs /\ job'[i].status = "claimed"
    BY <1>3, <2>3, <2>5, <2>6 DEF ClaimJob, JobRow
  <2> QED BY <1>1, <2>1, <2>2, <2>4, <2>7 DEF Handled
<1> QED BY <1>2, <1>3

(* Ending a job: with its Turns, or without a change to any of them.       *)
LEMMA EndMoves ==
  ASSUME JobsInv, NEW w \in JobWorkers, CompleteJob(w) \/ FailJob(w)
  PROVE  Moves
<1> DEFINE j == worker[w].job
<1> USE DEF JobsInv, JobsTypeOK
<1>1. j \in Jobs BY WorkerAtWork DEF CompleteJob, FailJob, WorkerAt
<1>2. CASE CompleteJob(w) /\ HoldsJob(w) /\ worker[w].live
  <2>1. Formed(j) BY <1>1, <1>2 DEF CompleteJob, Formed, HoldsJob
  <2> QED BY <1>1, <2>1 DEF Moves
<1>3. CASE CompleteJob(w) /\ ~(HoldsJob(w) /\ worker[w].live)
  BY <1>3 DEF CompleteJob, Moves, Handled
<1>4. CASE FailJob(w) /\ HoldsJob(w) /\ worker[w].live
  <2>1. job[j].status = "claimed" BY <1>4 DEF HoldsJob
  <2>2. /\ job'[j].refs = job[j].refs
        /\ job'[j].attempts = job[j].attempts
        /\ job'[j].status = JobStatusAfterFailure(job[j].attempts)
    <3>1. job[j] \in JobRow BY <1>1
    <3>2. job' = [job EXCEPT ![j].status = JobStatusAfterFailure(job[j].attempts),
                             ![j].due = FALSE]
      BY <1>4 DEF FailJob
    <3> QED BY <1>1, <3>1, <3>2 DEF JobRow
  <2>3. \A i \in Jobs \ {j} : job'[i] = job[i] BY <1>1, <1>4 DEF FailJob
  <2>4. job[j].attempts \in Nat BY <1>1 DEF JobRow
  <2>5. \/ job'[j].status = "dead_letter"
        \/ job'[j].status = "retry" /\ job'[j].attempts < JobAttempts
    BY <2>2, <2>4, FormationConstants DEF JobStatusAfterFailure
  <2>6. capture' = capture BY <1>4 DEF FailJob
  <2>7. Handled BY <1>1, <2>1, <2>2, <2>3, <2>5, <2>6 DEF Handled
  <2> QED BY <2>7 DEF Moves
<1>5. CASE FailJob(w) /\ ~(HoldsJob(w) /\ worker[w].live)
  BY <1>5 DEF FailJob, Moves, Handled
<1> QED BY <1>2, <1>3, <1>4, <1>5

(* The clock decides about a lease or a retry.                             *)
LEMMA ClockMoves ==
  ASSUME JobsInv, NEW j \in Jobs, JobClock(j)
  PROVE  Handled
<1> USE DEF JobsInv, JobsTypeOK
<1>1. CASE JobLeaseExpires(j)
  BY <1>1 DEF JobLeaseExpires, Handled, JobRow
<1>2. CASE JobRetryDue(j)
  BY <1>2 DEF JobRetryDue, Handled, JobRow, WaitingHasAttempts
<1> QED BY <1>1, <1>2 DEF JobClock

(* Every step moves Turns and jobs in one of these ways.                   *)
LEMMA StepMoves ==
  ASSUME JobsInv, [JobsNext]_jobVars
  PROVE  Moves
<1>1. ASSUME UNCHANGED <<capture, job>> PROVE Moves
  BY <1>1 DEF Moves, Handled
<1> QED
  BY <1>1, AppendMoves, IdleMoves, AddMoves, ClaimMoves, EndMoves, ClockMoves
  DEF JobsNext, JobStep, WorkerRunOnce, IdleDeadline, Process, ProcessFails, ReadClock,
      WorkerCrash, jobVars, Moves

-----------------------------------------------------------------------------
(* The invariants over these moves                                         *)

(* Turns and jobs keep their types, whatever else the step does.           *)
LEMMA JobsTypeStep ==
  ASSUME JobsInv, [JobsNext]_jobVars
  PROVE  JobsTypeOK'
<1> USE DEF JobsInv, JobsTypeOK
<1> USE FormationConstants
<1>0. ASSUME NEW j \in Jobs, NEW status \in JobSettled
      PROVE  [job[j] EXCEPT !.status = status] \in JobRow
  <2>1. job[j] \in JobRow OBVIOUS
  <2> QED BY <2>1 DEF JobRow
<1>1. ASSUME NEW S \in SUBSET Captures, NEW j \in Jobs
      PROVE  [job EXCEPT ![j] = NewJob(S)] \in [Jobs -> JobRow]
  BY DEF NewJob, JobRow, JobSettled
<1>2. Reaped \in [Jobs -> JobRow] BY <1>0 DEF Reaped, JobSettled
<1>3. ASSUME NEW t \in Captures, NEW late \in BOOLEAN, AppendTurn(t, late)
      PROVE  JobsTypeOK'
  <2>1. capture' \in [Captures -> CaptureRow] /\ job' \in [Jobs -> JobRow]
    <3>1. ASSUME NEW S \in SUBSET Captures, NEW j \in Jobs, Frozen(S, j)
          PROVE  capture' \in [Captures -> CaptureRow]
      BY <3>1 DEF Frozen, Captured
    <3>2. ASSUME NEW j \in Jobs, Formed(j)
          PROVE  capture' \in [Captures -> CaptureRow]
      BY <3>2 DEF Formed, FormTurns, CaptureRow
    <3>3. ASSUME NEW S \in SUBSET Captures, NEW j \in Jobs, job' = [job EXCEPT ![j] = NewJob(S)]
          PROVE  job' \in [Jobs -> JobRow]
      BY <1>1, <3>3
    <3>4. job' = job \/ \E S \in SUBSET Captures, j \in Jobs : job' = [job EXCEPT ![j] = NewJob(S)]
      <4> DEFINE P == Pending(SessionOf[t]) \cup {t}
                 S == Oldest(P, WindowTurns)
      <4>1. S \in SUBSET Captures BY DEF Oldest, Pending
      <4>2. job' = job \/ \E j \in FreshJobs : job' = [job EXCEPT ![j] = NewJob(S)]
        BY <1>3 DEF AppendTurn, WindowJob
      <4> QED BY <4>1, <4>2 DEF FreshJobs
    <3>5. job' \in [Jobs -> JobRow] BY <3>3, <3>4
    <3>6. capture' \in [Captures -> CaptureRow]
      BY <1>3, <3>1, <3>2, AppendMoves DEF Moves, Handled, Captured
    <3> QED BY <3>5, <3>6
  <2> QED BY <1>3, <2>1 DEF AppendTurn
<1>4. ASSUME NEW s \in Sessions, IdleDeadline(s) PROVE JobsTypeOK'
  BY <1>4 DEF IdleDeadline
<1>5. ASSUME NEW s \in Sessions, IdleJob(s) PROVE JobsTypeOK'
  <2>1. PICK j \in FreshJobs : /\ capture' = Freeze(capture, Pending(s), j)
                               /\ job' = [job EXCEPT ![j] = NewJob(Pending(s))]
    BY <1>5 DEF IdleJob
  <2>2. Pending(s) \subseteq Captures /\ j \in Jobs BY <2>1 DEF Pending, FreshJobs
  <2>3. capture' \in [Captures -> CaptureRow] BY <2>1, <2>2 DEF Freeze, CaptureRow
  <2> QED BY <1>1, <1>5, <2>1, <2>2, <2>3 DEF IdleJob
<1>6. ASSUME NEW j \in Jobs, AddJob(j) PROVE JobsTypeOK'
  BY <1>1, <1>6 DEF AddJob
<1>7. ASSUME NEW j \in Jobs, JobClock(j) PROVE JobsTypeOK'
  <2>1. CASE JobLeaseExpires(j)
    <3>1. [job[j] EXCEPT !.expired = TRUE] \in JobRow
      <4>1. job[j] \in JobRow OBVIOUS
      <4> QED BY <4>1 DEF JobRow
    <3>2. job' \in [Jobs -> JobRow] BY <2>1, <3>1 DEF JobLeaseExpires
    <3> QED BY <2>1, <3>2 DEF JobLeaseExpires
  <2>2. CASE JobRetryDue(j) BY <2>2 DEF JobRetryDue, JobRow
  <2> QED BY <1>7, <2>1, <2>2 DEF JobClock
<1>8. ASSUME NEW w \in JobWorkers, NEW j \in Jobs, ClaimJob(w, j) PROVE JobsTypeOK'
  <2>1. Reaped[j] \in JobRow /\ job[j] \in JobRow BY <1>2
  <2>2. [Reaped[j] EXCEPT !.status = "claimed", !.attempts = @ + 1, !.expired = FALSE]
          \in JobRow
    <3>1. Reaped[j].attempts + 1 \in Nat BY <2>1 DEF JobRow
    <3> QED BY <2>1, <3>1 DEF JobRow, JobSettled
  <2>3. job' \in [Jobs -> JobRow] BY <1>2, <1>8, <2>2 DEF ClaimJob
  <2>4. worker' \in [JobWorkers -> WorkerRow \cup {None}]
    BY <1>8, <2>1 DEF ClaimJob, WorkerRow, JobRow
  <2> QED BY <1>8, <2>3, <2>4 DEF ClaimJob
<1>9. ASSUME NEW w \in JobWorkers, ReapJobs(w) PROVE JobsTypeOK'
  BY <1>2, <1>9 DEF ReapJobs
<1>10. ASSUME NEW w \in JobWorkers, Process(w) \/ ProcessFails(w) PROVE JobsTypeOK'
  BY <1>10, WorkerAtWork DEF Process, ProcessFails, WorkerAt, WorkerRow
<1>11. ASSUME NEW w \in JobWorkers, ReadClock(w) PROVE JobsTypeOK'
  <2>1. worker[w] \in WorkerRow BY <1>11, WorkerAtWork DEF ReadClock, WorkerAt
  <2>2. (HoldsJob(w) => ~job[worker[w].job].expired) \in BOOLEAN OBVIOUS
  <2> QED BY <1>11, <2>1, <2>2 DEF ReadClock, WorkerRow
<1>12. ASSUME NEW w \in JobWorkers, CompleteJob(w) PROVE JobsTypeOK'
  <2>1. worker[w] \in WorkerRow /\ worker[w].job \in Jobs
    BY <1>12, WorkerAtWork DEF CompleteJob, WorkerAt
  <2>2. job' \in [Jobs -> JobRow] BY <1>0, <1>12, <2>1 DEF CompleteJob, JobSettled
  <2>3. capture' \in [Captures -> CaptureRow]
    <3>1. ASSUME NEW t \in Captures
          PROVE  [capture[t] EXCEPT !.status = "formed"] \in CaptureRow
      <4>1. capture[t] \in CaptureRow OBVIOUS
      <4> QED BY <4>1 DEF CaptureRow
    <3>2. FormTurns(worker[w].job) \in [Captures -> CaptureRow] BY <3>1 DEF FormTurns
    <3> QED BY <1>12, <3>2 DEF CompleteJob
  <2>4. worker' \in [JobWorkers -> WorkerRow \cup {None}]
    BY <1>12, <2>1 DEF CompleteJob, WorkerRow
  <2> QED BY <1>12, <2>2, <2>3, <2>4 DEF CompleteJob
<1>13. ASSUME NEW w \in JobWorkers, FailJob(w) PROVE JobsTypeOK'
  <2>1. worker[w] \in WorkerRow /\ worker[w].job \in Jobs
    BY <1>13, WorkerAtWork DEF FailJob, WorkerAt
  <2>2. job' \in [Jobs -> JobRow]
    BY <1>13, <2>1 DEF FailJob, JobStatusAfterFailure, JobRow, JobSettled
  <2> QED BY <1>13, <2>2 DEF FailJob
<1>14. ASSUME NEW w \in JobWorkers, WorkerCrash(w) PROVE JobsTypeOK'
  BY <1>14 DEF WorkerCrash
<1>15. CASE UNCHANGED jobVars BY <1>15 DEF jobVars
<1> QED
  BY <1>3, <1>4, <1>5, <1>6, <1>7, <1>8, <1>9, <1>10, <1>11, <1>12, <1>13, <1>14, <1>15
  DEF JobsNext, JobStep, WorkerRunOnce

(* A job's range and its outcome are fixed by every move.                  *)
LEMMA MovesAreFinal ==
  ASSUME JobsTypeOK, Moves, NEW j \in Jobs
  PROVE  /\ job[j].status # "absent" => job'[j].refs = job[j].refs
         /\ job[j].status \in JobSettled => job'[j].status = job[j].status
<1> USE DEF JobsTypeOK, JobSettled
<1>1. CASE Handled BY <1>1 DEF Handled
<1>2. CASE job' = job BY <1>2
<1>3. ASSUME NEW S \in SUBSET Captures, NEW i \in Jobs, Frozen(S, i)
      PROVE  /\ job[j].status # "absent" => job'[j].refs = job[j].refs
             /\ job[j].status \in JobSettled => job'[j].status = job[j].status
  BY <1>3 DEF Frozen
<1>4. ASSUME NEW i \in Jobs, Formed(i)
      PROVE  /\ job[j].status # "absent" => job'[j].refs = job[j].refs
             /\ job[j].status \in JobSettled => job'[j].status = job[j].status
  BY <1>4 DEF Formed, JobRow
<1> QED BY <1>1, <1>2, <1>3, <1>4 DEF Moves

(* The queue's invariant over the freezing of a range.                     *)
LEMMA FrozenKeeps ==
  ASSUME JobsInv, NEW S \in SUBSET Captures, NEW j \in Jobs, Frozen(S, j)
  PROVE  RangesPartition' /\ FrozenHasJob' /\ UnusedJobsAreEmpty' /\ FormedWithJob'
         /\ WaitingHasAttempts'
<1> USE DEF JobsInv, JobsTypeOK
<1> USE FormationConstants
<1>1. job'[j] = NewJob(S) /\ \A i \in Jobs \ {j} : job'[i] = job[i] BY DEF Frozen
<1>2. \A t \in Captures : capture[t].job # j
  BY DEF Frozen, UnusedJobsAreEmpty, RangesPartition
<1>3. \A t \in S : capture'[t] = [status |-> "claimed", job |-> j] BY DEF Frozen
<1>4. \A t \in Captures \ S :
        \/ capture'[t] = capture[t]
        \/ capture[t].status = "absent" /\ capture'[t] = [status |-> "pending", job |-> None]
  BY DEF Frozen, Captured
<1>5. \A t \in Captures \ S : capture'[t].job = capture[t].job
  BY <1>4 DEF FrozenHasJob
<1>6. RangesPartition'
  <2> SUFFICES ASSUME NEW t \in Captures, NEW i \in Jobs
               PROVE  t \in job'[i].refs <=> capture'[t].job = i
    BY DEF RangesPartition
  <2>1. CASE i = j BY <1>1, <1>2, <1>3, <1>5, <2>1 DEF NewJob
  <2>2. CASE i # j
    <3>1. t \in job'[i].refs <=> capture[t].job = i BY <1>1, <2>2 DEF RangesPartition
    <3>2. t \in S => capture[t].job = None BY DEF Frozen
    <3> QED BY <1>3, <1>5, <2>2, <3>1, <3>2
  <2> QED BY <2>1, <2>2
<1>7. FrozenHasJob' BY <1>3, <1>4 DEF FrozenHasJob
<1>8. UnusedJobsAreEmpty' BY <1>1 DEF UnusedJobsAreEmpty, NewJob
<1>9. FormedWithJob'
  <2> SUFFICES ASSUME NEW t \in Captures
               PROVE  capture'[t].status = "formed" <=>
                        /\ capture'[t].job # None
                        /\ job'[capture'[t].job].status = "completed"
    BY DEF FormedWithJob
  <2>1. CASE t \in S BY <1>1, <1>3, <2>1 DEF NewJob
  <2>2. CASE t \notin S /\ capture'[t] = capture[t]
    <3>1. capture[t].job # None => job'[capture[t].job] = job[capture[t].job]
      BY <1>1, <1>2 DEF CaptureRow
    <3> QED BY <2>2, <3>1 DEF FormedWithJob
  <2>3. CASE t \notin S /\ capture'[t] = [status |-> "pending", job |-> None]
    BY <2>3
  <2> QED BY <1>4, <2>1, <2>2, <2>3
<1>10. WaitingHasAttempts' BY <1>1 DEF WaitingHasAttempts, NewJob
<1> QED BY <1>6, <1>7, <1>8, <1>9, <1>10

(* The queue's invariant over the completion of a job.                     *)
LEMMA FormedKeeps ==
  ASSUME JobsInv, NEW j \in Jobs, Formed(j)
  PROVE  RangesPartition' /\ FrozenHasJob' /\ UnusedJobsAreEmpty' /\ FormedWithJob'
         /\ WaitingHasAttempts'
<1> USE DEF JobsInv, JobsTypeOK
<1>1. job[j] \in JobRow OBVIOUS
<1>2. /\ job'[j].status = "completed" /\ job'[j].refs = job[j].refs
      /\ \A i \in Jobs \ {j} : job'[i] = job[i]
  BY <1>1 DEF Formed, JobRow
<1>3. ASSUME NEW t \in Captures
      PROVE  /\ capture'[t].job = capture[t].job
             /\ capture[t].job = j => capture'[t].status = "formed"
             /\ capture[t].job # j => capture'[t] = capture[t]
  <2>1. capture[t] \in CaptureRow OBVIOUS
  <2>2. capture'[t] = IF t \in job[j].refs THEN [capture[t] EXCEPT !.status = "formed"]
                      ELSE capture[t]
    BY DEF Formed, FormTurns
  <2>3. t \in job[j].refs <=> capture[t].job = j BY DEF RangesPartition
  <2> QED BY <2>1, <2>2, <2>3 DEF CaptureRow
<1>4. RangesPartition' BY <1>2, <1>3 DEF RangesPartition
<1>5. FrozenHasJob' BY <1>3, FormationConstants DEF FrozenHasJob
<1>6. UnusedJobsAreEmpty' BY <1>2 DEF UnusedJobsAreEmpty
<1>7. FormedWithJob'
  <2> SUFFICES ASSUME NEW t \in Captures
               PROVE  capture'[t].status = "formed" <=>
                        /\ capture'[t].job # None
                        /\ job'[capture'[t].job].status = "completed"
    BY DEF FormedWithJob
  <2>1. CASE capture[t].job = j BY <1>2, <1>3, <2>1, FormationConstants
  <2>2. CASE capture[t].job # j
    <3>1. capture[t].job # None => job'[capture[t].job] = job[capture[t].job]
      BY <1>2, <2>2 DEF CaptureRow
    <3> QED BY <1>3, <2>2, <3>1 DEF FormedWithJob
  <2> QED BY <2>1, <2>2
<1>8. WaitingHasAttempts' BY <1>2 DEF WaitingHasAttempts
<1> QED BY <1>4, <1>5, <1>6, <1>7, <1>8

(* The queue's invariant over the handling of jobs.                        *)
LEMMA HandledKeeps ==
  ASSUME JobsInv, Handled
  PROVE  RangesPartition' /\ FrozenHasJob' /\ UnusedJobsAreEmpty' /\ FormedWithJob'
         /\ WaitingHasAttempts'
<1> USE DEF JobsInv, JobsTypeOK
<1>1. capture' = capture /\ \A j \in Jobs : job'[j].refs = job[j].refs BY DEF Handled
<1>2. \A j \in Jobs : job'[j].status = "completed" <=> job[j].status = "completed"
  BY DEF Handled
<1>3. RangesPartition' BY <1>1 DEF RangesPartition
<1>4. FrozenHasJob' BY <1>1 DEF FrozenHasJob
<1>5. UnusedJobsAreEmpty' BY <1>1 DEF Handled, UnusedJobsAreEmpty
<1>6. FormedWithJob' BY <1>1, <1>2 DEF FormedWithJob, CaptureRow
<1>7. WaitingHasAttempts' BY DEF Handled, WaitingHasAttempts
<1> QED BY <1>3, <1>4, <1>5, <1>6, <1>7

(* The queue's invariant over the capture of a Turn that waits.            *)
LEMMA CapturedKeeps ==
  ASSUME JobsInv, Captured({}), job' = job
  PROVE  RangesPartition' /\ FrozenHasJob' /\ UnusedJobsAreEmpty' /\ FormedWithJob'
         /\ WaitingHasAttempts'
<1> USE DEF JobsInv, JobsTypeOK
<1>1. \A t \in Captures :
        \/ capture'[t] = capture[t]
        \/ capture[t].status = "absent" /\ capture'[t] = [status |-> "pending", job |-> None]
  BY DEF Captured
<1>2. \A t \in Captures : capture'[t].job = capture[t].job BY <1>1 DEF FrozenHasJob
<1>3. RangesPartition' BY <1>2 DEF RangesPartition
<1>4. FrozenHasJob' BY <1>1 DEF FrozenHasJob
<1>5. UnusedJobsAreEmpty' BY DEF UnusedJobsAreEmpty
<1>6. FormedWithJob' BY <1>1 DEF FormedWithJob
<1>7. WaitingHasAttempts' BY DEF WaitingHasAttempts
<1> QED BY <1>3, <1>4, <1>5, <1>6, <1>7

-----------------------------------------------------------------------------
(* The claims of workers                                                   *)

(* A job that its last claim still rules, or that nobody can end any more. *)
StillClaimed(r) ==
  \/ r.status = "claimed"
  \/ r.status = "dead_letter" /\ r.expired

(* What a step does to the claims: a worker keeps its claim or gives it up *)
(* and a job is ended by the worker that holds its last claim alone.       *)
KeepsJobClaims ==
  /\ \A w \in JobWorkers :
       \/ worker'[w] = None
       \/ /\ worker[w] # None /\ worker'[w] # None
          /\ worker'[w].job = worker[w].job
          /\ worker'[w].token = worker[w].token
  /\ \A j \in Jobs :
       /\ job'[j].attempts = job[j].attempts
       /\ job'[j].status = "absent" => job[j].status = "absent"
       /\ \/ StillClaimed(job[j]) => StillClaimed(job'[j])
          \/ \E w \in JobWorkers :
               /\ worker[w] # None /\ worker[w].job = j
               /\ worker[w].token = job[j].attempts
               /\ worker'[w] = None

(* A new job has no claim.                                                 *)
LEMMA NewJobKeepsClaims ==
  ASSUME JobsInv, NEW S, NEW j \in Jobs, job[j].status = "absent",
         job' = [job EXCEPT ![j] = NewJob(S)], worker' = worker
  PROVE  KeepsJobClaims
<1> USE DEF JobsInv, JobsTypeOK
<1>1. job[j].attempts = 0 BY DEF JobClaimsNumbered
<1> QED BY <1>1 DEF KeepsJobClaims, StillClaimed, NewJob

(* What the exhausted jobs that are put aside were.                        *)
LEMMA ReapedJob ==
  ASSUME JobsInv, NEW j \in Jobs
  PROVE  /\ Reaped[j].attempts = job[j].attempts
         /\ Reaped[j].status = "absent" => job[j].status = "absent"
         /\ StillClaimed(job[j]) => StillClaimed(Reaped[j])
<1>1. job[j] \in JobRow BY DEF JobsInv, JobsTypeOK
<1> QED BY <1>1 DEF Reaped, Exhausted, StillClaimed, JobRow

(* Every step but a claim keeps the claims.                                *)
LEMMA OthersKeepJobClaims ==
  ASSUME JobsInv, [JobsNext]_jobVars, ~\E w \in JobWorkers, j \in Jobs : ClaimJob(w, j)
  PROVE  KeepsJobClaims
<1> USE DEF JobsInv, JobsTypeOK
<1>1. ASSUME job' = job, worker' = worker PROVE KeepsJobClaims
  BY <1>1 DEF KeepsJobClaims
<1>2. ASSUME NEW t \in Captures, NEW late \in BOOLEAN, AppendTurn(t, late)
      PROVE  KeepsJobClaims
  <2> DEFINE S == Oldest(Pending(SessionOf[t]) \cup {t}, WindowTurns)
  <2>1. job' = job \/ \E j \in FreshJobs : job' = [job EXCEPT ![j] = NewJob(S)]
    BY <1>2 DEF AppendTurn, WindowJob
  <2>2. worker' = worker BY <1>2 DEF AppendTurn
  <2> QED BY <1>1, <2>1, <2>2, NewJobKeepsClaims DEF FreshJobs
<1>3. ASSUME NEW s \in Sessions, IdleJob(s) PROVE KeepsJobClaims
  <2>1. PICK j \in FreshJobs : job' = [job EXCEPT ![j] = NewJob(Pending(s))]
    BY <1>3 DEF IdleJob
  <2> QED BY <1>3, <2>1, NewJobKeepsClaims DEF FreshJobs, IdleJob
<1>4. ASSUME NEW j \in Jobs, AddJob(j) PROVE KeepsJobClaims
  BY <1>4, NewJobKeepsClaims DEF AddJob
<1>5. ASSUME NEW j \in Jobs, JobClock(j) PROVE KeepsJobClaims
  <2>1. job[j] \in JobRow OBVIOUS
  <2>2. /\ job'[j].attempts = job[j].attempts /\ job'[j].status = job[j].status
        /\ job[j].expired => job'[j].expired
        /\ \A i \in Jobs \ {j} : job'[i] = job[i]
    BY <1>5, <2>1 DEF JobClock, JobLeaseExpires, JobRetryDue, JobRow
  <2>3. worker' = worker BY <1>5 DEF JobClock, JobLeaseExpires, JobRetryDue
  <2> QED BY <2>2, <2>3 DEF KeepsJobClaims, StillClaimed
<1>6. ASSUME NEW w \in JobWorkers, ReapJobs(w) PROVE KeepsJobClaims
  BY <1>6, ReapedJob DEF ReapJobs, KeepsJobClaims
<1>7. ASSUME NEW w \in JobWorkers, Process(w) \/ ProcessFails(w) \/ ReadClock(w)
      PROVE  KeepsJobClaims
  <2>1. worker[w] # None /\ worker[w] \in WorkerRow
    BY <1>7, WorkerAtWork DEF Process, ProcessFails, ReadClock, WorkerAt
  <2>2. job' = job /\ \A v \in JobWorkers \ {w} : worker'[v] = worker[v]
    BY <1>7 DEF Process, ProcessFails, ReadClock
  <2>3. worker'[w].job = worker[w].job /\ worker'[w].token = worker[w].token
    <3>1. CASE Process(w) \/ ProcessFails(w)
      BY <2>1, <3>1 DEF Process, ProcessFails, WorkerRow
    <3>2. CASE ReadClock(w)
      BY <2>1, <3>2 DEF ReadClock, WorkerRow
    <3> QED BY <1>7, <3>1, <3>2
  <2> QED BY <2>1, <2>2, <2>3 DEF KeepsJobClaims
<1>8. ASSUME NEW w \in JobWorkers, CompleteJob(w) PROVE KeepsJobClaims
  <2>1. worker[w] # None /\ worker[w] \in WorkerRow /\ worker[w].job \in Jobs
    BY <1>8, WorkerAtWork DEF CompleteJob, WorkerAt
  <2>2. CASE HoldsJob(w) /\ worker[w].live
    <3>1. job[worker[w].job] \in JobRow BY <2>1
    <3>2. /\ job' = [job EXCEPT ![worker[w].job].status = "completed"]
          /\ worker' = [worker EXCEPT ![w] = None]
      BY <1>8, <2>2 DEF CompleteJob
    <3> QED BY <2>1, <2>2, <3>1, <3>2 DEF KeepsJobClaims, HoldsJob, JobRow
  <2>3. CASE ~(HoldsJob(w) /\ worker[w].live)
    <3>1. job' = job /\ worker' = [worker EXCEPT ![w].stage = "failed"]
      BY <1>8, <2>3 DEF CompleteJob
    <3> QED BY <2>1, <3>1 DEF KeepsJobClaims, WorkerRow
  <2> QED BY <2>2, <2>3
<1>9. ASSUME NEW w \in JobWorkers, FailJob(w) PROVE KeepsJobClaims
  <2>1. worker[w] # None /\ worker[w] \in WorkerRow /\ worker[w].job \in Jobs
    BY <1>9, WorkerAtWork DEF FailJob, WorkerAt
  <2>2. worker' = [worker EXCEPT ![w] = None] BY <1>9 DEF FailJob
  <2>3. CASE HoldsJob(w) /\ worker[w].live
    <3>1. job[worker[w].job] \in JobRow BY <2>1
    <3>2. job' = [job EXCEPT ![worker[w].job].status =
                               JobStatusAfterFailure(job[worker[w].job].attempts),
                             ![worker[w].job].due = FALSE]
      BY <1>9, <2>3 DEF FailJob
    <3> QED
      BY <2>1, <2>2, <2>3, <3>1, <3>2
      DEF KeepsJobClaims, HoldsJob, JobStatusAfterFailure, JobRow
  <2>4. CASE job' = job BY <2>2, <2>4 DEF KeepsJobClaims
  <2> QED BY <1>9, <2>3, <2>4 DEF FailJob
<1>10. ASSUME NEW w \in JobWorkers, WorkerCrash(w) PROVE KeepsJobClaims
  BY <1>10 DEF WorkerCrash, KeepsJobClaims
<1> QED
  BY <1>1, <1>2, <1>3, <1>4, <1>5, <1>6, <1>7, <1>8, <1>9, <1>10
  DEF JobsNext, JobStep, WorkerRunOnce, IdleDeadline, jobVars

(* A claim takes the next number of its job, the other steps take none; so *)
(* the holder of the last number is alone, and it alone ends the job.      *)
LEMMA JobClaimsStep ==
  ASSUME JobsInv, [JobsNext]_jobVars
  PROVE  JobClaimsNumbered' /\ JobClaimsRespected'
<1> USE DEF JobsInv, JobsTypeOK
<1>1. \A w \in JobWorkers : worker[w] # None =>
        /\ worker[w].job \in Jobs
        /\ worker[w].token \in 1 .. job[worker[w].job].attempts
        /\ worker[w].token = job[worker[w].job].attempts
             => StillClaimed(job[worker[w].job])
  BY WorkerAtWork DEF JobClaimsNumbered, JobClaimsRespected, StillClaimed
<1>2. ASSUME NEW w \in JobWorkers, NEW j \in Jobs, ClaimJob(w, j)
      PROVE  JobClaimsNumbered' /\ JobClaimsRespected'
  <2>1. /\ job[j].attempts \in Nat
        /\ job'[j].attempts = job[j].attempts + 1
        /\ job'[j].status = "claimed"
    <3>1. job[j] \in JobRow OBVIOUS
    <3>2. Reaped[j] \in JobRow
      <4>1. [job[j] EXCEPT !.status = "dead_letter"] \in JobRow
        BY <3>1 DEF JobRow, JobSettled
      <4> QED BY <3>1, <4>1 DEF Reaped
    <3>3. job' = [Reaped EXCEPT ![j].status = "claimed", ![j].attempts = @ + 1,
                                ![j].expired = FALSE]
      BY <1>2 DEF ClaimJob
    <3>4. Reaped = [i \in Jobs |-> Reaped[i]] BY DEF Reaped
    <3>5. job'[j] = [Reaped[j] EXCEPT !.status = "claimed", !.attempts = @ + 1,
                                     !.expired = FALSE]
      BY <3>3, <3>4
    <3>6. Reaped[j].attempts = job[j].attempts BY ReapedJob
    <3> QED BY <3>1, <3>2, <3>5, <3>6 DEF JobRow
  <2>2. \A i \in Jobs \ {j} : job'[i] = Reaped[i]
    <3>1. Reaped = [i \in Jobs |-> Reaped[i]] BY DEF Reaped
    <3> QED BY <1>2, <3>1 DEF ClaimJob
  <2>3. \A i \in Jobs \ {j} :
          /\ job'[i].attempts = job[i].attempts
          /\ job'[i].status = "absent" => job[i].status = "absent"
          /\ StillClaimed(job[i]) => StillClaimed(job'[i])
    BY <2>2, ReapedJob
  <2>4. /\ worker'[w].job = j /\ worker'[w].token = job[j].attempts + 1
        /\ \A v \in JobWorkers \ {w} : worker'[v] = worker[v]
    BY <1>2 DEF ClaimJob
  <2>5. \A v \in JobWorkers \ {w} : worker'[v] # None /\ worker'[v].job = j
          => worker'[v].token \in 1 .. job[j].attempts
    BY <1>1, <2>4
  <2>6. JobClaimsNumbered'
    BY <1>1, <2>1, <2>3, <2>4, <2>5 DEF JobClaimsNumbered
  <2>7. JobClaimsRespected'
    <3> SUFFICES ASSUME NEW v \in JobWorkers, worker'[v] # None,
                        job'[worker'[v].job].attempts = worker'[v].token
                 PROVE  StillClaimed(job'[worker'[v].job])
      BY DEF JobClaimsRespected, StillClaimed
    <3>1. CASE worker'[v].job = j BY <2>1, <3>1 DEF StillClaimed
    <3>2. CASE worker'[v].job # j
      BY <1>1, <2>3, <2>4, <3>2
    <3> QED BY <3>1, <3>2
  <2> QED BY <2>6, <2>7
<1>3. CASE ~\E w \in JobWorkers, j \in Jobs : ClaimJob(w, j)
  <2>1. KeepsJobClaims BY <1>3, OthersKeepJobClaims
  <2>2. \A w \in JobWorkers : worker'[w] # None =>
          /\ worker[w] # None /\ worker[w].job \in Jobs
          /\ worker'[w].job = worker[w].job
          /\ worker'[w].token = worker[w].token
    BY <1>1, <2>1 DEF KeepsJobClaims
  <2>3. JobClaimsNumbered' BY <2>1, <2>2 DEF KeepsJobClaims, JobClaimsNumbered
  <2>4. JobClaimsRespected'
    <3> SUFFICES ASSUME NEW w \in JobWorkers, worker'[w] # None,
                        job'[worker'[w].job].attempts = worker'[w].token
                 PROVE  StillClaimed(job'[worker'[w].job])
      BY DEF JobClaimsRespected, StillClaimed
    <3> DEFINE j == worker[w].job
    <3>1. worker[w] # None /\ j \in Jobs /\ worker'[w].job = j
          /\ worker[w].token = job[j].attempts
      BY <2>1, <2>2 DEF KeepsJobClaims
    <3>2. StillClaimed(job[j]) BY <1>1, <3>1
    <3>3. ASSUME NEW v \in JobWorkers, worker[v] # None, worker[v].job = j,
                 worker[v].token = job[j].attempts, worker'[v] = None
          PROVE  FALSE
      BY <3>1, <3>3 DEF JobClaimsNumbered
    <3> QED BY <2>1, <3>1, <3>2, <3>3 DEF KeepsJobClaims
  <2> QED BY <2>3, <2>4
<1> QED BY <1>2, <1>3

-----------------------------------------------------------------------------

(* The invariant of the Formation queue.                                   *)
THEOREM JobsInvariant == JobsSpec => []JobsInv
<1>1. JobsInit => JobsInv
  BY FormationConstants DEF JobsInit, JobsInv, JobsTypeOK, RangesPartition, FrozenHasJob,
     UnusedJobsAreEmpty, FormedWithJob, WaitingHasAttempts, JobClaimsNumbered,
     JobClaimsRespected, CaptureRow, JobRow, JobSettled
<1>2. JobsInv /\ [JobsNext]_jobVars => JobsInv'
  BY StepMoves, JobsTypeStep, HandledKeeps, CapturedKeeps, FrozenKeeps, FormedKeeps,
     JobClaimsStep
  DEF Moves, JobsInv
<1> QED BY <1>1, <1>2, PTL DEF JobsSpec

(* Turns, jobs and workers have their types.                               *)
THEOREM JobsTypeCorrect == JobsSpec => []JobsTypeOK
<1>1. JobsInv => JobsTypeOK BY DEF JobsInv
<1> QED BY <1>1, JobsInvariant, PTL

(* However captures, window triggers and idle sweeps interleave, a Turn is *)
(* frozen into at most one job, the one its row names.                     *)
THEOREM TurnsArePartitioned == JobsSpec => []RangesPartition
<1>1. JobsInv => RangesPartition BY DEF JobsInv
<1> QED BY <1>1, JobsInvariant, PTL

(* A Turn is formed exactly when its job has completed, also when a worker *)
(* whose lease expired still tries to end the job.                         *)
THEOREM TurnsAreFormedWithTheirJob == JobsSpec => []FormedWithJob
<1>1. JobsInv => FormedWithJob BY DEF JobsInv
<1> QED BY <1>1, JobsInvariant, PTL

(* A job that waits can be claimed.                                        *)
THEOREM WaitingJobsCanBeClaimed == JobsSpec => []WaitingHasAttempts
<1>1. JobsInv => WaitingHasAttempts BY DEF JobsInv
<1> QED BY <1>1, JobsInvariant, PTL

(* The range and the outcome of a job never change.                        *)
THEOREM JobOutcomesAreFinal == JobsSpec => JobsAreFinal
<1>1. JobsInv /\ [JobsNext]_jobVars =>
        [\A j \in Jobs :
           /\ job[j].status # "absent" => job'[j].refs = job[j].refs
           /\ job[j].status \in JobSettled => job'[j].status = job[j].status]_jobVars
  BY StepMoves, MovesAreFinal DEF JobsInv
<1> QED BY <1>1, JobsInvariant, PTL DEF JobsSpec, JobsAreFinal

(* Captured Turns are partitioned into jobs, formed with their job, no     *)
(* waiting job is stranded, and none is ended over its worker's head.      *)
THEOREM JobsAreSafe == JobsSpec => []JobsSafe
<1>1. JobsInv => JobsSafe BY DEF JobsInv, JobsSafe
<1> QED BY <1>1, JobsInvariant, PTL

-----------------------------------------------------------------------------
(* Structured formation.                                                   *)

RunStatus == {"running", "pending", "blocked", "completed", "failed", "cancelled"}
PlanHold == [kind : {"plan"}, stage : {"publish", "mark"}, order : Nat,
             job : {"plan"} \X {"event", "state"} \X (1..MaxVersion)]
RunHold == [kind : {"run"}, stage : {"read", "create", "markCreate", "target", "markTarget"},
            status : RunStatus, order : Nat]
ResultHold == [kind : {"result"}, stage : {"publish", "mark", "capture", "markCapture", "foreign"}]
RowJob == [status : {"none", "queued", "running", "done", "dead"}, order : Nat, attempts : Nat]
TaskRev == {"add", "update"} \X JobId
Work == [stage : {"evaluate", "check", "apply", "complete"}, job : JobId, token : Nat,
         op : {"none", "add", "update", "noop"}, rev : {NoTask.rev} \cup TaskRev]

\* The types of rows, marks, jobs, workers and of the memory.
StructTypeOK ==
    /\ plan \in [version : 0..MaxVersion, last : 0..MaxVersion, published : Nat]
    /\ run \in [status : {"none"} \cup RunStatus, published : Nat, delegated : BOOLEAN]
    /\ outcome \in [stored : BOOLEAN, owned : BOOLEAN, suppressed : BOOLEAN, published : BOOLEAN,
                    captured : BOOLEAN, capsule : BOOLEAN]
    /\ holds \in [Publisher -> {Nobody} \cup PlanHold \cup RunHold \cup ResultHold]
    /\ jobs \in [JobId -> RowJob]
    /\ works \in [FormationWorker -> {NoWork} \cup Work]
    /\ task \in {NoTask} \cup [order : Nat, rev : TaskRev]
    /\ decided \subseteq TaskRev
    /\ forgotten \in BOOLEAN

\* A mark follows its job.
HoldKnown(h) ==
    /\ h.kind = "plan" /\ h.stage = "mark" =>
         jobs[h.job].status # "none" /\ jobs[h.job].order = h.order
    /\ h.kind = "run" /\ h.stage \in {"markCreate", "target", "markTarget"} =>
         jobs[<<"run", "running">>].status # "none"
    /\ h.kind = "result" =>
         /\ outcome.stored
         /\ h.stage = "foreign" <=> ~outcome.owned
         /\ h.stage \in {"publish", "mark"} => ~outcome.suppressed
         /\ h.stage = "mark" => jobs[<<"result">>].status # "none"

\* A result is published once it is stored, and only for its owner.
OutcomeKnown ==
    /\ outcome.published \/ outcome.capsule => outcome.stored
    /\ jobs[<<"result">>].status # "none" => outcome.stored /\ outcome.owned
    /\ outcome.published /\ outcome.owned => jobs[<<"result">>].status # "none"
    /\ outcome.capsule => outcome.owned /\ ~outcome.suppressed
    /\ run.published >= 1 => jobs[<<"run", "running">>].status # "none"

\* The memory shows job j or a later one, unless it has been deleted.
Remembered(j) == ~forgotten => jobs[j].order <= task.order

\* What a worker has found out stays true until it applies it: an update knows
\* the revision it replaces, which is older as long as it is current, and what
\* a worker drops or has applied is remembered.
WorkKnown(w) ==
    w # NoWork =>
        /\ jobs[w.job].status # "none"
        /\ w.stage \in {"check", "apply"} /\ w.op = "noop" => Remembered(w.job)
        /\ w.stage \in {"check", "apply"} /\ w.op = "update" => w.rev \in decided
        /\ w.stage = "apply" /\ w.op = "update" /\ task.rev = w.rev => task.order < jobs[w.job].order
        /\ w.stage \in {"check", "apply"} => w.op # "none"
        /\ w.stage = "complete" => Remembered(w.job)

\* Decisions on record are those of jobs, and remembered.
DecisionsKnown ==
    /\ task # NoTask => task.rev \in decided
    /\ \A d \in decided : jobs[d[2]].status # "none" /\ Remembered(d[2])

StructInv ==
    /\ StructTypeOK /\ OutcomeKnown /\ DecisionsKnown /\ DoneJobIsRemembered
    /\ \A p \in Publisher : HoldKnown(holds[p])
    /\ \A k \in FormationWorker : WorkKnown(works[k])

\* What no step takes back: jobs keep their order, the memory goes on while it
\* exists, and a revision that was replaced does not come back.
Onward ==
    /\ \A j \in JobId : jobs[j].status # "none" =>
         /\ jobs'[j].status # "none" /\ jobs'[j].order = jobs[j].order
    /\ ~forgotten' => ~forgotten /\ task.order <= task'.order
    /\ task # NoTask /\ task' # NoTask => task.order <= task'.order
    /\ task'.rev \in decided => task' = task
    /\ decided \subseteq decided'

-----------------------------------------------------------------------------

\* Absence has a shape of its own.
LEMMA StructNames ==
    /\ NoTask \notin [order : Nat, rev : TaskRev] /\ NoTask.order = 0 /\ NoTask.rev = <<"none">>
    /\ NoTask.rev \notin TaskRev
    /\ NoWork \notin Work /\ NoWork.stage = "idle"
    /\ Nobody.kind = "none" /\ Nobody \notin PlanHold \cup RunHold \cup ResultHold
    /\ <<"result">> \in JobId /\ \A s \in RunStatus : <<"run", s>> \in JobId
    /\ \A e \in {"event", "state"}, v \in 1..MaxVersion : <<"plan", e, v>> \in JobId
    /\ \A s : <<"run", s>> # <<"result">>
    /\ \A e, v, s : <<"plan", e, v>> # <<"result">>
<1>1. NoTask.order = 0 /\ NoTask.rev = <<"none">>
  BY DEF NoTask
<1>2. NoTask.rev \notin TaskRev
  <2>1. ASSUME NEW r \in TaskRev PROVE r # <<"none">>
    <3>1. r[1] # "none"
      BY DEF TaskRev
    <3>2. <<"none">>[1] = "none"
      OBVIOUS
    <3> QED  BY <3>1, <3>2
  <2> QED  BY <1>1, <2>1
<1>3. NoTask \notin [order : Nat, rev : TaskRev]
  BY <1>2
<1>4. NoWork \notin Work /\ NoWork.stage = "idle"
  BY DEF NoWork, Work
<1>5. Nobody.kind = "none" /\ Nobody \notin PlanHold \cup RunHold \cup ResultHold
  BY DEF Nobody, PlanHold, RunHold, ResultHold
<1>6. /\ <<"result">> \in JobId /\ \A s \in RunStatus : <<"run", s>> \in JobId
      /\ \A e \in {"event", "state"}, v \in 1..MaxVersion : <<"plan", e, v>> \in JobId
  BY DEF JobId, RunStatus
<1>7. /\ \A s : <<"run", s>> # <<"result">>
      /\ \A e, v, s : <<"plan", e, v>> # <<"result">>
  OBVIOUS
<1> QED  BY <1>1, <1>2, <1>3, <1>4, <1>5, <1>6, <1>7

\* In the beginning nothing is stored.
LEMMA StructStart == StructInit => StructInv
<1> SUFFICES ASSUME StructInit PROVE StructInv
  OBVIOUS
<1>1. StructTypeOK
  <2>1. 0 \in 0..MaxVersion
    BY StructuredAssumption
  <2>2. [status |-> "none", order |-> 0, attempts |-> 0] \in RowJob
    BY DEF RowJob
  <2> QED  BY <2>1, <2>2 DEF StructInit, StructTypeOK
<1>2. OutcomeKnown
  BY StructNames DEF StructInit, OutcomeKnown, RunStatus
<1>3. DecisionsKnown /\ DoneJobIsRemembered
  BY DEF StructInit, DecisionsKnown, DoneJobIsRemembered
<1>4. \A p \in Publisher : HoldKnown(holds[p])
  BY StructNames DEF StructInit, HoldKnown
<1>5. \A k \in FormationWorker : WorkKnown(works[k])
  BY DEF StructInit, WorkKnown
<1> QED  BY <1>1, <1>2, <1>3, <1>4, <1>5 DEF StructInv

\* What is known stays known while jobs and memory go on.
LEMMA KnownOnward ==
    ASSUME StructTypeOK, StructTypeOK', Onward
    PROVE  /\ \A j \in JobId : jobs[j].status # "none" /\ Remembered(j) => Remembered(j)'
           /\ \A w \in {NoWork} \cup Work : WorkKnown(w) => WorkKnown(w)'
<1>1. \A j \in JobId : jobs[j] \in RowJob /\ jobs'[j] \in RowJob
  BY DEF StructTypeOK
<1>2. task.order \in Nat /\ task'.order \in Nat /\ (task # NoTask => task.rev \in TaskRev)
  BY StructNames DEF StructTypeOK
<1>3. ASSUME NEW j \in JobId, jobs[j].status # "none", Remembered(j) PROVE Remembered(j)'
  BY <1>1, <1>2, <1>3 DEF Remembered, Onward, RowJob
<1>4. ASSUME NEW w \in {NoWork} \cup Work, WorkKnown(w) PROVE WorkKnown(w)'
  <2>1. CASE w = NoWork
    BY <2>1 DEF WorkKnown
  <2>2. CASE w \in Work
    <3>1. w.job \in JobId /\ w # NoWork
      BY <2>2, StructNames DEF Work
    <3>2. jobs[w.job].status # "none" /\ jobs'[w.job].status # "none" /\ jobs'[w.job].order = jobs[w.job].order
      BY <1>4, <3>1 DEF WorkKnown, Onward
    <3>3. Remembered(w.job) => Remembered(w.job)'
      BY <1>3, <3>1, <3>2
    <3>4. ASSUME w.stage = "apply", w.op = "update", task'.rev = w.rev
          PROVE  task'.order < jobs'[w.job].order
      <4>1. w.rev \in decided
        BY <1>4, <3>1, <3>4 DEF WorkKnown
      <4>2. task' = task
        BY <3>4, <4>1 DEF Onward
      <4> QED  BY <1>4, <3>1, <3>2, <3>4, <4>2 DEF WorkKnown
    <3> QED  BY <1>4, <3>1, <3>2, <3>3, <3>4 DEF WorkKnown, Onward
  <2> QED  BY <2>1, <2>2
<1> QED  BY <1>3, <1>4

\* What a publisher holds.
HoldRec == {Nobody} \cup PlanHold \cup RunHold \cup ResultHold

\* A publisher leaves the workers alone; it may queue one new job.
Queueing ==
    /\ jobs' \in [JobId -> RowJob]
    /\ \A j \in JobId : \/ jobs'[j] = jobs[j]
                        \/ jobs[j].status = "none" /\ jobs'[j].status = "queued"
    /\ UNCHANGED <<works, task, decided, forgotten>>

\* Whoever is stored keeps owner and privacy.
OwnerStays ==
    outcome.stored => /\ outcome'.stored /\ outcome'.owned = outcome.owned
                      /\ outcome'.suppressed = outcome.suppressed

\* Queueing takes nothing back.
LEMMA QueueingOnward == ASSUME StructTypeOK, Queueing PROVE Onward
BY StructNames DEF StructTypeOK, Queueing, Onward

\* What another publisher holds stays known.
LEMMA HoldOnward ==
    ASSUME StructTypeOK, Queueing, OwnerStays, NEW h \in HoldRec, HoldKnown(h)
    PROVE  HoldKnown(h)'
<1>1. \A j \in JobId : jobs[j].status # "none" => jobs'[j].status # "none" /\ jobs'[j].order = jobs[j].order
  BY DEF Queueing
<1>2. CASE h \in PlanHold
  <2>1. h.job \in JobId
    BY <1>2 DEF PlanHold, JobId
  <2> QED  BY <1>1, <1>2, <2>1 DEF PlanHold, HoldKnown
<1>3. CASE h \in RunHold
  BY <1>1, <1>3, StructNames DEF RunHold, HoldKnown, RunStatus
<1>4. CASE h \in ResultHold
  BY <1>1, <1>4, StructNames DEF ResultHold, HoldKnown, OwnerStays
<1>5. CASE h = Nobody
  BY <1>5, StructNames DEF HoldKnown
<1> QED  BY <1>2, <1>3, <1>4, <1>5 DEF HoldRec

\* One publisher moves on to h.
LEMMA PublisherMoves ==
    ASSUME StructInv, Queueing, OwnerStays, OutcomeKnown',
           plan' \in [version : 0..MaxVersion, last : 0..MaxVersion, published : Nat],
           run' \in [status : {"none"} \cup RunStatus, published : Nat, delegated : BOOLEAN],
           outcome' \in [stored : BOOLEAN, owned : BOOLEAN, suppressed : BOOLEAN, published : BOOLEAN,
                         captured : BOOLEAN, capsule : BOOLEAN],
           NEW w \in Publisher, NEW h \in HoldRec, holds' = [holds EXCEPT ![w] = h], HoldKnown(h)'
    PROVE  StructInv' /\ Onward
<1>1. StructTypeOK'
  BY DEF StructInv, StructTypeOK, Queueing, HoldRec
<1>2. Onward
  BY QueueingOnward DEF StructInv
<1>3. DoneJobIsRemembered'
  BY DEF StructInv, DoneJobIsRemembered, Queueing
<1>4. DecisionsKnown'
  <2>1. \A d \in decided : d[2] \in JobId
    BY DEF StructInv, StructTypeOK, TaskRev
  <2>2. \A d \in decided : jobs'[d[2]] = jobs[d[2]]
    BY <2>1 DEF StructInv, DecisionsKnown, Queueing
  <2> QED  BY <2>2 DEF StructInv, DecisionsKnown, Queueing, Remembered
<1>5. ASSUME NEW p \in Publisher PROVE HoldKnown(holds[p])'
  <2>1. CASE p = w
    <3>1. h = holds'[p]
      BY <2>1 DEF StructInv, StructTypeOK
    <3> QED  BY <3>1
  <2>2. CASE p # w
    <3>1. PICK g \in HoldRec : g = holds[p]
      BY DEF StructInv, StructTypeOK, HoldRec
    <3>2. HoldKnown(g)' /\ g = holds'[p]
      BY <2>2, <3>1, HoldOnward DEF StructInv, StructTypeOK
    <3> QED  BY <3>2
  <2> QED  BY <2>1, <2>2
<1>6. ASSUME NEW k \in FormationWorker PROVE WorkKnown(works[k])'
  <2>1. PICK v \in {NoWork} \cup Work : v = works[k]
    BY DEF StructInv, StructTypeOK
  <2>2. WorkKnown(v)' /\ v = works'[k]
    BY <1>1, <1>2, <2>1, KnownOnward DEF StructInv, Queueing
  <2> QED  BY <2>2
<1> QED  BY <1>1, <1>2, <1>3, <1>4, <1>5, <1>6 DEF StructInv

\* Jobs that are left alone.
LEMMA NoQueueing == ASSUME StructTypeOK, UNCHANGED <<jobs, works, task, decided, forgotten>> PROVE Queueing
BY DEF StructTypeOK, Queueing

\* A job is queued once.
LEMMA JobQueued ==
    ASSUME StructTypeOK, NEW j \in JobId, NEW order \in Nat, QueueJob(j, order),
           UNCHANGED <<works, task, decided, forgotten>>
    PROVE  /\ Queueing /\ jobs'[j].status # "none"
           /\ jobs'[j].order = order \/ (jobs[j].status # "none" /\ jobs'[j] = jobs[j])
           /\ \A i \in JobId : i # j => jobs'[i] = jobs[i]
<1>1. Queued(order) \in RowJob /\ Queued(order).status = "queued" /\ Queued(order).order = order
  BY DEF Queued, RowJob
<1> QED  BY <1>1 DEF QueueJob, StructTypeOK, Queueing

-----------------------------------------------------------------------------
(* Changes of the rows.                                                    *)

\* A change of the Plan, by a writer, a private request or a Run.
LEMMA PlanChangeKeeps ==
    ASSUME StructInv, \/ SaveSuppressed \/ SaveByRun
                      \/ \E w \in Writer, named \in BOOLEAN : SavePlan(w, named)
    PROVE  StructInv' /\ Onward
<1> DEFINE v == plan.version + 1
<1>1. /\ StructTypeOK /\ v \in Nat /\ Reconciler \in Publisher
      /\ plan.version \in Nat /\ plan.last \in 0..MaxVersion /\ plan.published \in Nat
  BY StructuredAssumption DEF StructInv, StructTypeOK, Publisher
<1>2. /\ v <= MaxVersion => v \in 1..MaxVersion /\ v \in 0..MaxVersion
      /\ UNCHANGED <<run, outcome, jobs, works, task, decided, forgotten>>
  <2>1. UNCHANGED <<run, outcome, jobs, works, task, decided, forgotten>>
    BY DEF SaveSuppressed, SaveByRun, SavePlan
  <2>2. v <= MaxVersion => v \in 1..MaxVersion /\ v \in 0..MaxVersion
    BY <1>1, StructuredAssumption DEF StructTypeOK
  <2> QED  BY <2>1, <2>2
<1>3. Queueing /\ OwnerStays /\ OutcomeKnown'
  BY <1>1, <1>2, NoQueueing DEF OwnerStays, StructInv, OutcomeKnown
<1>4. CASE SaveSuppressed \/ SaveByRun
  <2>1. /\ v <= MaxVersion /\ holds' = holds
        /\ plan' = [plan EXCEPT !.version = v, !.published = v]
             \/ plan' = [plan EXCEPT !.version = v, !.last = v]
    BY <1>4 DEF SaveSuppressed, SaveByRun
  <2>2. plan' \in [version : 0..MaxVersion, last : 0..MaxVersion, published : Nat]
    BY <1>1, <1>2, <2>1 DEF StructTypeOK
  <2>3. PICK h \in HoldRec : h = holds[Reconciler]
    BY <1>1 DEF StructTypeOK, HoldRec
  <2>4. holds' = [holds EXCEPT ![Reconciler] = h]
    BY <1>1, <2>1, <2>3 DEF StructTypeOK
  <2>5. HoldKnown(h)'
    BY <1>1, <1>3, <2>3, HoldOnward DEF StructInv
  <2> QED  BY <1>1, <1>2, <1>3, <2>2, <2>4, <2>5, PublisherMoves DEF StructTypeOK
<1>5. ASSUME NEW w \in Writer, NEW named \in BOOLEAN, SavePlan(w, named)
      PROVE  StructInv' /\ Onward
  <2> DEFINE b == PlanCopy(v, IF named THEN v ELSE 0)
  <2>1. /\ v <= MaxVersion /\ holds' = [holds EXCEPT ![w] = b]
        /\ plan' = [plan EXCEPT !.version = v, !.last = IF named THEN v ELSE plan.last]
    BY <1>5 DEF SavePlan, Hold
  <2>2. plan' \in [version : 0..MaxVersion, last : 0..MaxVersion, published : Nat]
    BY <1>1, <1>2, <2>1 DEF StructTypeOK
  <2>3. b \in PlanHold /\ b.stage = "publish" /\ b.kind = "plan"
    BY <1>1, <1>2, <2>1 DEF PlanCopy, PlanHold
  <2> HIDE DEF b
  <2>4. PICK h \in HoldRec : h = b
    BY <2>3 DEF HoldRec
  <2>5. HoldKnown(h)'
    BY <2>3, <2>4 DEF HoldKnown
  <2>6. w \in Publisher
    BY DEF Publisher
  <2> QED  BY <1>1, <1>2, <1>3, <2>1, <2>2, <2>4, <2>5, <2>6, PublisherMoves DEF StructTypeOK
<1> QED  BY <1>4, <1>5

\* A Run is stored or moves on; only invocations publish it.
LEMMA RunChangeKeeps ==
    ASSUME StructInv, NEW w \in Writer, AddRun(w) \/ UpdateRun(w)
    PROVE  StructInv' /\ Onward
<1>1. PICK s \in RunStatus :
        /\ run' \in {[run EXCEPT !.status = s], [run EXCEPT !.status = s, !.delegated = (s = "pending")]}
        /\ holds' = holds \/ holds' = [holds EXCEPT ![w] = RunCopy(s)]
        /\ UNCHANGED <<plan, outcome, jobs, works, task, decided, forgotten>>
  <2>1. CASE AddRun(w)
    <3>1. \A s \in StartStatus : s \in RunStatus
      BY StructuredAssumption DEF RunStatus
    <3> QED  BY <2>1, <3>1 DEF AddRun, Hold
  <2>2. CASE UpdateRun(w)
    <3>1. \A s \in Later : s \in RunStatus
      BY DEF Later, RunStatus
    <3> QED  BY <2>2, <3>1 DEF UpdateRun, Hold
  <2> QED  BY <2>1, <2>2
<1>2. StructTypeOK /\ w \in Publisher
  BY DEF StructInv, Publisher
<1>3. /\ run' \in [status : {"none"} \cup RunStatus, published : Nat, delegated : BOOLEAN]
      /\ run'.published = run.published
  BY <1>1, <1>2 DEF StructTypeOK
<1>4. Queueing /\ OwnerStays /\ OutcomeKnown'
  BY <1>1, <1>2, <1>3, NoQueueing DEF OwnerStays, StructInv, OutcomeKnown
<1>5. CASE holds' = holds
  <2>1. PICK h \in HoldRec : h = holds[w]
    BY <1>2 DEF StructTypeOK, HoldRec
  <2>2. holds' = [holds EXCEPT ![w] = h]
    BY <1>2, <1>5, <2>1 DEF StructTypeOK
  <2>3. HoldKnown(h)'
    BY <1>2, <1>4, <2>1, HoldOnward DEF StructInv
  <2> QED  BY <1>1, <1>2, <1>3, <1>4, <2>2, <2>3, PublisherMoves DEF StructTypeOK
<1>6. CASE holds' = [holds EXCEPT ![w] = RunCopy(s)]
  <2>1. RunCopy(s) \in RunHold /\ RunCopy(s).stage = "read" /\ RunCopy(s).kind = "run"
    BY DEF RunCopy, RunHold
  <2>2. PICK h \in HoldRec : h = RunCopy(s)
    BY <2>1 DEF HoldRec
  <2>3. HoldKnown(h)'
    BY <2>1, <2>2 DEF HoldKnown
  <2> QED  BY <1>1, <1>2, <1>3, <1>4, <1>6, <2>2, <2>3, PublisherMoves DEF StructTypeOK
<1> QED  BY <1>1, <1>5, <1>6

\* A result is stored once, with its owner.
LEMMA AddResultKeeps ==
    ASSUME StructInv, NEW w \in Writer, AddResult(w)
    PROVE  StructInv' /\ Onward
<1>1. PICK owned \in BOOLEAN, suppressed \in BOOLEAN :
        /\ ~outcome.stored
        /\ outcome' = [outcome EXCEPT !.stored = TRUE, !.owned = owned, !.suppressed = suppressed]
        /\ IF owned /\ ~suppressed THEN holds' = [holds EXCEPT ![w] = ResultCopy("publish")]
           ELSE holds' = holds
        /\ UNCHANGED <<plan, run, jobs, works, task, decided, forgotten>>
  BY DEF AddResult, Hold
<1>2. StructTypeOK /\ w \in Publisher
  BY DEF StructInv, Publisher
<1>3. /\ outcome' \in [stored : BOOLEAN, owned : BOOLEAN, suppressed : BOOLEAN, published : BOOLEAN,
                       captured : BOOLEAN, capsule : BOOLEAN]
      /\ outcome'.stored /\ outcome'.owned = owned /\ outcome'.suppressed = suppressed
      /\ outcome'.published = outcome.published /\ outcome'.capsule = outcome.capsule
  BY <1>1, <1>2 DEF StructTypeOK
<1>4. Queueing /\ OwnerStays
  BY <1>1, <1>2, NoQueueing DEF OwnerStays
<1>5. OutcomeKnown'
  BY <1>1, <1>3 DEF StructInv, OutcomeKnown
<1>6. CASE holds' = holds
  <2>1. PICK h \in HoldRec : h = holds[w]
    BY <1>2 DEF StructTypeOK, HoldRec
  <2>2. holds' = [holds EXCEPT ![w] = h]
    BY <1>2, <1>6, <2>1 DEF StructTypeOK
  <2>3. HoldKnown(h)'
    BY <1>2, <1>4, <2>1, HoldOnward DEF StructInv
  <2> QED  BY <1>1, <1>2, <1>3, <1>4, <1>5, <2>2, <2>3, PublisherMoves DEF StructTypeOK
<1>7. CASE owned /\ ~suppressed /\ holds' = [holds EXCEPT ![w] = ResultCopy("publish")]
  <2>1. /\ ResultCopy("publish") \in ResultHold /\ ResultCopy("publish").stage = "publish"
        /\ ResultCopy("publish").kind = "result"
    BY DEF ResultCopy, ResultHold
  <2>2. PICK h \in HoldRec : h = ResultCopy("publish")
    BY <2>1 DEF HoldRec
  <2>3. HoldKnown(h)'
    BY <1>3, <1>7, <2>1, <2>2 DEF HoldKnown
  <2> QED  BY <1>1, <1>2, <1>3, <1>4, <1>5, <1>7, <2>2, <2>3, PublisherMoves DEF StructTypeOK
<1> QED  BY <1>1, <1>6, <1>7

\* A publisher takes or changes its copy; rows and jobs stay as they are.
LEMMA CopyMoves ==
    ASSUME StructInv, NEW w \in Publisher, NEW h \in HoldRec, HoldKnown(h),
           holds' = [holds EXCEPT ![w] = h],
           UNCHANGED <<plan, run, outcome, jobs, works, task, decided, forgotten>>
    PROVE  StructInv' /\ Onward
<1>1. StructTypeOK
  BY DEF StructInv
<1>2. Queueing /\ OwnerStays /\ OutcomeKnown'
  BY <1>1, NoQueueing DEF OwnerStays, StructInv, OutcomeKnown
<1>3. HoldKnown(h)'
  BY <1>1, <1>2, HoldOnward
<1> QED  BY <1>1, <1>2, <1>3, PublisherMoves DEF StructTypeOK

\* The reconciler takes a row that is behind.
LEMMA ReconcileKeeps == ASSUME StructInv, Reconcile PROVE StructInv' /\ Onward
<1>1. StructTypeOK /\ Reconciler \in Publisher
  BY DEF StructInv, Publisher
<1>2. UNCHANGED <<plan, run, outcome, jobs, works, task, decided, forgotten>>
  BY DEF Reconcile
<1> DEFINE p == [PlanCopy(plan.version, plan.last) EXCEPT !.job[2] = IF plan.last = 0 THEN "state" ELSE "event"]
           s == ResultCopy(IF ~outcome.owned THEN "foreign"
                           ELSE IF outcome.suppressed THEN "capture" ELSE "publish")
<1>3. \/ plan.published < plan.version /\ holds' = [holds EXCEPT ![Reconciler] = p]
      \/ RunBehind /\ holds' = [holds EXCEPT ![Reconciler] = RunCopy(run.status)]
      \/ ResultBehind /\ holds' = [holds EXCEPT ![Reconciler] = s]
  BY DEF Reconcile, Hold
<1>4. ASSUME plan.published < plan.version PROVE p \in HoldRec /\ HoldKnown(p)
  <2> DEFINE e == IF plan.last = plan.version THEN "event" ELSE "state"
             x == IF plan.last = 0 THEN plan.version ELSE plan.last
             c == [kind |-> "plan", stage |-> "publish", order |-> plan.version, job |-> <<"plan", e, x>>]
             f == IF plan.last = 0 THEN "state" ELSE "event"
  <2>1. plan.version \in 1..MaxVersion /\ x \in 1..MaxVersion /\ plan.version \in Nat
    BY <1>1, <1>4, StructuredAssumption DEF StructTypeOK
  <2>2. PlanCopy(plan.version, plan.last) = c
    BY DEF PlanCopy
  <2>3. p = [c EXCEPT !.job = [c.job EXCEPT ![2] = f]]
    BY <2>2
  <2>4. [<<"plan", e, x>> EXCEPT ![2] = f] = <<"plan", f, x>>
    OBVIOUS
  <2>5. c.job = <<"plan", e, x>>
    OBVIOUS
  <2>6. <<"plan", f, x>> \in {"plan"} \X {"event", "state"} \X (1..MaxVersion)
    BY <2>1
  <2>7. p = [kind |-> "plan", stage |-> "publish", order |-> plan.version, job |-> <<"plan", f, x>>]
    BY <2>3, <2>4, <2>5
  <2> HIDE DEF p, e, x, c, f
  <2>8. p \in PlanHold /\ p.stage = "publish" /\ p.kind = "plan"
    BY <2>1, <2>6, <2>7 DEF PlanHold
  <2> QED  BY <2>8 DEF HoldRec, HoldKnown
<1>5. ASSUME RunBehind PROVE RunCopy(run.status) \in HoldRec /\ HoldKnown(RunCopy(run.status))
  <2>1. run.status \in RunStatus
    BY <1>1, <1>5 DEF RunBehind, StructTypeOK
  <2>2. /\ RunCopy(run.status) \in RunHold /\ RunCopy(run.status).stage = "read"
        /\ RunCopy(run.status).kind = "run"
    BY <2>1 DEF RunCopy, RunHold
  <2> QED  BY <2>2 DEF HoldRec, HoldKnown
<1>6. ASSUME ResultBehind PROVE s \in HoldRec /\ HoldKnown(s)
  <2>1. outcome.stored /\ outcome.owned \in BOOLEAN
    BY <1>1, <1>6 DEF ResultBehind, StructTypeOK
  <2>2. /\ s \in ResultHold /\ s.kind = "result"
        /\ s.stage = IF ~outcome.owned THEN "foreign" ELSE IF outcome.suppressed THEN "capture" ELSE "publish"
    BY DEF ResultCopy, ResultHold
  <2> HIDE DEF s
  <2> QED  BY <2>1, <2>2 DEF HoldRec, HoldKnown
<1> HIDE DEF p, s
<1> QED  BY <1>1, <1>2, <1>3, <1>4, <1>5, <1>6, CopyMoves

-----------------------------------------------------------------------------
(* Publication.                                                            *)

\* What is known of a publisher by the invariant, and of it without a copy.
LEMMA PublisherKnown ==
    ASSUME StructInv, NEW w \in Publisher
    PROVE  /\ holds[w] \in HoldRec /\ HoldKnown(holds[w]) /\ StructTypeOK
           /\ Nobody \in HoldRec /\ HoldKnown(Nobody)
           /\ holds[w].kind = "plan" => holds[w] \in PlanHold
           /\ holds[w].kind = "run" => holds[w] \in RunHold
           /\ holds[w].kind = "result" => holds[w] \in ResultHold
<1>1. holds[w] \in HoldRec /\ HoldKnown(holds[w]) /\ StructTypeOK /\ Nobody \in HoldRec
  BY DEF StructInv, StructTypeOK, HoldRec
<1>2. HoldKnown(Nobody)
  BY StructNames DEF HoldKnown
<1>3. /\ holds[w].kind = "plan" => holds[w] \in PlanHold
      /\ holds[w].kind = "run" => holds[w] \in RunHold
      /\ holds[w].kind = "result" => holds[w] \in ResultHold
  BY <1>1, StructNames DEF HoldRec, PlanHold, RunHold, ResultHold
<1> QED  BY <1>1, <1>2, <1>3

\* A Plan's state is queued and then marked.
LEMMA PublishPlanKeeps ==
    ASSUME StructInv, NEW w \in Publisher, PublishPlan(w)
    PROVE  StructInv' /\ Onward
<1> DEFINE j == holds[w].job
           order == holds[w].order
           b == [holds[w] EXCEPT !.stage = "mark"]
<1>1. /\ holds[w].kind = "plan" /\ UNCHANGED <<plan, run, outcome, works, task, decided, forgotten>>
      /\ IF Conflict(j, order) THEN jobs' = jobs /\ holds' = [holds EXCEPT ![w] = Nobody]
         ELSE QueueJob(j, order) /\ holds' = [holds EXCEPT ![w] = b]
  BY DEF PublishPlan, HoldsFact, Hold, Go, rows
<1>2. holds[w] \in PlanHold /\ StructTypeOK /\ Nobody \in HoldRec /\ HoldKnown(Nobody)
  BY <1>1, PublisherKnown
<1>3. j \in JobId /\ order \in Nat /\ j # <<"result">>
  <2>1. j \in {"plan"} \X {"event", "state"} \X (1..MaxVersion) /\ order \in Nat
    BY <1>2 DEF PlanHold
  <2> HIDE DEF j, order
  <2>2. PICK e \in {"event", "state"}, v \in 1..MaxVersion : j = <<"plan", e, v>>
    BY <2>1
  <2> QED  BY <2>1, <2>2, StructNames
<1>4. b \in PlanHold /\ b.job = j /\ b.order = order /\ b.kind = "plan" /\ b.stage = "mark"
  BY <1>2 DEF PlanHold
<1>5. CASE Conflict(j, order)
  BY <1>1, <1>2, <1>5, CopyMoves
<1>6. CASE ~Conflict(j, order)
  <2> HIDE DEF b, j, order
  <2>1. Queueing /\ jobs'[j].status # "none" /\ jobs'[j].order = order /\ \A i \in JobId : i # j => jobs'[i] = jobs[i]
    BY <1>1, <1>2, <1>3, <1>6, JobQueued DEF Conflict
  <2>2. PICK h \in HoldRec : h = b
    BY <1>4 DEF HoldRec
  <2>3. HoldKnown(h)'
    BY <1>4, <2>1, <2>2 DEF HoldKnown
  <2>4. OwnerStays
    BY <1>1 DEF OwnerStays
  <2>5. OutcomeKnown'
    <3>1. <<"result">> \in JobId /\ <<"run", "running">> \in JobId
      BY StructNames DEF RunStatus
    <3> QED  BY <1>1, <1>3, <2>1, <3>1 DEF StructInv, OutcomeKnown, Queueing
  <2> QED  BY <1>1, <1>2, <1>6, <2>1, <2>2, <2>3, <2>4, <2>5, PublisherMoves DEF StructTypeOK
<1> QED  BY <1>5, <1>6
\* A mark or a capsule is written; what the publisher goes on with was known.
LEMMA RowMoves ==
    ASSUME StructInv, NEW w \in Publisher, NEW h \in HoldRec, HoldKnown(h), OwnerStays, OutcomeKnown',
           holds' = [holds EXCEPT ![w] = h], UNCHANGED <<jobs, works, task, decided, forgotten>>,
           plan' \in [version : 0..MaxVersion, last : 0..MaxVersion, published : Nat],
           run' \in [status : {"none"} \cup RunStatus, published : Nat, delegated : BOOLEAN],
           outcome' \in [stored : BOOLEAN, owned : BOOLEAN, suppressed : BOOLEAN, published : BOOLEAN,
                         captured : BOOLEAN, capsule : BOOLEAN]
    PROVE  StructInv' /\ Onward
<1>1. StructTypeOK
  BY DEF StructInv
<1>2. Queueing
  BY <1>1, NoQueueing
<1>3. HoldKnown(h)'
  BY <1>1, <1>2, HoldOnward
<1> QED  BY <1>2, <1>3, PublisherMoves

\* A publisher queues a job; a result's job is for its owner.
LEMMA QueueMoves ==
    ASSUME StructInv, NEW w \in Publisher, NEW h \in HoldRec, HoldKnown(h),
           NEW j \in JobId, NEW order \in Nat, QueueJob(j, order),
           j = <<"result">> => outcome.stored /\ outcome.owned,
           UNCHANGED <<plan, run, outcome, works, task, decided, forgotten>>,
           NEW g \in HoldRec, holds' = [holds EXCEPT ![w] = g]
    PROVE  /\ jobs'[j].status # "none" /\ HoldKnown(h)'
           /\ HoldKnown(g)' => StructInv' /\ Onward
<1>1. StructTypeOK
  BY DEF StructInv
<1>2. Queueing /\ jobs'[j].status # "none" /\ \A i \in JobId : i # j => jobs'[i] = jobs[i]
  BY <1>1, JobQueued
<1>3. OwnerStays
  BY DEF OwnerStays
<1>4. OutcomeKnown'
  <2>1. <<"result">> \in JobId /\ <<"run", "running">> \in JobId
    BY StructNames DEF RunStatus
  <2> QED  BY <1>2, <2>1 DEF StructInv, OutcomeKnown, Queueing
<1>5. HoldKnown(h)'
  BY <1>1, <1>2, <1>3, HoldOnward
<1> QED  BY <1>1, <1>2, <1>3, <1>4, <1>5, PublisherMoves DEF StructTypeOK

\* The Plan's mark only moves up.
LEMMA MarkPlanKeeps ==
    ASSUME StructInv, NEW w \in Publisher, MarkPlan(w)
    PROVE  StructInv' /\ Onward
<1>1. /\ holds[w].kind = "plan" /\ holds' = [holds EXCEPT ![w] = Nobody]
      /\ plan' = [plan EXCEPT !.published =
                    IF plan.published < holds[w].order THEN holds[w].order ELSE plan.published]
      /\ UNCHANGED <<run, outcome, jobs, works, task, decided, forgotten>>
  BY DEF MarkPlan, HoldsFact, Hold
<1>2. holds[w] \in PlanHold /\ StructTypeOK /\ Nobody \in HoldRec /\ HoldKnown(Nobody)
  BY <1>1, PublisherKnown
<1>3. holds[w].order \in Nat
  BY <1>2 DEF PlanHold
<1>4. plan' \in [version : 0..MaxVersion, last : 0..MaxVersion, published : Nat]
  BY <1>1, <1>2, <1>3 DEF StructTypeOK
<1>5. OwnerStays /\ OutcomeKnown'
  BY <1>1 DEF OwnerStays, StructInv, OutcomeKnown
<1> QED  BY <1>1, <1>2, <1>4, <1>5, RowMoves DEF StructTypeOK

\* The published order of a Run that was marked before is that of a job.
LEMMA ReadPublishedKeeps ==
    ASSUME StructInv, NEW w \in Publisher, ReadPublished(w)
    PROVE  StructInv' /\ Onward
<1> DEFINE b == [holds[w] EXCEPT !.order = run.published,
                                 !.stage = IF run.published < 1 THEN "create" ELSE "target"]
<1>1. /\ holds[w].kind = "run" /\ holds' = [holds EXCEPT ![w] = b]
      /\ UNCHANGED <<plan, run, outcome, jobs, works, task, decided, forgotten>>
  BY DEF ReadPublished, HoldsFact, Hold, rows
<1>2. holds[w] \in RunHold /\ StructTypeOK
  BY <1>1, PublisherKnown
<1>3. run.published \in Nat
  BY <1>2 DEF StructTypeOK
<1>4. /\ b \in RunHold /\ b.kind = "run" /\ b.stage \in {"create", "target"}
      /\ b.stage = "target" => run.published >= 1
  <2> DEFINE t == IF run.published < 1 THEN "create" ELSE "target"
  <2>1. t \in {"create", "target"} /\ (t = "target" => run.published >= 1)
    BY <1>3
  <2>2. b = [holds[w] EXCEPT !.order = run.published, !.stage = t]
    OBVIOUS
  <2> HIDE DEF b, t
  <2> QED  BY <1>2, <1>3, <2>1, <2>2 DEF RunHold
<1> HIDE DEF b
<1>5. b \in HoldRec /\ HoldKnown(b)
  BY <1>4 DEF HoldRec, HoldKnown, StructInv, OutcomeKnown
<1> QED  BY <1>1, <1>5, CopyMoves

\* A Run is first published as running, whatever it is now.
LEMMA PublishCreateKeeps ==
    ASSUME StructInv, NEW w \in Publisher, PublishCreate(w)
    PROVE  StructInv' /\ Onward
<1> DEFINE b == [holds[w] EXCEPT !.stage = "markCreate"]
<1>1. /\ holds[w].kind = "run" /\ holds' = [holds EXCEPT ![w] = b]
      /\ QueueJob(<<"run", "running">>, 1)
      /\ UNCHANGED <<plan, run, outcome, works, task, decided, forgotten>>
  BY DEF PublishCreate, HoldsFact, Hold, Go, rows
<1>2. holds[w] \in RunHold /\ Nobody \in HoldRec /\ HoldKnown(Nobody)
  BY <1>1, PublisherKnown
<1>3. b \in RunHold /\ b.kind = "run"
  BY <1>2 DEF RunHold
<1>4. PICK g \in HoldRec : g = b
  BY <1>3 DEF HoldRec
<1>5. <<"run", "running">> \in JobId /\ <<"run", "running">> # <<"result">>
  BY StructNames DEF RunStatus
<1> HIDE DEF b
<1>6. jobs'[<<"run", "running">>].status # "none" /\ (HoldKnown(g)' => StructInv' /\ Onward)
  BY <1>1, <1>2, <1>4, <1>5, QueueMoves
<1>7. HoldKnown(g)'
  BY <1>3, <1>4, <1>6 DEF HoldKnown
<1> QED  BY <1>6, <1>7

\* A higher mark on a Run needs the job of its first state.
LEMMA MarkRunKeeps ==
    ASSUME StructInv, NEW w \in Publisher, MarkCreate(w) \/ MarkTarget(w)
    PROVE  StructInv' /\ Onward
<1> DEFINE b == [holds[w] EXCEPT !.order = 1, !.stage = "target"]
<1>1. PICK order \in Nat, h \in {Nobody, b} :
        /\ holds[w].kind = "run" /\ holds[w].stage \in {"markCreate", "markTarget"}
        /\ holds' = [holds EXCEPT ![w] = h]
        /\ run' = [run EXCEPT !.published = IF run.published < order THEN order ELSE run.published]
        /\ UNCHANGED <<plan, outcome, jobs, works, task, decided, forgotten>>
  <2>1. RunOrder(holds[w].status) \in Nat
    BY DEF RunOrder
  <2> QED  BY <2>1 DEF MarkCreate, MarkTarget, MarkRun, HoldsFact, Hold
<1>2. holds[w] \in RunHold /\ StructTypeOK /\ Nobody \in HoldRec /\ HoldKnown(Nobody) /\ HoldKnown(holds[w])
  BY <1>1, PublisherKnown
<1>3. jobs[<<"run", "running">>].status # "none"
  BY <1>1, <1>2 DEF HoldKnown
<1>4. run' \in [status : {"none"} \cup RunStatus, published : Nat, delegated : BOOLEAN]
  BY <1>1, <1>2 DEF StructTypeOK
<1>5. OwnerStays /\ OutcomeKnown'
  BY <1>1, <1>3 DEF OwnerStays, StructInv, OutcomeKnown
<1>6. h \in HoldRec /\ HoldKnown(h)
  <2>1. b \in RunHold /\ b.kind = "run" /\ b.stage = "target"
    BY <1>2 DEF RunHold
  <2> HIDE DEF b
  <2>2. b \in HoldRec /\ HoldKnown(b)
    BY <1>3, <2>1 DEF HoldRec, HoldKnown
  <2> QED  BY <1>1, <1>2, <2>2
<1> QED  BY <1>1, <1>2, <1>4, <1>5, <1>6, RowMoves DEF StructTypeOK

\* The present state of the Run, unless its mark is already that far.
LEMMA PublishTargetKeeps ==
    ASSUME StructInv, NEW w \in Publisher, PublishTarget(w)
    PROVE  StructInv' /\ Onward
<1> DEFINE b == [holds[w] EXCEPT !.stage = "markTarget"]
           s == holds[w].status
<1>1. /\ holds[w].kind = "run" /\ holds[w].stage = "target"
      /\ \/ jobs' = jobs /\ holds' = [holds EXCEPT ![w] = Nobody]
         \/ QueueJob(<<"run", s>>, EventOrder(s)) /\ holds' = [holds EXCEPT ![w] = b]
      /\ UNCHANGED <<plan, run, outcome, works, task, decided, forgotten>>
  BY DEF PublishTarget, HoldsFact, Hold, Go, rows
<1>2. holds[w] \in RunHold /\ Nobody \in HoldRec /\ HoldKnown(Nobody) /\ HoldKnown(holds[w])
  BY <1>1, PublisherKnown
<1>3. b \in RunHold /\ b.kind = "run" /\ b.stage = "markTarget"
  BY <1>2 DEF RunHold
<1>4. PICK g \in HoldRec : g = b
  BY <1>3 DEF HoldRec
<1>5. /\ s \in RunStatus /\ EventOrder(s) \in Nat
      /\ <<"run", s>> \in JobId /\ <<"run", s>> # <<"result">>
  BY <1>2, StructNames DEF RunHold, EventOrder
<1>6. HoldKnown(b)
  BY <1>1, <1>2, <1>3 DEF HoldKnown
<1> HIDE DEF b, s
<1>7. CASE jobs' = jobs /\ holds' = [holds EXCEPT ![w] = Nobody]
  BY <1>1, <1>2, <1>7, CopyMoves
<1>8. CASE QueueJob(<<"run", s>>, EventOrder(s)) /\ holds' = [holds EXCEPT ![w] = b]
  BY <1>1, <1>4, <1>5, <1>6, <1>8, QueueMoves
<1> QED  BY <1>1, <1>7, <1>8

\* A result of its owner is queued and then marked.
LEMMA PublishResultKeeps ==
    ASSUME StructInv, NEW w \in Publisher, PublishResult(w)
    PROVE  StructInv' /\ Onward
<1> DEFINE b == [holds[w] EXCEPT !.stage = "mark"]
<1>1. /\ holds[w].kind = "result" /\ holds[w].stage = "publish" /\ holds' = [holds EXCEPT ![w] = b]
      /\ QueueJob(<<"result">>, 1)
      /\ UNCHANGED <<plan, run, outcome, works, task, decided, forgotten>>
  BY DEF PublishResult, HoldsFact, Hold, Go, rows
<1>2. holds[w] \in ResultHold /\ holds[w] \in HoldRec /\ HoldKnown(holds[w]) /\ StructTypeOK
  BY <1>1, PublisherKnown
<1>3. outcome.stored /\ outcome.owned /\ ~outcome.suppressed
  BY <1>1, <1>2 DEF HoldKnown, StructTypeOK
<1>4. b \in ResultHold /\ b.kind = "result" /\ b.stage = "mark"
  BY <1>2 DEF ResultHold
<1>5. PICK g \in HoldRec : g = b
  BY <1>4 DEF HoldRec
<1>6. <<"result">> \in JobId
  BY StructNames
<1>7. Nobody \in HoldRec /\ HoldKnown(Nobody)
  BY PublisherKnown
<1> HIDE DEF b
<1>8. jobs'[<<"result">>].status # "none" /\ (HoldKnown(g)' => StructInv' /\ Onward)
  BY <1>1, <1>3, <1>5, <1>6, <1>7, QueueMoves
<1>9. HoldKnown(g)'
  BY <1>1, <1>3, <1>4, <1>5, <1>8 DEF HoldKnown
<1> QED  BY <1>8, <1>9

\* Marks and capsule of a result.
LEMMA ResultRowKeeps ==
    ASSUME StructInv, NEW w \in Publisher,
           MarkResult(w) \/ Capture(w) \/ MarkCapture(w) \/ SkipForeign(w)
    PROVE  StructInv' /\ Onward
<1> DEFINE c(stage) == [holds[w] EXCEPT !.stage = stage]
<1>1. /\ holds[w].kind = "result"
      /\ UNCHANGED <<plan, run, jobs, works, task, decided, forgotten>>
      /\ \/ /\ holds[w].stage = "mark" /\ outcome' = [outcome EXCEPT !.published = TRUE]
            /\ holds' = [holds EXCEPT ![w] = c("capture")]
         \/ /\ holds[w].stage = "capture" /\ outcome' = [outcome EXCEPT !.capsule = ~outcome.suppressed]
            /\ holds' = [holds EXCEPT ![w] = c("markCapture")]
         \/ /\ holds[w].stage = "markCapture" /\ outcome' = [outcome EXCEPT !.captured = TRUE]
            /\ holds' = [holds EXCEPT ![w] = Nobody]
         \/ /\ holds[w].stage = "foreign"
            /\ outcome' = [outcome EXCEPT !.published = TRUE, !.captured = TRUE]
            /\ holds' = [holds EXCEPT ![w] = Nobody]
  BY DEF MarkResult, Capture, MarkCapture, SkipForeign, HoldsFact, Hold, Go
<1>2. /\ holds[w] \in ResultHold /\ HoldKnown(holds[w]) /\ StructTypeOK
      /\ Nobody \in HoldRec /\ HoldKnown(Nobody)
  BY <1>1, PublisherKnown
<1>3. /\ outcome.stored /\ (holds[w].stage = "foreign" <=> ~outcome.owned)
      /\ holds[w].stage = "mark" => jobs[<<"result">>].status # "none"
  BY <1>1, <1>2 DEF HoldKnown
<1>4. /\ outcome' \in [stored : BOOLEAN, owned : BOOLEAN, suppressed : BOOLEAN, published : BOOLEAN,
                       captured : BOOLEAN, capsule : BOOLEAN]
      /\ outcome'.stored = outcome.stored /\ outcome'.owned = outcome.owned
      /\ outcome'.suppressed = outcome.suppressed
  BY <1>1, <1>2 DEF StructTypeOK
<1>5. OwnerStays
  BY <1>4 DEF OwnerStays
<1>6. OutcomeKnown'
  BY <1>1, <1>2, <1>3, <1>4 DEF StructInv, OutcomeKnown, StructTypeOK
<1>7. \A stage \in {"capture", "markCapture"} :
        holds[w].stage # "foreign" => c(stage) \in HoldRec /\ HoldKnown(c(stage))
  <2>1. ASSUME NEW stage \in {"capture", "markCapture"}, holds[w].stage # "foreign"
        PROVE  c(stage) \in HoldRec /\ HoldKnown(c(stage))
    <3>1. c(stage) \in ResultHold /\ c(stage).kind = "result" /\ c(stage).stage = stage
      BY <1>2 DEF ResultHold
    <3> HIDE DEF c
    <3> QED  BY <1>3, <2>1, <3>1 DEF HoldRec, HoldKnown
  <2> QED  BY <2>1
<1> HIDE DEF c
<1> QED  BY <1>1, <1>2, <1>4, <1>5, <1>6, <1>7, RowMoves DEF StructTypeOK

\* The process stops and its copy is gone.
LEMMA PublisherStopsKeeps ==
    ASSUME StructInv, NEW w \in Publisher, PublisherStops(w)
    PROVE  StructInv' /\ Onward
<1>1. /\ holds' = [holds EXCEPT ![w] = Nobody]
      /\ UNCHANGED <<plan, run, outcome, jobs, works, task, decided, forgotten>>
  BY DEF PublisherStops, Hold, rows
<1> QED  BY <1>1, PublisherKnown, CopyMoves
-----------------------------------------------------------------------------
(* Workers.                                                                *)

\* Workers move jobs between states and leave rows and publishers alone.
Working ==
    /\ jobs' \in [JobId -> RowJob]
    /\ \A j \in JobId : /\ jobs'[j].order = jobs[j].order
                        /\ jobs'[j].status = "none" <=> jobs[j].status = "none"
    /\ UNCHANGED <<plan, run, outcome, holds>>

\* When the memory moves on, rows and publishers still know what they did.
LEMMA MemoryMoves ==
    ASSUME StructInv, Working, StructTypeOK', Onward, DecisionsKnown', DoneJobIsRemembered',
           \A i \in FormationWorker : works'[i] = works[i] \/ WorkKnown(works[i])'
    PROVE  StructInv'
<1>1. /\ StructTypeOK /\ <<"result">> \in JobId /\ <<"run", "running">> \in JobId
  BY StructNames DEF StructInv, RunStatus
<1>2. OutcomeKnown'
  BY <1>1 DEF StructInv, OutcomeKnown, Working
<1>3. ASSUME NEW p \in Publisher PROVE HoldKnown(holds[p])'
  <2>1. PICK h \in HoldRec : h = holds[p]
    BY <1>1 DEF StructTypeOK, HoldRec
  <2>2. HoldKnown(h) /\ h = holds'[p]
    BY <2>1 DEF StructInv, Working
  <2>3. HoldKnown(h)'
    <3>1. h.kind = "plan" => h.job \in JobId
      BY <2>1, StructNames DEF HoldRec, PlanHold, RunHold, ResultHold, JobId
    <3> QED  BY <1>1, <2>2, <3>1 DEF HoldKnown, Working
  <2> QED  BY <2>2, <2>3
<1>4. ASSUME NEW k \in FormationWorker PROVE WorkKnown(works[k])'
  <2>1. CASE WorkKnown(works[k])'
    BY <2>1
  <2>2. CASE works'[k] = works[k]
    <3>1. PICK v \in {NoWork} \cup Work : v = works[k]
      BY <1>1 DEF StructTypeOK
    <3>2. WorkKnown(v)' /\ v = works'[k]
      BY <1>1, <2>2, <3>1, KnownOnward DEF StructInv
    <3> QED  BY <3>2
  <2> QED  BY <2>1, <2>2
<1> QED  BY <1>2, <1>3, <1>4 DEF StructInv

\* A worker moves on to w; the memory stays as it is.
LEMMA WorkerMoves ==
    ASSUME StructInv, Working, UNCHANGED <<task, decided, forgotten>>,
           \A j \in JobId : jobs'[j].status = "done" => jobs[j].status = "done" \/ Remembered(j),
           NEW w \in {NoWork} \cup Work, WorkKnown(w),
           works' \in [FormationWorker -> {NoWork} \cup Work],
           \A i \in FormationWorker : works'[i] = works[i] \/ works'[i] = w
    PROVE  StructInv' /\ Onward
<1>1. StructTypeOK /\ StructTypeOK'
  BY DEF StructInv, StructTypeOK, Working
<1>2. Onward
  BY <1>1, StructNames DEF StructTypeOK, Working, Onward
<1>3. DecisionsKnown'
  <2>1. \A d \in decided : d[2] \in JobId
    BY <1>1 DEF StructTypeOK, TaskRev
  <2> QED  BY <2>1 DEF StructInv, DecisionsKnown, Working, Remembered
<1>4. DoneJobIsRemembered'
  BY DEF StructInv, DoneJobIsRemembered, Working, Remembered
<1>5. WorkKnown(w)'
  BY <1>1, <1>2, KnownOnward
<1>6. ASSUME NEW i \in FormationWorker PROVE works'[i] = works[i] \/ WorkKnown(works[i])'
  BY <1>5
<1> QED  BY <1>1, <1>2, <1>3, <1>4, <1>6, MemoryMoves

\* What is known of a worker that is not idle.
LEMMA WorkerKnown ==
    ASSUME StructInv, NEW k \in FormationWorker, works[k].stage # "idle"
    PROVE  /\ works[k] \in Work /\ works[k] # NoWork /\ WorkKnown(works[k]) /\ StructTypeOK
           /\ JobOf(k) \in JobId /\ jobs[JobOf(k)].status # "none" /\ jobs[JobOf(k)] \in RowJob
<1>1. works[k] \in Work /\ works[k] # NoWork /\ WorkKnown(works[k]) /\ StructTypeOK
  BY StructNames DEF StructInv, StructTypeOK
<1>2. JobOf(k) \in JobId
  BY <1>1 DEF Work, JobOf
<1> QED  BY <1>1, <1>2 DEF WorkKnown, StructTypeOK, JobOf

\* Jobs that are left alone, or one whose lease ends or that has been finished.
LEMMA JobsStay == ASSUME StructTypeOK, UNCHANGED <<plan, run, outcome, holds, jobs>> PROVE Working
BY DEF StructTypeOK, Working

\* Or one of them.
LEMMA JobMoves ==
    ASSUME StructTypeOK, UNCHANGED <<plan, run, outcome, holds>>, NEW j \in JobId, jobs[j].status # "none",
           NEW b \in RowJob, b.order = jobs[j].order, b.status # "none", jobs' = [jobs EXCEPT ![j] = b]
    PROVE  Working /\ (b.status # "done" => \A i \in JobId : jobs'[i].status = "done" => jobs[i].status = "done")
BY DEF StructTypeOK, Working

\* A job that is given back keeps its order.
LEMMA RetryMoves ==
    ASSUME StructTypeOK, UNCHANGED <<plan, run, outcome, holds>>, NEW j \in JobId, jobs[j].status # "none",
           jobs' = Retry(j)
    PROVE  Working /\ \A i \in JobId : jobs'[i].status = "done" => jobs[i].status = "done"
<1> DEFINE b == [jobs[j] EXCEPT !.status = IF jobs[j].attempts < StructAttempts THEN "queued" ELSE "dead"]
<1>1. jobs' = [jobs EXCEPT ![j] = b]
  BY DEF Retry
<1>2. b \in RowJob /\ b.order = jobs[j].order /\ b.status \in {"queued", "dead"}
  BY DEF StructTypeOK, RowJob
<1> HIDE DEF b
<1> QED  BY <1>1, <1>2, JobMoves

\* A worker takes a queued job.
LEMMA TakeJobKeeps ==
    ASSUME StructInv, NEW k \in FormationWorker, NEW j \in JobId, TakeJob(k, j)
    PROVE  StructInv' /\ Onward
<1> DEFINE b == [jobs[j] EXCEPT !.status = "running", !.attempts = jobs[j].attempts + 1]
           w == [stage |-> "evaluate", job |-> j, token |-> jobs[j].attempts + 1,
                 op |-> "none", rev |-> NoTask.rev]
<1>1. /\ jobs[j].status = "queued" /\ works' = [works EXCEPT ![k] = w]
      /\ UNCHANGED <<plan, run, outcome, holds, task, decided, forgotten>>
  BY DEF TakeJob, rows
<1>2. jobs' = [jobs EXCEPT ![j] = b]
  BY DEF TakeJob
<1>3. StructTypeOK /\ jobs[j] \in RowJob /\ jobs[j].attempts \in Nat
  BY DEF StructInv, StructTypeOK, RowJob
<1>4. b \in RowJob /\ b.order = jobs[j].order /\ b.status = "running"
  <2>1. PICK n \in Nat : n = jobs[j].attempts + 1
    BY <1>3
  <2>2. b = [jobs[j] EXCEPT !.status = "running", !.attempts = n]
    BY <2>1
  <2> HIDE DEF b
  <2> QED  BY <1>3, <2>2 DEF RowJob
<1>5. w \in Work /\ w.stage = "evaluate" /\ w.job = j
  BY <1>3 DEF Work
<1> HIDE DEF b, w
<1>6. Working /\ \A i \in JobId : jobs'[i].status = "done" => jobs[i].status = "done"
  BY <1>1, <1>2, <1>3, <1>4, JobMoves
<1>7. WorkKnown(w)
  BY <1>1, <1>5 DEF WorkKnown
<1>8. PICK u \in {NoWork} \cup Work : u = w
  BY <1>5
<1>9. /\ works' \in [FormationWorker -> {NoWork} \cup Work]
      /\ \A i \in FormationWorker : works'[i] = works[i] \/ works'[i] = u
  BY <1>1, <1>3, <1>8 DEF StructTypeOK
<1> QED  BY <1>1, <1>6, <1>7, <1>8, <1>9, WorkerMoves

\* A decision names the revision that was read.
LEMMA EvaluateKeeps ==
    ASSUME StructInv, NEW k \in FormationWorker, EvaluateCandidate(k)
    PROVE  StructInv' /\ Onward
<1> DEFINE op == IF task = NoTask THEN "add" ELSE IF task.rev[2] = JobOf(k) THEN "noop" ELSE "update"
           w == [works[k] EXCEPT !.stage = "check", !.op = op, !.rev = task.rev]
<1>1. /\ works[k].stage = "evaluate" /\ works' = [works EXCEPT ![k] = w]
      /\ UNCHANGED <<plan, run, outcome, holds, jobs, task, decided, forgotten>>
  BY DEF EvaluateCandidate, Doing, rows
<1>2. /\ works[k] \in Work /\ StructTypeOK /\ JobOf(k) \in JobId /\ jobs[JobOf(k)].status # "none"
      /\ JobOf(k) = works[k].job
  BY <1>1, WorkerKnown DEF JobOf
<1>3. task.rev \in {NoTask.rev} \cup TaskRev
  BY <1>2 DEF StructTypeOK
<1>4. op \in {"add", "noop", "update"}
  OBVIOUS
<1>5. op = "update" => task.rev \in decided
  BY DEF StructInv, DecisionsKnown
<1>6. op = "noop" => Remembered(JobOf(k))
  <2>1. op = "noop" => task # NoTask /\ task.rev[2] = JobOf(k)
    OBVIOUS
  <2> QED  BY <2>1 DEF StructInv, DecisionsKnown
<1> HIDE DEF op
<1>7. w \in Work /\ w.stage = "check" /\ w.job = JobOf(k) /\ w.op = op /\ w.rev = task.rev
  BY <1>2, <1>3, <1>4 DEF Work
<1> HIDE DEF w
<1>8. WorkKnown(w)
  BY <1>2, <1>4, <1>5, <1>6, <1>7 DEF WorkKnown
<1>9. PICK u \in {NoWork} \cup Work : u = w
  BY <1>7
<1>10. /\ works' \in [FormationWorker -> {NoWork} \cup Work]
       /\ \A i \in FormationWorker : works'[i] = works[i] \/ works'[i] = u
  BY <1>1, <1>2, <1>9 DEF StructTypeOK
<1>11. Working
  BY <1>1, <1>2, JobsStay
<1> QED  BY <1>1, <1>8, <1>9, <1>10, <1>11, WorkerMoves

\* A change that is not newer than the memory is dropped.
LEMMA SuppressKeeps ==
    ASSUME StructInv, NEW k \in FormationWorker, SuppressStale(k)
    PROVE  StructInv' /\ Onward
<1> DEFINE op == IF task # NoTask /\ jobs[JobOf(k)].order <= task.order THEN "noop" ELSE works[k].op
           w == [works[k] EXCEPT !.stage = "apply", !.op = op]
<1>1. /\ works[k].stage = "check" /\ works' = [works EXCEPT ![k] = w]
      /\ UNCHANGED <<plan, run, outcome, holds, jobs, task, decided, forgotten>>
  BY DEF SuppressStale, Doing, rows
<1>2. /\ works[k] \in Work /\ works[k] # NoWork /\ WorkKnown(works[k]) /\ StructTypeOK
      /\ JobOf(k) \in JobId /\ jobs[JobOf(k)].status # "none" /\ jobs[JobOf(k)] \in RowJob
      /\ JobOf(k) = works[k].job
  BY <1>1, WorkerKnown DEF JobOf
<1>3. op \in {"none", "add", "noop", "update"} /\ jobs[JobOf(k)].order \in Nat /\ task.order \in Nat
  BY <1>2, StructNames DEF Work, RowJob, StructTypeOK
<1>4. op # "none" /\ (op = "update" => works[k].op = "update" /\ works[k].rev \in decided)
  BY <1>1, <1>2 DEF WorkKnown
<1>5. op = "noop" => Remembered(JobOf(k))
  BY <1>1, <1>2 DEF WorkKnown, Remembered
<1>6. op = "update" /\ task.rev = works[k].rev => task.order < jobs[JobOf(k)].order
  <2>1. decided \subseteq TaskRev
    BY <1>2 DEF StructTypeOK
  <2>2. op = "update" /\ task.rev = works[k].rev => task # NoTask
    BY <1>4, <2>1, StructNames
  <2> QED  BY <1>3, <2>2
<1> HIDE DEF op
<1>7. w \in Work /\ w.stage = "apply" /\ w.job = JobOf(k) /\ w.op = op /\ w.rev = works[k].rev
  BY <1>2, <1>3 DEF Work
<1> HIDE DEF w
<1>8. WorkKnown(w)
  BY <1>2, <1>4, <1>5, <1>6, <1>7 DEF WorkKnown
<1>9. PICK u \in {NoWork} \cup Work : u = w
  BY <1>7
<1>10. /\ works' \in [FormationWorker -> {NoWork} \cup Work]
       /\ \A i \in FormationWorker : works'[i] = works[i] \/ works'[i] = u
  BY <1>1, <1>2, <1>9 DEF StructTypeOK
<1>11. Working
  BY <1>1, <1>2, JobsStay
<1> QED  BY <1>1, <1>8, <1>9, <1>10, <1>11, WorkerMoves
\* A change is applied to the revision it was decided on, or it was before.
LEMMA ApplyKeeps ==
    ASSUME StructInv, NEW k \in FormationWorker, ApplyDecision(k)
    PROVE  StructInv' /\ Onward
<1> DEFINE d == Decision(k)
           order == jobs[JobOf(k)].order
           w == [works[k] EXCEPT !.stage = "complete"]
<1>1. /\ works[k].stage = "apply" /\ works' = [works EXCEPT ![k] = w]
      /\ UNCHANGED <<plan, run, outcome, holds, jobs, forgotten>>
      /\ Replayed(k) \/ Accepted(k)
      /\ task' = IF Accepted(k) THEN [order |-> order, rev |-> d] ELSE task
      /\ decided' = IF Accepted(k) THEN decided \cup {d} ELSE decided
  BY DEF ApplyDecision, Doing, Step, rows
<1>2. /\ works[k] \in Work /\ works[k] # NoWork /\ WorkKnown(works[k]) /\ StructTypeOK
      /\ JobOf(k) \in JobId /\ jobs[JobOf(k)].status # "none" /\ jobs[JobOf(k)] \in RowJob
      /\ JobOf(k) = works[k].job
  BY <1>1, WorkerKnown DEF JobOf
<1>3. /\ order \in Nat /\ task.order \in Nat /\ works[k].op \in {"add", "update", "noop"}
      /\ d[1] = works[k].op /\ d[2] = JobOf(k) /\ d = <<works[k].op, JobOf(k)>>
  BY <1>1, <1>2, StructNames DEF Work, RowJob, StructTypeOK, WorkKnown, Decision
<1>4. w \in Work /\ w.stage = "complete" /\ w.job = JobOf(k)
  BY <1>2 DEF Work
<1>5. PICK u \in {NoWork} \cup Work : u = w
  BY <1>4
<1>6. /\ works' \in [FormationWorker -> {NoWork} \cup Work]
      /\ \A i \in FormationWorker : works'[i] = works[i] \/ works'[i] = u
  BY <1>1, <1>2, <1>5 DEF StructTypeOK
<1>7. Working
  BY <1>1, <1>2, JobsStay
<1> HIDE DEF d, w
<1>8. CASE ~Accepted(k)
  <2>1. Remembered(JobOf(k))
    <3>1. CASE works[k].op = "noop"
      BY <1>1, <1>2, <3>1 DEF WorkKnown
    <3>2. CASE d \in decided
      BY <1>3, <3>2 DEF StructInv, DecisionsKnown
    <3> QED  BY <1>1, <1>8, <3>1, <3>2 DEF Replayed, d
  <2>2. WorkKnown(u)
    BY <1>2, <1>4, <1>5, <2>1 DEF WorkKnown
  <2> QED  BY <1>1, <1>6, <1>7, <1>8, <2>2, WorkerMoves
<1>9. CASE Accepted(k)
  <2>1. /\ works[k].op # "noop" /\ d \notin decided
        /\ task' = [order |-> order, rev |-> d] /\ decided' = decided \cup {d}
        /\ task = NoTask \/ (works[k].op = "update" /\ task.rev = works[k].rev)
    BY <1>1, <1>3, <1>9 DEF Accepted, Replayed, d
  <2>2. d \in TaskRev
    BY <1>2, <1>3, <2>1 DEF TaskRev
  <2>3. task'.order = order /\ task'.rev = d /\ task' \in [order : Nat, rev : TaskRev]
    BY <1>3, <2>1, <2>2
  <2>4. StructTypeOK'
    BY <1>1, <1>2, <1>6, <1>7, <2>1, <2>2, <2>3 DEF StructTypeOK, Working
  <2>5. task.order <= order
    <3>1. CASE task = NoTask
      BY <1>3, <3>1, StructNames
    <3>2. CASE works[k].op = "update" /\ task.rev = works[k].rev
      BY <1>1, <1>2, <1>3, <3>2 DEF WorkKnown
    <3> QED  BY <2>1, <3>1, <3>2
  <2>6. Onward
    BY <1>1, <2>1, <2>3, <2>5 DEF Onward
  <2>7. Remembered(JobOf(k))'
    <3>1. PICK j \in JobId : j = JobOf(k)
      BY <1>2
    <3>2. jobs'[j].order <= task'.order
      BY <1>1, <1>3, <2>3, <3>1
    <3>3. JobOf(k)' = j
      BY <1>4, <1>6, <3>1, <1>2, <1>1 DEF JobOf, StructTypeOK
    <3> QED  BY <3>2, <3>3 DEF Remembered
  <2>8. ASSUME NEW j \in JobId, jobs[j].status # "none", Remembered(j) PROVE Remembered(j)'
    BY <1>2, <2>4, <2>6, <2>8, KnownOnward
  <2>9. \A j \in JobId : j = JobOf(k) => Remembered(j)'
    <3>1. ASSUME NEW j \in JobId, j = JobOf(k) PROVE Remembered(j)'
      <4>1. jobs'[j].order <= task'.order
        BY <1>1, <1>3, <2>3, <3>1
      <4> QED  BY <4>1 DEF Remembered
    <3> QED  BY <3>1
  <2>10. DecisionsKnown'
    <3>1. ASSUME NEW e \in decided \cup {d} PROVE jobs'[e[2]].status # "none" /\ Remembered(e[2])'
      <4>1. CASE e = d
        <5>1. PICK j \in JobId : j = e[2]
          BY <1>2, <1>3, <4>1
        <5>2. Remembered(j)'
          BY <1>3, <2>9, <4>1, <5>1
        <5> QED  BY <1>1, <1>2, <1>3, <4>1, <5>1, <5>2
      <4>2. CASE e \in decided
        <5>1. PICK j \in JobId : j = e[2]
          BY <1>2, <4>2 DEF StructTypeOK, TaskRev
        <5>2. jobs[j].status # "none" /\ Remembered(j)
          BY <4>2, <5>1 DEF StructInv, DecisionsKnown
        <5> QED  BY <1>1, <2>8, <5>1, <5>2
      <4> QED  BY <3>1, <4>1, <4>2
    <3>2. task'.rev \in decided'
      BY <2>1, <2>3
    <3> QED  BY <2>1, <3>1, <3>2 DEF DecisionsKnown
  <2>11. DoneJobIsRemembered'
    BY <1>1, <1>2, <1>3, <2>3, <2>5 DEF StructInv, DoneJobIsRemembered, StructTypeOK, RowJob
  <2>12. WorkKnown(u)'
    <3>1. u # NoWork /\ u \in Work /\ u.stage = "complete" /\ u.job = JobOf(k)
      BY <1>4, <1>5, StructNames
    <3>2. PICK j \in JobId : j = u.job
      BY <1>2, <3>1
    <3>3. Remembered(j)'
      BY <2>9, <3>1, <3>2
    <3> QED  BY <1>1, <1>2, <3>1, <3>2, <3>3 DEF WorkKnown
  <2>13. ASSUME NEW i \in FormationWorker PROVE works'[i] = works[i] \/ WorkKnown(works[i])'
    BY <1>6, <2>12
  <2> QED  BY <1>7, <2>4, <2>6, <2>10, <2>11, <2>13, MemoryMoves
<1> QED  BY <1>8, <1>9

\* A refused change gives the job back, if it is still the worker's.
LEMMA ApplyFailsKeeps ==
    ASSUME StructInv, NEW k \in FormationWorker, ApplyFails(k)
    PROVE  StructInv' /\ Onward
<1>1. /\ works[k].stage = "apply" /\ works' = [works EXCEPT ![k] = NoWork]
      /\ jobs' = jobs \/ jobs' = Retry(JobOf(k))
      /\ UNCHANGED <<plan, run, outcome, holds, task, decided, forgotten>>
  BY DEF ApplyFails, Doing, rows
<1>2. StructTypeOK /\ JobOf(k) \in JobId /\ jobs[JobOf(k)].status # "none"
  BY <1>1, WorkerKnown
<1>3. Working /\ \A j \in JobId : jobs'[j].status = "done" => jobs[j].status = "done"
  BY <1>1, <1>2, JobsStay, RetryMoves
<1>4. WorkKnown(NoWork)
  BY DEF WorkKnown
<1>5. /\ works' \in [FormationWorker -> {NoWork} \cup Work]
      /\ \A i \in FormationWorker : works'[i] = works[i] \/ works'[i] = NoWork
  BY <1>1, <1>2 DEF StructTypeOK
<1> QED  BY <1>1, <1>3, <1>4, <1>5, WorkerMoves

\* A worker finishes what it has applied or dropped.
LEMMA FinishKeeps ==
    ASSUME StructInv, NEW k \in FormationWorker, FinishJob(k)
    PROVE  StructInv' /\ Onward
<1> DEFINE b == [jobs[JobOf(k)] EXCEPT !.status = "done"]
<1>1. /\ works[k].stage = "complete" /\ works' = [works EXCEPT ![k] = NoWork]
      /\ jobs' = jobs \/ jobs' = [jobs EXCEPT ![JobOf(k)] = b]
      /\ UNCHANGED <<plan, run, outcome, holds, task, decided, forgotten>>
  BY DEF FinishJob, Doing, rows
<1>2. /\ StructTypeOK /\ JobOf(k) \in JobId /\ jobs[JobOf(k)].status # "none" /\ jobs[JobOf(k)] \in RowJob
      /\ Remembered(JobOf(k))
  BY <1>1, WorkerKnown DEF WorkKnown, JobOf
<1>3. b \in RowJob /\ b.order = jobs[JobOf(k)].order /\ b.status = "done"
  BY <1>2 DEF RowJob
<1> HIDE DEF b
<1>4. Working
  BY <1>1, <1>2, <1>3, JobsStay, JobMoves
<1>5. \A j \in JobId : jobs'[j].status = "done" => jobs[j].status = "done" \/ Remembered(j)
  BY <1>1, <1>2 DEF StructTypeOK
<1>6. WorkKnown(NoWork)
  BY DEF WorkKnown
<1>7. /\ works' \in [FormationWorker -> {NoWork} \cup Work]
      /\ \A i \in FormationWorker : works'[i] = works[i] \/ works'[i] = NoWork
  BY <1>1, <1>2 DEF StructTypeOK
<1> QED  BY <1>1, <1>4, <1>5, <1>6, <1>7, WorkerMoves

\* A lease ends, or a worker without one stops.
LEMMA LeaseKeeps ==
    ASSUME StructInv, \/ \E j \in JobId : JobLeaseEnds(j)
                      \/ \E k \in FormationWorker : WorkerStops(k)
    PROVE  StructInv' /\ Onward
<1>1. StructTypeOK
  BY DEF StructInv
<1>2. UNCHANGED <<plan, run, outcome, holds, task, decided, forgotten>>
  BY DEF JobLeaseEnds, WorkerStops, rows
<1>3. Working /\ \A j \in JobId : jobs'[j].status = "done" => jobs[j].status = "done"
  <2>1. ASSUME NEW j \in JobId, JobLeaseEnds(j)
        PROVE  Working /\ \A i \in JobId : jobs'[i].status = "done" => jobs[i].status = "done"
    <3>1. jobs[j].status # "none" /\ jobs' = Retry(j)
      BY <2>1 DEF JobLeaseEnds
    <3> QED  BY <1>1, <1>2, <3>1, RetryMoves
  <2>2. ASSUME NEW k \in FormationWorker, WorkerStops(k)
        PROVE  Working /\ \A i \in JobId : jobs'[i].status = "done" => jobs[i].status = "done"
    <3>1. jobs' = jobs
      BY <2>2 DEF WorkerStops
    <3> QED  BY <1>1, <1>2, <3>1, JobsStay
  <2> QED  BY <2>1, <2>2
<1>4. WorkKnown(NoWork)
  BY DEF WorkKnown
<1>5. /\ works' \in [FormationWorker -> {NoWork} \cup Work]
      /\ \A i \in FormationWorker : works'[i] = works[i] \/ works'[i] = NoWork
  BY <1>1 DEF StructTypeOK, JobLeaseEnds, WorkerStops
<1> QED  BY <1>2, <1>3, <1>4, <1>5, WorkerMoves

\* The memory is deleted.
LEMMA ForgetTaskKeeps == ASSUME StructInv, ForgetTask PROVE StructInv' /\ Onward
<1>1. /\ task' = NoTask /\ forgotten' = TRUE
      /\ UNCHANGED <<plan, run, outcome, holds, jobs, works, decided>>
  BY DEF ForgetTask, rows
<1>2. StructTypeOK /\ StructTypeOK'
  BY <1>1 DEF StructInv, StructTypeOK
<1>3. Onward
  BY <1>1, <1>2, StructNames DEF Onward, StructTypeOK
<1>4. Working
  BY <1>1, <1>2, JobsStay
<1>5. DecisionsKnown' /\ DoneJobIsRemembered'
  BY <1>1 DEF StructInv, DecisionsKnown, DoneJobIsRemembered, Remembered
<1>6. \A i \in FormationWorker : works'[i] = works[i] \/ WorkKnown(works[i])'
  BY <1>1
<1> QED  BY <1>2, <1>3, <1>4, <1>5, <1>6, MemoryMoves

-----------------------------------------------------------------------------
StructSpec == StructInit /\ [][StructNext]_structVars

\* Every step of writers, reconciler, publishers and workers.
LEMMA StructStep == ASSUME StructInv, StructNext PROVE StructInv' /\ Onward
<1>1. ASSUME NEW w \in Writer,
             \/ \E named \in BOOLEAN : SavePlan(w, named)
             \/ AddRun(w) \/ UpdateRun(w) \/ AddResult(w)
      PROVE  StructInv' /\ Onward
  BY <1>1, PlanChangeKeeps, RunChangeKeeps, AddResultKeeps
<1>2. CASE SaveSuppressed \/ SaveByRun \/ Reconcile
  BY <1>2, PlanChangeKeeps, ReconcileKeeps
<1>3. ASSUME NEW w \in Publisher, PublisherStep(w) \/ PublisherStops(w)
      PROVE  StructInv' /\ Onward
  BY <1>3, PublishPlanKeeps, MarkPlanKeeps, ReadPublishedKeeps, PublishCreateKeeps, MarkRunKeeps,
     PublishTargetKeeps, PublishResultKeeps, ResultRowKeeps, PublisherStopsKeeps DEF PublisherStep
<1>4. ASSUME NEW k \in FormationWorker, FormationStep(k) \/ \E j \in JobId : TakeJob(k, j)
      PROVE  StructInv' /\ Onward
  BY <1>4, EvaluateKeeps, SuppressKeeps, ApplyKeeps, ApplyFailsKeeps, FinishKeeps, TakeJobKeeps
     DEF FormationStep
<1> QED  BY <1>1, <1>2, <1>3, <1>4, LeaseKeeps, ForgetTaskKeeps DEF StructNext

\* A step that changes nothing of this.
LEMMA StructStutter == ASSUME StructInv, UNCHANGED structVars PROVE StructInv'
BY DEF structVars, StructInv, StructTypeOK, OutcomeKnown, DecisionsKnown, DoneJobIsRemembered, HoldKnown,
       WorkKnown, Remembered

\* What writers, reconciler, publishers and workers keep between them.
THEOREM StructuredInvariant == StructSpec => []StructInv
<1>1. StructInv /\ [StructNext]_structVars => StructInv'
  BY StructStep, StructStutter
<1> QED  BY StructStart, <1>1, PTL DEF StructSpec

\* A published state has its job, a result of another owner none and no
\* capsule; once a job is done the memory shows its state or a later one: no
\* order of publication and formation, no crash and no lost lease loses a state.
THEOREM FormedMemoryIsKept == StructSpec => []StructuredKept
<1>1. StructInv => StructuredKept
  <2> SUFFICES ASSUME StructInv PROVE StructuredKept
    OBVIOUS
  <2>1. ASSUME NEW w \in Publisher, HoldsFact(w, "plan", "mark")
        PROVE  \E j \in JobId : jobs[j].status # "none" /\ jobs[j].order = holds[w].order
    <3>1. holds[w].kind = "plan" /\ holds[w].stage = "mark"
      BY <2>1 DEF HoldsFact
    <3>2. holds[w] \in PlanHold /\ HoldKnown(holds[w])
      BY <3>1, PublisherKnown
    <3>3. holds[w].job \in JobId
      BY <3>2 DEF PlanHold, JobId
    <3> QED  BY <3>1, <3>2, <3>3 DEF HoldKnown
  <2>2. ~outcome.owned \/ outcome.suppressed => ~outcome.capsule
    BY DEF StructInv, OutcomeKnown
  <2>3. outcome.published => (outcome.owned <=> jobs[<<"result">>].status # "none")
    BY DEF StructInv, OutcomeKnown
  <2>4. run.published >= 1 => jobs[<<"run", "running">>].status # "none"
    BY DEF StructInv, OutcomeKnown
  <2>5. DoneJobIsRemembered
    BY DEF StructInv
  <2> QED  BY <2>1, <2>2, <2>3, <2>4, <2>5 DEF StructuredKept, MarkedMeansQueued
<1> QED  BY <1>1, StructuredInvariant, PTL

\* Jobs run in any order and more than once: the memory of a Plan or a Run
\* never shows an earlier state than it did while it exists.
THEOREM FormedMemoryGoesOn == StructSpec => TaskNeverRewinds
<1>1. StructInv /\ [StructNext]_structVars =>
        [task # NoTask /\ task' # NoTask => task.order <= task'.order]_structVars
  BY StructStep DEF Onward
<1> QED  BY <1>1, StructuredInvariant, PTL DEF StructSpec, TaskNeverRewinds

=============================================================================
