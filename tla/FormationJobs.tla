--------------------------- MODULE FormationJobs ---------------------------
(***************************************************************************)
(* Memory Formation's queue (memory_formation_turns,                       *)
(* memory_formation_jobs): captured Turns collect per session until a      *)
(* window is full or the session is idle, are then frozen into a job, and  *)
(* workers claim the job under a lease, process it, and complete it, retry *)
(* it or leave it as a dead letter.                                        *)
(*                                                                         *)
(* Capturing a Turn and creating a job hold the session's advisory lock:   *)
(* each is one action.  A worker reads the clock before it ends a job, so  *)
(* its own lease may run out, and be taken over, in between.               *)
(***************************************************************************)
EXTENDS Integers, FiniteSets

CONSTANTS
  Captures,     \* Turns that can be captured
  Sessions,
  SessionOf,    \* Turn -> session
  Order,        \* Turn -> place in the order (completed_at, turn_id)
  WindowTurns,  \* memory_formation_window_turns
  Jobs,         \* job ids
  Structured,   \* job ids of the structured-event jobs, a digest of their key
  JobWorkers,
  JobAttempts,  \* memory_formation_max_attempts
  MaxFaults,    \* bound: workers that die, or whose lease expires, at work
  None

ASSUME FormationConstants ==
  /\ SessionOf \in [Captures -> Sessions]
  /\ Order \in [Captures -> Nat]
  /\ \A t, u \in Captures : Order[t] = Order[u] => t = u
  /\ WindowTurns \in Nat \ {0}
  /\ Structured \subseteq Jobs
  /\ JobAttempts \in Nat \ {0}
  /\ MaxFaults \in Nat
  /\ None \notin Jobs

VARIABLES
  capture,     \* memory_formation_turns
  job,         \* memory_formation_jobs
  idle,        \* session -> idle_deadline_at <= now, for its pending Turns
  worker,      \* what each worker is doing, None between two run_once calls
  faults

jobVars == <<capture, job, idle, worker, faults>>

JobSettled == {"completed", "dead_letter"}

CaptureRow == [status : {"absent", "pending", "claimed", "formed"}, job : Jobs \cup {None}]

JobRow ==
  [status   : {"absent", "pending", "claimed", "retry"} \cup JobSettled,
   refs     : SUBSET Captures,
   attempts : Nat,        \* also numbers the claims: a claim increments it
   due      : BOOLEAN,    \* next_attempt_at <= now
   expired  : BOOLEAN]    \* lease_expires_at <= now

WorkerRow ==
  [stage : {"claimed", "processed", "completing", "failed", "failing"},
   job   : Jobs,
   token : Nat,
   live  : BOOLEAN]       \* the lease had not expired when the clock was read

JobsTypeOK ==
  /\ capture \in [Captures -> CaptureRow]
  /\ job \in [Jobs -> JobRow]
  /\ idle \in [Sessions -> BOOLEAN]
  /\ worker \in [JobWorkers -> WorkerRow \cup {None}]
  /\ faults \in Nat

JobsInit ==
  /\ capture = [t \in Captures |-> [status |-> "absent", job |-> None]]
  /\ job = [j \in Jobs |-> [status |-> "absent", refs |-> {}, attempts |-> 0,
                            due |-> FALSE, expired |-> FALSE]]
  /\ idle = [s \in Sessions |-> FALSE]
  /\ worker = [w \in JobWorkers |-> None]
  /\ faults = 0

-----------------------------------------------------------------------------
(* Capturing Turns and creating jobs                                       *)

Pending(s) == {t \in Captures : SessionOf[t] = s /\ capture[t].status = "pending"}

(* The first n Turns of S in order.                                        *)
Oldest(S, n) == {t \in S : Cardinality({u \in S : Order[u] < Order[t]}) < n}

(* The idempotency key of a range is its first and its last Turn.          *)
SameRange(S, T) ==
  \E f, l \in S \cap T : \A u \in S \cup T : Order[f] <= Order[u] /\ Order[u] <= Order[l]

JobsOfRange(S) == {j \in Jobs : job[j].status # "absent" /\ SameRange(job[j].refs, S)}

NewJob(S) == [status |-> "pending", refs |-> S, attempts |-> 0, due |-> FALSE, expired |-> FALSE]

FreshJobs == {j \in Jobs \ Structured : job[j].status = "absent"}

(* The Turns of S belong to job j.                                         *)
Freeze(turns, S, j) ==
  [t \in Captures |-> IF t \in S THEN [status |-> "claimed", job |-> j] ELSE turns[t]]

(* A window is the first WindowTurns pending Turns, the new one included.  *)
(* A job of the same range that exists already is used again.              *)
WindowJob(turns, P) ==
  LET S == Oldest(P, WindowTurns)
  IN  IF Cardinality(P) < WindowTurns THEN capture' = turns /\ job' = job
      ELSE \/ \E j \in JobsOfRange(S) : capture' = Freeze(turns, S, j) /\ job' = job
           \/ /\ JobsOfRange(S) = {}
              /\ \E j \in FreshJobs :
                   capture' = Freeze(turns, S, j) /\ job' = [job EXCEPT ![j] = NewJob(S)]

(* The pending Turns of the session share the latest deadline; the         *)
(* deadline of a Turn delivered late may have passed already.              *)
AppendTurn(t, late) ==
  LET s == SessionOf[t]
  IN  /\ capture[t].status = "absent"
      /\ WindowJob([capture EXCEPT ![t] = [status |-> "pending", job |-> None]],
                   Pending(s) \cup {t})
      /\ idle' = [idle EXCEPT ![s] = late /\ (Pending(s) = {} \/ idle[s])]
      /\ UNCHANGED <<worker, faults>>

IdleDeadline(s) ==
  /\ ~idle[s]
  /\ Pending(s) # {}
  /\ idle' = [idle EXCEPT ![s] = TRUE]
  /\ UNCHANGED <<capture, job, worker, faults>>

(* The sweeper lists idle sessions, and the deadline is checked again      *)
(* under the lock.  A job of the same range that exists already leaves     *)
(* the Turns as they are.                                                  *)
IdleJob(s) ==
  LET S == Pending(s)
  IN  /\ idle[s]
      /\ S # {}
      /\ JobsOfRange(S) = {}
      /\ \E j \in FreshJobs :
           capture' = Freeze(capture, S, j) /\ job' = [job EXCEPT ![j] = NewJob(S)]
      /\ UNCHANGED <<idle, worker, faults>>

(* A canonical Plan, Run or Result change publishes a job of its own.      *)
AddJob(j) ==
  /\ j \in Structured
  /\ job[j].status = "absent"
  /\ job' = [job EXCEPT ![j] = NewJob({})]
  /\ UNCHANGED <<capture, idle, worker, faults>>

-----------------------------------------------------------------------------
(* Workers                                                                 *)

(* Mutant: an exhausted job is not taken off the queue.                    *)
NeverExhausted(j) == FALSE

Exhausted(j) ==
  job[j].status = "claimed" /\ job[j].expired /\ job[j].attempts >= JobAttempts

Eligible(j) ==
  /\ job[j].attempts < JobAttempts
  /\ \/ job[j].status = "pending"
     \/ job[j].status = "retry" /\ job[j].due
     \/ job[j].status = "claimed" /\ job[j].expired

Reaped == [j \in Jobs |-> IF Exhausted(j) THEN [job[j] EXCEPT !.status = "dead_letter"]
                          ELSE job[j]]

ClaimJob(w, j) ==
  /\ worker[w] = None
  /\ Eligible(j)
  /\ job' = [Reaped EXCEPT ![j].status = "claimed",
                           ![j].attempts = @ + 1,
                           ![j].expired = FALSE]
  /\ worker' = [worker EXCEPT ![w] = [stage |-> "claimed", job |-> j,
                                      token |-> job[j].attempts + 1, live |-> TRUE]]
  /\ UNCHANGED <<capture, idle, faults>>

(* With nothing to claim the exhausted jobs are still put aside.           *)
ReapJobs(w) ==
  /\ worker[w] = None
  /\ \A j \in Jobs : ~Eligible(j)
  /\ \E j \in Jobs : Exhausted(j)
  /\ job' = Reaped
  /\ UNCHANGED <<capture, idle, worker, faults>>

WorkerAt(w, stage) == worker[w] # None /\ worker[w].stage = stage

Process(w) ==
  /\ WorkerAt(w, "claimed")
  /\ worker' = [worker EXCEPT ![w].stage = "processed"]
  /\ UNCHANGED <<capture, job, idle, faults>>

(* The processor times out, is unavailable or raises.                      *)
ProcessFails(w) ==
  /\ WorkerAt(w, "claimed")
  /\ worker' = [worker EXCEPT ![w].stage = "failed"]
  /\ UNCHANGED <<capture, job, idle, faults>>

(* Mutant: any claim of the job will do.                                   *)
HoldsAnyClaimOf(w) == job[worker[w].job].status = "claimed"

HoldsJob(w) ==
  job[worker[w].job].status = "claimed" /\ job[worker[w].job].attempts = worker[w].token

(* now=self.clock() for complete_job or fail_job.                          *)
ReadClock(w) ==
  /\ WorkerAt(w, "processed") \/ WorkerAt(w, "failed")
  /\ worker' = [worker EXCEPT ![w].live = HoldsJob(w) => ~job[worker[w].job].expired,
                              ![w].stage = IF @ = "processed" THEN "completing"
                                           ELSE "failing"]
  /\ UNCHANGED <<capture, job, idle, faults>>

FormTurns(j) ==
  [t \in Captures |-> IF t \in job[j].refs THEN [capture[t] EXCEPT !.status = "formed"]
                      ELSE capture[t]]

(* A lost claim is an exception like the processor's own.                  *)
CompleteJob(w) ==
  LET j == worker[w].job
  IN  /\ WorkerAt(w, "completing")
      /\ \/ /\ HoldsJob(w) /\ worker[w].live
            /\ job' = [job EXCEPT ![j].status = "completed"]
            /\ capture' = FormTurns(j)
            /\ worker' = [worker EXCEPT ![w] = None]
         \/ /\ ~(HoldsJob(w) /\ worker[w].live)
            /\ worker' = [worker EXCEPT ![w].stage = "failed"]
            /\ UNCHANGED <<job, capture>>
      /\ UNCHANGED <<idle, faults>>

JobStatusAfterFailure(attempts) == IF attempts >= JobAttempts THEN "dead_letter" ELSE "retry"

(* Here a lost claim leaves run_once; the worker loop catches it.          *)
FailJob(w) ==
  LET j == worker[w].job
  IN  /\ WorkerAt(w, "failing")
      /\ job' = IF HoldsJob(w) /\ worker[w].live
                THEN [job EXCEPT ![j].status = JobStatusAfterFailure(job[j].attempts),
                                 ![j].due = FALSE]
                ELSE job
      /\ worker' = [worker EXCEPT ![w] = None]
      /\ UNCHANGED <<capture, idle, faults>>

WorkerCrash(w) ==
  /\ faults < MaxFaults
  /\ worker[w] # None
  /\ faults' = faults + 1
  /\ worker' = [worker EXCEPT ![w] = None]
  /\ UNCHANGED <<capture, job, idle>>

HeldJobs == {worker[w].job : w \in {v \in JobWorkers : worker[v] # None /\ HoldsJob(v)}}

(* The lease is longer than the processor's timeout: it expires only under *)
(* a worker that died or stalls.                                           *)
JobLeaseExpires(j) ==
  /\ job[j].status = "claimed"
  /\ ~job[j].expired
  /\ job' = [job EXCEPT ![j].expired = TRUE]
  /\ \/ j \notin HeldJobs /\ UNCHANGED faults
     \/ j \in HeldJobs /\ faults < MaxFaults /\ faults' = faults + 1
  /\ UNCHANGED <<capture, idle, worker>>

JobRetryDue(j) ==
  /\ job[j].status = "retry"
  /\ ~job[j].due
  /\ job' = [job EXCEPT ![j].due = TRUE]
  /\ UNCHANGED <<capture, idle, worker, faults>>

-----------------------------------------------------------------------------

WorkerRunOnce(w) ==
  \/ \E j \in Jobs : ClaimJob(w, j)
  \/ ReapJobs(w) \/ Process(w) \/ ProcessFails(w) \/ ReadClock(w)
  \/ CompleteJob(w) \/ FailJob(w)

JobClock(j) == JobLeaseExpires(j) \/ JobRetryDue(j)

(* Everything but the capture of Turns.                                    *)
JobStep ==
  \/ \E s \in Sessions : IdleDeadline(s) \/ IdleJob(s)
  \/ \E j \in Jobs : AddJob(j) \/ JobClock(j)
  \/ \E w \in JobWorkers : WorkerRunOnce(w) \/ WorkerCrash(w)

JobsNext ==
  \/ \E t \in Captures, late \in BOOLEAN : AppendTurn(t, late)
  \/ JobStep

JobsSpec == JobsInit /\ [][JobsNext]_jobVars

(* The worker and sweeper loops run for ever and time passes.              *)
JobsFairness ==
  /\ \A w \in JobWorkers : WF_jobVars(WorkerRunOnce(w))
  /\ \A j \in Jobs : WF_jobVars(JobClock(j))
  /\ \A s \in Sessions : WF_jobVars(IdleDeadline(s)) /\ WF_jobVars(IdleJob(s))

JobsFairSpec == JobsSpec /\ JobsFairness

-----------------------------------------------------------------------------
(* Properties                                                              *)

(* Windows and idle sweeps partition the captured Turns: a Turn is frozen  *)
(* into the one job its row names and into no other.                       *)
RangesPartition ==
  \A t \in Captures, j \in Jobs : t \in job[j].refs <=> capture[t].job = j

(* A Turn counts as formed exactly when its job has completed: a failed,   *)
(* stalled or superseded attempt forms nothing.                            *)
FormedWithJob ==
  \A t \in Captures :
    capture[t].status = "formed" <=>
      capture[t].job # None /\ job[capture[t].job].status = "completed"

(* Every unsettled job can be claimed again: one that is waiting has an    *)
(* attempt left.                                                           *)
WaitingHasAttempts ==
  \A j \in Jobs : job[j].status \in {"pending", "retry"} => job[j].attempts < JobAttempts

(* A job stays claimed until the worker that claimed it last ends it, or   *)
(* its lease has expired at the last attempt: one that was taken over from *)
(* cannot complete, retry or give up the job of its successor.             *)
JobClaimsRespected ==
  \A w \in JobWorkers :
    LET j == worker[w].job
    IN  worker[w] # None /\ job[j].attempts = worker[w].token
          => \/ job[j].status = "claimed"
             \/ job[j].status = "dead_letter" /\ job[j].expired

(* Every captured Turn is in one job and formed with it, no job is         *)
(* stranded, and none is ended over its worker's head, between workers     *)
(* that crash and take over each other's jobs.                             *)
JobsSafe ==
  /\ JobsTypeOK
  /\ RangesPartition
  /\ FormedWithJob
  /\ WaitingHasAttempts
  /\ JobClaimsRespected

(* The range of a job is frozen and its outcome final, although the job    *)
(* may have been taken over from a worker that is still running.           *)
JobsAreFinal ==
  [][\A j \in Jobs :
       /\ job[j].status # "absent" => job'[j].refs = job[j].refs
       /\ job[j].status \in JobSettled => job'[j].status = job[j].status]_jobVars

(* Every captured Turn is formed or its job is a dead letter, without any  *)
(* end-of-session signal from the host.                                    *)
TurnsGetFormed ==
  \A t \in Captures :
    capture[t].status # "absent" ~>
      \/ capture[t].status = "formed"
      \/ capture[t].job # None /\ job[capture[t].job].status = "dead_letter"

=============================================================================
