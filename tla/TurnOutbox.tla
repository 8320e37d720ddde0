----------------------------- MODULE TurnOutbox -----------------------------
(***************************************************************************)
(* Delivery of the transactional outbox (turn_outbox) to Memory Formation: *)
(* the consumers of the replicas claim an event under a lease, capture the *)
(* Turn it announces, and complete the event or put it back for a retry    *)
(* until it becomes a dead letter.                                         *)
(*                                                                         *)
(* claim and complete are one conditional UPDATE each.  fail is not: the   *)
(* database repository reads the claimed row and writes it back by its     *)
(* primary key, without the condition.  Time is the two things it decides: *)
(* a lease has expired, a retry is due.                                    *)
(***************************************************************************)
EXTENDS Integers, FiniteSets

CONSTANTS
  Events,       \* outbox rows: one per Turn and terminal status
  Completions,  \* those of type turn.completed; the others are ignored
  Suppressed,   \* completions whose eligibility snapshot forbids Formation
  Consumers,    \* one per replica
  MaxAttempts,  \* max_attempts of a row
  MaxStalls,    \* bound: leases that expire under a consumer still at work
  MaxCrashes,   \* bound: consumers that die holding an event
  NoDelivery

ASSUME OutboxConstants ==
  /\ Completions \subseteq Events
  /\ Suppressed \subseteq Completions
  /\ MaxAttempts \in Nat \ {0}
  /\ MaxStalls \in Nat
  /\ MaxCrashes \in Nat

VARIABLES
  row,       \* turn_outbox; token numbers the claims of a row
  consumer,  \* what each consumer is doing, NoDelivery between two run_once calls
  captured,  \* events whose Turn has been appended to Memory Formation
  skipped,   \* events whose skip has been audited
  stalls,
  crashes

outboxVars == <<row, consumer, captured, skipped, stalls, crashes>>

Settled == {"completed", "dead_letter"}

RowType ==
  [status   : {"absent", "pending", "claimed", "retry"} \cup Settled,
   attempts : Nat,
   token    : Nat,
   due      : BOOLEAN,    \* available_at <= now
   expired  : BOOLEAN]    \* lease_expires_at <= now

ConsumerType ==
  [stage : {"claimed", "delivered", "failing", "rewriting"},
   event : Events,
   token : Nat,
   read  : Nat]           \* attempt_count that fail has read, 0 before

OutboxTypeOK ==
  /\ row \in [Events -> RowType]
  /\ consumer \in [Consumers -> ConsumerType \cup {NoDelivery}]
  /\ captured \subseteq Events
  /\ skipped \subseteq Events
  /\ stalls \in Nat
  /\ crashes \in Nat

OutboxInit ==
  /\ row = [e \in Events |-> [status |-> "absent", attempts |-> 0, token |-> 0,
                              due |-> FALSE, expired |-> FALSE]]
  /\ consumer = [k \in Consumers |-> NoDelivery]
  /\ captured = {}
  /\ skipped = {}
  /\ stalls = 0
  /\ crashes = 0

-----------------------------------------------------------------------------

(* The transaction that seals a Turn adds its event.                       *)
AddEvent(e) ==
  /\ row[e].status = "absent"
  /\ row' = [row EXCEPT ![e].status = "pending", ![e].due = TRUE]
  /\ UNCHANGED <<consumer, captured, skipped, stalls, crashes>>

Claimable(e) ==
  \/ row[e].status \in {"pending", "retry"} /\ row[e].due
  \/ row[e].status = "claimed" /\ row[e].expired

Claim(k, e) ==
  /\ consumer[k] = NoDelivery
  /\ Claimable(e)
  /\ row' = [row EXCEPT ![e].status = "claimed", ![e].token = @ + 1, ![e].expired = FALSE]
  /\ consumer' = [consumer EXCEPT ![k] = [stage |-> "claimed", event |-> e,
                                          token |-> row[e].token + 1, read |-> 0]]
  /\ UNCHANGED <<captured, skipped, stalls, crashes>>

AtStage(k, stage) == consumer[k] # NoDelivery /\ consumer[k].stage = stage

(* Both the append and the audit are idempotent by their deterministic id. *)
Deliver(k) ==
  LET e == consumer[k].event
  IN  /\ AtStage(k, "claimed")
      /\ captured' = IF e \in Completions \ Suppressed THEN captured \cup {e} ELSE captured
      /\ skipped' = IF e \in Suppressed THEN skipped \cup {e} ELSE skipped
      /\ consumer' = [consumer EXCEPT ![k].stage = "delivered"]
      /\ UNCHANGED <<row, stalls, crashes>>

(* Any exception: the Turn is missing, its owner differs, it is no longer  *)
(* completed, or the database fails, before or after the capture.          *)
Raise(k) ==
  /\ AtStage(k, "claimed") \/ AtStage(k, "delivered")
  /\ consumer' = [consumer EXCEPT ![k].stage = "failing"]
  /\ UNCHANGED <<row, captured, skipped, stalls, crashes>>

(* Mutant: any claim of the row will do.                                   *)
HoldsAnyClaim(k) == row[consumer[k].event].status = "claimed"

(* The claim that a consumer's lease token names is the row's current one. *)
Holds(k) ==
  /\ row[consumer[k].event].status = "claimed"
  /\ row[consumer[k].event].token = consumer[k].token

Complete(k) ==
  LET e == consumer[k].event
  IN  /\ AtStage(k, "delivered")
      /\ \/ /\ row[e].status = "completed"
            /\ consumer' = [consumer EXCEPT ![k] = NoDelivery]
            /\ UNCHANGED row
         \/ /\ Holds(k)
            /\ row' = [row EXCEPT ![e].status = "completed"]
            /\ consumer' = [consumer EXCEPT ![k] = NoDelivery]
         \/ /\ row[e].status # "completed" /\ ~Holds(k)
            /\ consumer' = [consumer EXCEPT ![k].stage = "failing"]
            /\ UNCHANGED row
      /\ UNCHANGED <<captured, skipped, stalls, crashes>>

(* A conflict leaves run_once; the loop of the runtime catches it.         *)
FailRead(k) ==
  /\ AtStage(k, "failing")
  /\ consumer' = [consumer EXCEPT ![k] =
                    IF Holds(k) THEN [@ EXCEPT !.stage = "rewriting",
                                               !.read = row[consumer[k].event].attempts]
                    ELSE NoDelivery]
  /\ UNCHANGED <<row, captured, skipped, stalls, crashes>>

StatusAfterFailure(attempts) == IF attempts >= MaxAttempts THEN "dead_letter" ELSE "retry"

FailWrite(k) ==
  /\ AtStage(k, "rewriting")
  /\ row' = [row EXCEPT ![consumer[k].event].status = StatusAfterFailure(consumer[k].read + 1),
                        ![consumer[k].event].attempts = consumer[k].read + 1,
                        ![consumer[k].event].due = FALSE]
  /\ consumer' = [consumer EXCEPT ![k] = NoDelivery]
  /\ UNCHANGED <<captured, skipped, stalls, crashes>>

Crash(k) ==
  /\ crashes < MaxCrashes
  /\ consumer[k] # NoDelivery
  /\ crashes' = crashes + 1
  /\ consumer' = [consumer EXCEPT ![k] = NoDelivery]
  /\ UNCHANGED <<row, captured, skipped, stalls>>

(* Mutant: the lease of a dead consumer is never given up.                 *)
NeverExpires(e) == FALSE /\ UNCHANGED outboxVars

HeldEvents == {consumer[k].event : k \in {j \in Consumers : consumer[j] # NoDelivery /\ Holds(j)}}

(* A lease outlives run_once unless its consumer died or stalls.           *)
LeaseExpires(e) ==
  /\ row[e].status = "claimed"
  /\ ~row[e].expired
  /\ row' = [row EXCEPT ![e].expired = TRUE]
  /\ \/ e \notin HeldEvents /\ UNCHANGED stalls
     \/ e \in HeldEvents /\ stalls < MaxStalls /\ stalls' = stalls + 1
  /\ UNCHANGED <<consumer, captured, skipped, crashes>>

RetryDue(e) ==
  /\ row[e].status = "retry"
  /\ ~row[e].due
  /\ row' = [row EXCEPT ![e].due = TRUE]
  /\ UNCHANGED <<consumer, captured, skipped, stalls, crashes>>

RunOnce(k) ==
  \/ \E e \in Events : Claim(k, e)
  \/ Deliver(k) \/ Raise(k) \/ Complete(k) \/ FailRead(k) \/ FailWrite(k)

Clock(e) == LeaseExpires(e) \/ RetryDue(e)

OutboxNext ==
  \/ \E e \in Events : AddEvent(e) \/ Clock(e)
  \/ \E k \in Consumers : RunOnce(k) \/ Crash(k)

OutboxSpec == OutboxInit /\ [][OutboxNext]_outboxVars

(* The reconciler loop runs run_once for ever and time passes.             *)
OutboxFairness ==
  /\ \A k \in Consumers : WF_outboxVars(RunOnce(k))
  /\ \A e \in Events : WF_outboxVars(Clock(e))

OutboxFairSpec == OutboxSpec /\ OutboxFairness

-----------------------------------------------------------------------------
(* Properties                                                              *)

Effective(e) ==
  e \in Completions => IF e \in Suppressed THEN e \in skipped ELSE e \in captured

(* No event is marked completed before its Turn was captured or its skip   *)
(* audited, whichever consumer marks it and however often it was claimed.  *)
NothingLost == \A e \in Events : row[e].status = "completed" => Effective(e)

(* A row put back for a retry has an attempt left, a dead letter has none, *)
(* although fail writes a count it read before other consumers' claims.    *)
AttemptsDecide ==
  \A e \in Events :
    /\ row[e].status = "retry" => row[e].attempts < MaxAttempts
    /\ row[e].status = "dead_letter" => row[e].attempts >= MaxAttempts

(* No event is completed under the consumer that claimed it last: one that *)
(* has lost its lease cannot complete what another is delivering.          *)
ClaimsRespected ==
  \A k \in Consumers :
    LET e == consumer[k].event
    IN  consumer[k] # NoDelivery /\ row[e].token = consumer[k].token
          => row[e].status # "completed"

(* The outbox loses nothing and never stops short, between consumers that  *)
(* crash, stall and take over each other's claims.                         *)
OutboxSafe == OutboxTypeOK /\ NothingLost /\ AttemptsDecide /\ ClaimsRespected

(* Every event is delivered or becomes a dead letter, crashes and stalls   *)
(* included.                                                               *)
EventsSettle ==
  \A e \in Events : row[e].status # "absent" ~> row[e].status \in Settled

(* A claim of a test that TLC refutes (README, Observations): a completed  *)
(* event is never offered again.                                           *)
CompletedStaysCompleted ==
  [][\A e \in Events : row[e].status = "completed" => row'[e].status = "completed"]_outboxVars

=============================================================================
