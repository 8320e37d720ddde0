-------------------------- MODULE ExecutionTickets --------------------------
(***************************************************************************)
(* Execution Tickets and the intake of agent events.  A Ticket authorises  *)
(* an agent to report on its delegated Run, and carries a cursor: the Run  *)
(* version and event sequence that the next event builds on.  A request    *)
(* claims the Ticket under a lease, applies its event to the Run, and then *)
(* consumes the Ticket or releases it with an advanced cursor.  Ticket and *)
(* Run are updated by different transactions.                              *)
(*                                                                         *)
(* Events arrive on two routes: the native API, which checks the event's   *)
(* place against the cursor and releases a claim it rejects, and the OAC   *)
(* host adapter, which does neither and tells the time by the client's     *)
(* clock; without a Ticket the adapter correlates ("legacy").  What a      *)
(* command does inside the Run's own transaction is DelegatedRuns.         *)
(***************************************************************************)
EXTENDS Integers, FiniteSets

CONSTANTS
  Tickets,
  RunIds,
  RunOf,       \* Ticket -> the Run it is bound to
  EventIds,
  Messages,    \* the requests that agents can send, see MessageType
  Handlers,
  None

Routes == {"native", "adapter", "legacy"}

(* A note is an adapter event (pending, clarify) that leaves the Run       *)
(* alone; an error is a failure or a cancellation, which fail and cancel   *)
(* write alike as far as this module goes.                                 *)
Kinds == {"progress", "result", "error", "note"}

(* sequence and run_state_version are optional: 0 stands for absent.       *)
MessageType ==
  [id : EventIds, via : Routes, kind : Kinds, sequence : Nat, version : Nat]

ASSUME TicketConstants ==
  /\ RunOf \in [Tickets -> RunIds]
  /\ Messages \subseteq MessageType
  /\ \A m \in Messages : m.kind = "note" => m.via # "native"
  /\ None \notin Handlers
  /\ None \notin Messages

VARIABLES
  ticket,    \* execution_tickets
  run,       \* agent_runs
  event,     \* agent_events
  handler    \* the request each handler works on, None when it has none

ticketVars == <<ticket, run, event, handler>>

Final == {"result", "error"}

(* holder is the request that knows the row's lease token, if it is still  *)
(* running; consumed is the message that has the consumed_event_id.        *)
TicketRow ==
  [status   : {"absent", "issued", "claimed", "consumed", "expired"},
   version  : Nat,
   sequence : Nat,
   holder   : Handlers \cup {None},
   lapsed   : BOOLEAN,              \* lease_expires_at <= now
   consumed : Messages \cup {None}]

RunRow ==
  [status   : {"open", "completed", "ended"},
   version  : Nat,
   sequence : Nat,
   terminal : EventIds \cup {None}]

EventRow == [run : RunIds, kind : Kinds, sequence : Nat, version : Nat]

Request ==
  [stage    : {"resolved", "claimed", "replaying", "committing", "applied", "rejected"},
   ticket   : Tickets,
   msg      : Messages,
   version  : Nat,      \* the Ticket's cursor when it was claimed
   sequence : Nat,
   base     : Nat,      \* the Run's event_sequence when it was read
   replay   : BOOLEAN,  \* resolved: the event was the Run's terminal event;
                        \* committing: the Ticket was consumed already
   seen     : Nat,      \* the Run's version that the command returned
   wrote    : BOOLEAN]  \* the command was not a duplicate

ASSUME NoneIsNoRow == None \notin EventRow /\ None \notin Request

TicketTypeOK ==
  /\ ticket \in [Tickets -> TicketRow]
  /\ run \in [RunIds -> RunRow]
  /\ event \in [EventIds -> EventRow \cup {None}]
  /\ handler \in [Handlers -> Request \cup {None}]

TicketInit ==
  /\ ticket = [k \in Tickets |->
                 [status |-> "absent", version |-> 1, sequence |-> 0, holder |-> None,
                  lapsed |-> FALSE, consumed |-> None]]
  /\ run = [r \in RunIds |-> [status |-> "open", version |-> 1, sequence |-> 0,
                              terminal |-> None]]
  /\ event = [i \in EventIds |-> None]
  /\ handler = [h \in Handlers |-> None]

-----------------------------------------------------------------------------
(* Tickets are issued, Runs end and time passes                            *)

(* start is idempotent, issue is not: a repeated start of a Run hands out  *)
(* a new Ticket, whose cursor is that of a new Run.                        *)
Issue(k) ==
  /\ ticket[k].status = "absent"
  /\ ticket' = [ticket EXCEPT ![k].status = "issued"]
  /\ UNCHANGED <<run, event, handler>>

(* The sweeper times the Run out or the user cancels it.                   *)
RunEnds(r) ==
  /\ run[r].status = "open"
  /\ run' = [run EXCEPT ![r].status = "ended",
                        ![r].version = @ + 1,
                        ![r].sequence = @ + 1]
  /\ UNCHANGED <<ticket, event, handler>>

LeaseLapses(k) ==
  /\ ticket[k].status = "claimed"
  /\ ~ticket[k].lapsed
  /\ ticket' = [ticket EXCEPT ![k].lapsed = TRUE]
  /\ UNCHANGED <<run, event, handler>>

-----------------------------------------------------------------------------
(* Claiming                                                                *)

At(h, stage) == handler[h] # None /\ handler[h].stage = stage

NewRequest(k, m) ==
  [stage |-> "resolved", ticket |-> k, msg |-> m, version |-> 0, sequence |-> 0,
   base |-> 0, replay |-> FALSE, seen |-> 0, wrote |-> FALSE]

(* The Ticket's time is over, and resolve_bound of some request notices.   *)
Expire(k) ==
  /\ ticket[k].status \in {"issued", "claimed"}
  /\ ticket' = [ticket EXCEPT ![k].status = "expired", ![k].holder = None, ![k].lapsed = FALSE]
  /\ UNCHANGED <<run, event, handler>>

(* A native request reads the Ticket and the Run before it claims.         *)
Resolve(h, k, m) ==
  /\ handler[h] = None
  /\ m.via = "native"
  /\ ticket[k].status \notin {"absent", "expired"}
  /\ handler' = [handler EXCEPT ![h] =
                   IF m.kind \in Final /\ run[RunOf[k]].terminal = m.id
                   THEN [NewRequest(k, m) EXCEPT !.replay = TRUE, !.base = run[RunOf[k]].sequence]
                   ELSE NewRequest(k, m)]
  /\ UNCHANGED <<ticket, run, event>>

(* _resolve_event_occurrence: the event's place against the cursor.        *)
InPlace(q, version, sequence) ==
  LET m == q.msg
  IN  IF q.replay
      THEN /\ m.version \in {0, version}
           /\ m.sequence \in {0, q.base}
      ELSE \/ m.sequence = 0 /\ m.version \in {0, version}
           \/ m.sequence # 0 /\ m.sequence = sequence /\ m.version \in {0, version - 1}
           \/ m.sequence = sequence + 1 /\ m.version \in {0, version}

Claimable(k, via) ==
  \/ ticket[k].status = "issued"
  \/ ticket[k].status = "claimed" /\ (ticket[k].lapsed \/ via = "legacy")

(* The request goes on with the row that claim returned.                   *)
Admit(h, k, m, stage) ==
  handler' = [handler EXCEPT ![h] =
                [NewRequest(k, m) EXCEPT !.stage = stage, !.version = ticket[k].version,
                                         !.sequence = ticket[k].sequence]]

Answer(h) == handler' = [handler EXCEPT ![h] = None]

(* A native request that is out of place is answered there and then, its   *)
(* claim still on the Ticket.                                              *)
Take(h, k, m, placed) ==
  /\ Claimable(k, m.via)
  /\ ticket' = [ticket EXCEPT ![k].status = "claimed",
                              ![k].holder = IF placed THEN h ELSE None,
                              ![k].lapsed = FALSE]
  /\ IF placed THEN Admit(h, k, m, "claimed") ELSE Answer(h)

(* A consumed Ticket is not claimed: the event is applied again.           *)
Replay(h, k, m, placed) ==
  /\ ticket[k].status = "consumed"
  /\ IF placed THEN Admit(h, k, m, "replaying") ELSE Answer(h)
  /\ UNCHANGED ticket

ClaimNative(h) ==
  LET q == handler[h]
      k == q.ticket
      placed == InPlace(q, ticket[k].version, ticket[k].sequence)
  IN  /\ At(h, "resolved")
      /\ \/ Take(h, k, q.msg, placed)
         \/ Replay(h, k, q.msg, placed /\ ticket[k].consumed.id = q.msg.id)
         \/ /\ ~Claimable(k, "native") /\ ticket[k].status # "consumed"
            /\ Answer(h)
            /\ UNCHANGED ticket
      /\ UNCHANGED <<run, event>>

Active(k) == ticket[k].status \in {"issued", "claimed"}

ClaimAdapter(h, k, m) ==
  /\ handler[h] = None
  /\ m.via # "native"
  /\ m.via = "legacy" =>
       /\ Active(k)
       /\ \A j \in Tickets \ {k} : RunOf[j] = RunOf[k] => ~Active(j)
  /\ \/ Take(h, k, m, TRUE)
     \/ Replay(h, k, m, TRUE)
  /\ UNCHANGED <<run, event>>

-----------------------------------------------------------------------------
(* Applying the event                                                      *)

Applying(h) == At(h, "claimed") \/ At(h, "replaying")

(* The sequence of the command: the adapter never passes one on.           *)
CommandSequence(q) ==
  IF q.msg.via = "native" /\ q.msg.sequence # 0 THEN q.msg.sequence ELSE q.sequence + 1

(* What follows a command: replays have no claim to finish.                *)
After(h, wrote, version) ==
  handler' = [handler EXCEPT ![h] =
                IF At(h, "replaying") THEN None
                ELSE IF @.msg.kind = "progress"
                THEN [@ EXCEPT !.stage = "applied", !.seen = version, !.wrote = wrote]
                ELSE [NewRequest(@.ticket, @.msg) EXCEPT !.stage = "applied", !.wrote = wrote]]

(* The stored event is this one.                                           *)
SameEvent(q) ==
  LET e == event[q.msg.id]
  IN  /\ e # None
      /\ q.msg.kind # "note" =>
           /\ e.run = RunOf[q.ticket]
           /\ e.kind = q.msg.kind
           /\ q.msg.kind = "progress" => e.sequence = CommandSequence(q)

ApplyDuplicate(h) ==
  LET q == handler[h]
  IN  /\ Applying(h) \/ At(h, "committing")
      /\ SameEvent(q)
      /\ IF q.replay THEN Answer(h)
         ELSE After(h, FALSE, run[RunOf[q.ticket]].version)
      /\ UNCHANGED <<ticket, run, event>>

(* The Run is where the cursor says.                                       *)
Current(q) ==
  /\ event[q.msg.id] = None
  /\ run[RunOf[q.ticket]].status = "open"
  /\ run[RunOf[q.ticket]].version = q.version

Store(q, sequence, version) ==
  event' = [event EXCEPT ![q.msg.id] = [run |-> RunOf[q.ticket], kind |-> q.msg.kind,
                                        sequence |-> sequence, version |-> version]]

ApplyProgress(h) ==
  LET q == handler[h]
      r == RunOf[q.ticket]
      s == CommandSequence(q)
  IN  /\ Applying(h) /\ q.msg.kind = "progress"
      /\ Current(q)
      /\ s > run[r].sequence
      /\ run' = [run EXCEPT ![r].version = @ + 1, ![r].sequence = s]
      /\ Store(q, s, run[r].version + 1)
      /\ After(h, TRUE, run[r].version + 1)
      /\ UNCHANGED ticket

ApplyError(h) ==
  LET q == handler[h]
      r == RunOf[q.ticket]
  IN  /\ Applying(h) /\ q.msg.kind = "error"
      /\ Current(q)
      /\ run' = [run EXCEPT ![r].status = "ended", ![r].version = @ + 1,
                            ![r].sequence = @ + 1, ![r].terminal = q.msg.id]
      /\ Store(q, run[r].sequence + 1, run[r].version + 1)
      /\ After(h, TRUE, run[r].version + 1)
      /\ UNCHANGED ticket

(* complete reads the Run in one transaction ...                           *)
ApplyResult(h) ==
  LET q == handler[h]
  IN  /\ Applying(h) /\ q.msg.kind = "result"
      /\ Current(q)
      /\ handler' = [handler EXCEPT ![h].stage = "committing",
                                    ![h].base = run[RunOf[q.ticket]].sequence,
                                    ![h].replay = At(h, "replaying")]
      /\ UNCHANGED <<ticket, run, event>>

(* ... and commits in another, which compares the versions of Turn and     *)
(* Plan and not the Run's.  A Turn is completed once.                      *)
CommitResult(h) ==
  LET q == handler[h]
      r == RunOf[q.ticket]
  IN  /\ At(h, "committing")
      /\ event[q.msg.id] = None
      /\ run[r].status # "completed"
      /\ run' = [run EXCEPT ![r] = [status |-> "completed", version |-> q.version + 1,
                                    sequence |-> q.base + 1, terminal |-> q.msg.id]]
      /\ Store(q, q.base + 1, q.version + 1)
      /\ IF q.replay THEN Answer(h)
         ELSE After(h, TRUE, q.version + 1)
      /\ UNCHANGED ticket

ApplyNote(h) ==
  LET q == handler[h]
  IN  /\ Applying(h) /\ q.msg.kind = "note"
      /\ event[q.msg.id] = None
      /\ Store(q, 0, 0)
      /\ After(h, TRUE, 0)
      /\ UNCHANGED <<ticket, run>>

-----------------------------------------------------------------------------
(* Finishing                                                               *)

(* The request ends and takes its lease token with it.                     *)
Abandon(h) ==
  /\ ticket' = [k \in Tickets |-> IF ticket[k].holder = h THEN [ticket[k] EXCEPT !.holder = None]
                                 ELSE ticket[k]]
  /\ Answer(h)

(* An error: the native route answers a conflict and releases its claim,   *)
(* the adapter keeps the claim until the lease has lapsed.                 *)
Fail(h) ==
  IF handler[h].msg.via = "native" /\ ~At(h, "replaying") /\ ~handler[h].replay
  THEN /\ handler' = [handler EXCEPT ![h] = [NewRequest(@.ticket, @.msg) EXCEPT
                                               !.stage = "rejected", !.wrote = handler[h].wrote]]
       /\ UNCHANGED ticket
  ELSE Abandon(h)

(* The Run, the Turn or the Plan refuses the command.                      *)
Refused(h) ==
  /\ Applying(h) \/ At(h, "committing")
  /\ Fail(h)
  /\ UNCHANGED <<run, event>>

Holds(h) ==
  ticket[handler[h].ticket].status = "claimed" /\ ticket[handler[h].ticket].holder = h

(* finalize_claim compares the lease with a clock read before: the request *)
(* may be late without noticing, and the adapter's clock is the client's.  *)
Late(h) ==
  ~Holds(h) \/ ticket[handler[h].ticket].lapsed \/ handler[h].msg.via # "native"

Finalize(h, row) ==
  /\ Holds(h)
  /\ ticket' = [ticket EXCEPT ![handler[h].ticket] =
                  [row EXCEPT !.holder = None, !.lapsed = FALSE]]
  /\ Answer(h)

(* Mutant: the Ticket is consumed when it is claimed.                      *)
ConsumeFirst(h) ==
  /\ At(h, "claimed") /\ handler[h].msg.kind # "progress"
  /\ Finalize(h, [ticket[handler[h].ticket] EXCEPT !.status = "consumed",
                                                   !.consumed = handler[h].msg])
  /\ UNCHANGED <<run, event>>

Consume(h) ==
  LET q == handler[h]
      row == ticket[q.ticket]
  IN  /\ At(h, "applied") /\ q.msg.kind # "progress"
      /\ \/ Finalize(h, [row EXCEPT !.status = "consumed", !.consumed = q.msg])
         \/ /\ row.status = "consumed" /\ row.consumed.id = q.msg.id
            /\ Abandon(h)
         \/ /\ Late(h)
            /\ ~(row.status = "consumed" /\ row.consumed.id = q.msg.id)
            /\ Fail(h)
      /\ UNCHANGED <<run, event>>

Advances(q) == q.seen > q.version /\ CommandSequence(q) > q.sequence

(* Mutant: the cursor's sequence is left behind.                           *)
ReleaseVersionOnly(h) ==
  LET q == handler[h]
  IN  /\ At(h, "applied") /\ q.msg.kind = "progress"
      /\ \/ /\ Advances(q)
            /\ Finalize(h, [ticket[q.ticket] EXCEPT !.status = "issued", !.version = q.seen])
         \/ Late(h) /\ Fail(h)
      /\ UNCHANGED <<run, event>>

(* release_after_progress                                                  *)
ReleaseAfterProgress(h) ==
  LET q == handler[h]
      row == ticket[q.ticket]
  IN  /\ At(h, "applied") /\ q.msg.kind = "progress"
      /\ \/ /\ Advances(q)
            /\ Finalize(h, [row EXCEPT !.status = "issued", !.version = q.seen,
                                       !.sequence = CommandSequence(q)])
         \/ (Late(h) \/ ~Advances(q)) /\ ~(q.msg.via = "native" /\ q.seen = q.version) /\ Fail(h)
      /\ UNCHANGED <<run, event>>

(* A replay that finds the cursor where its event left it.                 *)
ReleaseClaim(h) ==
  LET q == handler[h]
  IN  /\ At(h, "applied") /\ q.msg.kind = "progress"
      /\ q.msg.via = "native" /\ q.seen = q.version
      /\ \/ /\ CommandSequence(q) = q.sequence
            /\ Finalize(h, [ticket[q.ticket] EXCEPT !.status = "issued"])
         \/ (Late(h) \/ CommandSequence(q) # q.sequence) /\ Fail(h)
      /\ UNCHANGED <<run, event>>

ReleaseRejected(h) ==
  /\ At(h, "rejected")
  /\ \/ Finalize(h, [ticket[handler[h].ticket] EXCEPT !.status = "issued"])
     \/ Late(h) /\ Abandon(h)
  /\ UNCHANGED <<run, event>>

(* The handler dies, or the database fails under it.                       *)
Crash(h) ==
  /\ handler[h] # None
  /\ Abandon(h)
  /\ UNCHANGED <<run, event>>

-----------------------------------------------------------------------------

Apply(h) ==
  \/ ApplyDuplicate(h) \/ ApplyProgress(h) \/ ApplyError(h) \/ ApplyResult(h)
  \/ CommitResult(h) \/ ApplyNote(h) \/ Refused(h)

Finish(h) ==
  \/ Consume(h) \/ ReleaseAfterProgress(h) \/ ReleaseClaim(h) \/ ReleaseRejected(h) \/ Crash(h)

TicketNext ==
  \/ \E k \in Tickets : Issue(k) \/ LeaseLapses(k) \/ Expire(k)
  \/ \E r \in RunIds : RunEnds(r)
  \/ \E h \in Handlers :
       \/ \E k \in Tickets, m \in Messages : Resolve(h, k, m) \/ ClaimAdapter(h, k, m)
       \/ ClaimNative(h) \/ Apply(h) \/ Finish(h)

TicketSpec == TicketInit /\ [][TicketNext]_ticketVars

-----------------------------------------------------------------------------
(* Properties                                                              *)

(* The event of m is stored; unless it is a note, it is a final event of   *)
(* the Ticket's Run, and the Run is over.                                  *)
Recorded(k, m) ==
  /\ event[m.id] # None
  /\ m.kind # "note" =>
       /\ m.kind \in Final
       /\ event[m.id].run = RunOf[k] /\ event[m.id].kind = m.kind
       /\ run[RunOf[k]].status # "open"

(* A Ticket is consumed only by an event that is in the event table and    *)
(* has had its effect on the Ticket's Run, whichever transaction of the    *)
(* request was the last to succeed.                                        *)
ConsumedByStoredEvent ==
  \A k \in Tickets :
    ticket[k].status = "consumed" => ticket[k].consumed # None /\ Recorded(k, ticket[k].consumed)

(* The cursor of a Ticket is never ahead of its Run while that is open,    *)
(* whatever other Tickets the Run has.                                     *)
CursorNotAhead ==
  \A k \in Tickets :
    run[RunOf[k]].status = "open" =>
      ticket[k].version <= run[RunOf[k]].version /\ ticket[k].sequence <= run[RunOf[k]].sequence

Sole(k) == \A j \in Tickets \ {k} : RunOf[j] = RunOf[k] => ticket[j].status = "absent"

(* The cursor of a Run's only Ticket trails an open Run by at most the one *)
(* event whose release was lost, so that a replay of that event brings it  *)
(* up to date and the agent can go on.                                     *)
LostReleaseIsRepairable ==
  \A k \in Tickets :
    LET r == RunOf[k]
        trailing == run[r].version - ticket[k].version
    IN  run[r].status = "open" /\ ticket[k].status # "absent" /\ Sole(k) =>
          /\ trailing \in {0, 1}
          /\ run[r].sequence = ticket[k].sequence + trailing
          /\ trailing = 1 => \E i \in EventIds :
               /\ event[i] # None
               /\ event[i].run = r /\ event[i].kind = "progress"
               /\ event[i].sequence = ticket[k].sequence + 1

(* Two progress events of a Run never claim the same place in its order,   *)
(* although their requests hold different Tickets or lost their claim.     *)
OneEventPerPlace ==
  \A i, j \in EventIds :
    /\ event[i] # None /\ event[j] # None
    /\ event[i].kind = "progress" /\ event[j].kind = "progress"
    /\ event[i].run = event[j].run /\ i # j
    => (event[i].sequence < event[j].sequence <=> event[i].version < event[j].version)
       /\ event[i].sequence # event[j].sequence

(* What Tickets, Runs and events say of each other stays true between      *)
(* requests that overlap, repeat and lose their claim.                     *)
TicketSafe == TicketTypeOK /\ ConsumedByStoredEvent /\ CursorNotAhead /\ OneEventPerPlace

(* A consumed or expired Ticket stays as it is, and a cursor only moves    *)
(* forward, although a late request may still be finishing its claim.      *)
TicketsMoveForward ==
  [][\A k \in Tickets :
       /\ ticket[k].status \in {"consumed", "expired"} =>
            /\ ticket'[k].status = ticket[k].status
            /\ ticket'[k].consumed = ticket[k].consumed
       /\ ticket'[k].version >= ticket[k].version
       /\ ticket'[k].sequence >= ticket[k].sequence]_ticketVars

(* A claim of the API document that TLC refutes (README, Observations): a  *)
(* request that is rejected has written nothing.                           *)
RejectedWroteNothing == \A h \in Handlers : At(h, "rejected") => ~handler[h].wrote

=============================================================================
