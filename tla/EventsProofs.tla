---------------------------- MODULE EventsProofs -----------------------------
(***************************************************************************)
(* Proofs about what agents and services report: ExecutionTickets for any  *)
(* Tickets, Runs, messages and handlers, and ExecutionTraces for any       *)
(* callers, failing writes and restarts.                                   *)
(***************************************************************************)
EXTENDS ExecutionTickets, ExecutionTraces, SequenceTheorems, TLAPS

-----------------------------------------------------------------------------
(* Types                                                                   *)

(* What a request remembers about its Ticket is well typed.                *)
LEMMA RequestType ==
  ASSUME NEW k \in Tickets, NEW m \in Messages,
         NEW s \in {"resolved", "claimed", "replaying", "committing", "applied", "rejected"},
         NEW v \in Nat, NEW n \in Nat, NEW b \in Nat, NEW w \in BOOLEAN
  PROVE  /\ NewRequest(k, m) \in Request
         /\ [NewRequest(k, m) EXCEPT !.replay = TRUE, !.base = b] \in Request
         /\ [NewRequest(k, m) EXCEPT !.stage = s, !.version = v, !.sequence = n] \in Request
         /\ [NewRequest(k, m) EXCEPT !.stage = s, !.wrote = w] \in Request
BY DEF NewRequest, Request

(* Admit, Answer, After, Abandon and Fail keep the types.                  *)
LEMMA AdmitType ==
  ASSUME TicketTypeOK, NEW h \in Handlers, NEW k \in Tickets, NEW m \in Messages,
         NEW s \in {"claimed", "replaying"}, Admit(h, k, m, s)
  PROVE  handler' \in [Handlers -> Request \cup {None}]
<1>1. ticket[k].version \in Nat /\ ticket[k].sequence \in Nat
  BY DEF TicketTypeOK, TicketRow
<1>2. [NewRequest(k, m) EXCEPT !.stage = s, !.version = ticket[k].version,
                               !.sequence = ticket[k].sequence] \in Request
  BY <1>1, RequestType, Zenon
<1> QED BY <1>2 DEF Admit, TicketTypeOK

\* A request that is answered leaves well-typed handlers.
LEMMA AnswerType ==
  ASSUME TicketTypeOK, NEW h \in Handlers, Answer(h)
  PROVE  handler' \in [Handlers -> Request \cup {None}]
BY DEF Answer, TicketTypeOK

\* The request goes on with what `apply' wrote.
LEMMA AfterType ==
  ASSUME TicketTypeOK, NEW h \in Handlers, handler[h] # None,
         NEW w \in BOOLEAN, NEW v \in Nat, After(h, w, v)
  PROVE  handler' \in [Handlers -> Request \cup {None}]
<1>1. handler[h] \in Request BY DEF TicketTypeOK
<1>2. handler[h].ticket \in Tickets /\ handler[h].msg \in Messages BY <1>1 DEF Request
<1>3. [NewRequest(handler[h].ticket, handler[h].msg) EXCEPT !.stage = "applied", !.wrote = w]
        \in Request
  BY <1>2, RequestType
<1>4. [handler[h] EXCEPT !.stage = "applied", !.seen = v, !.wrote = w] \in Request
  BY <1>1 DEF Request
<1> QED BY <1>3, <1>4 DEF After, TicketTypeOK

\* A handler that gives its claim back, or dies, leaves well-typed rows.
LEMMA AbandonType ==
  ASSUME TicketTypeOK, NEW h \in Handlers, Abandon(h)
  PROVE  ticket' \in [Tickets -> TicketRow] /\ handler' \in [Handlers -> Request \cup {None}]
<1>1. ASSUME NEW k \in Tickets PROVE [ticket[k] EXCEPT !.holder = None] \in TicketRow
  BY DEF TicketTypeOK, TicketRow
<1> QED BY <1>1 DEF Abandon, Answer, TicketTypeOK

\* So does one whose message is refused.
LEMMA FailType ==
  ASSUME TicketTypeOK, NEW h \in Handlers, handler[h] # None, Fail(h)
  PROVE  ticket' \in [Tickets -> TicketRow] /\ handler' \in [Handlers -> Request \cup {None}]
<1>1. handler[h] \in Request BY DEF TicketTypeOK
<1>2. /\ handler[h].ticket \in Tickets /\ handler[h].msg \in Messages
      /\ handler[h].wrote \in BOOLEAN
  BY <1>1 DEF Request
<1>3. [NewRequest(handler[h].ticket, handler[h].msg) EXCEPT
         !.stage = "rejected", !.wrote = handler[h].wrote] \in Request
  BY <1>2, RequestType
<1>4. CASE Abandon(h) BY <1>4, AbandonType
<1>5. CASE ~Abandon(h) BY <1>3, <1>5 DEF Fail, TicketTypeOK
<1> QED BY <1>4, <1>5

\* So does one that writes the Ticket back.
LEMMA FinalizeType ==
  ASSUME TicketTypeOK, NEW h \in Handlers, handler[h] # None, NEW row \in TicketRow,
         Finalize(h, row)
  PROVE  ticket' \in [Tickets -> TicketRow] /\ handler' \in [Handlers -> Request \cup {None}]
<1>1. [row EXCEPT !.holder = None, !.lapsed = FALSE] \in TicketRow BY DEF TicketRow
<1>2. handler[h].ticket \in Tickets BY DEF TicketTypeOK, Request
<1> QED BY <1>1, <1>2 DEF Finalize, Answer, TicketTypeOK

(* A command's sequence is a number.                                       *)
LEMMA CommandSequenceType ==
  ASSUME NEW q \in Request
  PROVE  CommandSequence(q) \in Nat
BY TicketConstants DEF CommandSequence, Request, MessageType

(* Storing an event keeps the event table's type.                          *)
LEMMA StoreType ==
  ASSUME TicketTypeOK, NEW q \in Request, NEW s \in Nat, NEW v \in Nat, Store(q, s, v)
  PROVE  event' \in [EventIds -> EventRow \cup {None}]
<1>1. q.msg \in MessageType /\ q.ticket \in Tickets BY TicketConstants DEF Request
<1>2. q.msg.id \in EventIds /\ q.msg.kind \in Kinds /\ RunOf[q.ticket] \in RunIds
  BY <1>1, TicketConstants DEF MessageType
<1>3. [run |-> RunOf[q.ticket], kind |-> q.msg.kind, sequence |-> s, version |-> v] \in EventRow
  BY <1>2 DEF EventRow
<1> QED BY <1>2, <1>3 DEF Store, TicketTypeOK

(* One step keeps the types.                                               *)
LEMMA TypeStep ==
  ASSUME TicketTypeOK, [TicketNext]_ticketVars
  PROVE  TicketTypeOK'
<1> DEFINE Busy(h) == handler[h] # None
<1>t. ASSUME NEW h \in Handlers, Busy(h)
      PROVE  /\ handler[h] \in Request /\ handler[h].ticket \in Tickets
             /\ handler[h].msg \in Messages /\ handler[h].version \in Nat
             /\ handler[h].sequence \in Nat /\ handler[h].base \in Nat /\ handler[h].seen \in Nat
             /\ RunOf[handler[h].ticket] \in RunIds /\ handler[h].msg.id \in EventIds
             /\ ticket[handler[h].ticket] \in TicketRow
             /\ run[RunOf[handler[h].ticket]] \in RunRow
  <2>1. handler[h] \in Request BY <1>t DEF TicketTypeOK
  <2>2. handler[h].msg \in MessageType BY <2>1, TicketConstants DEF Request
  <2> QED BY <2>1, <2>2, TicketConstants DEF TicketTypeOK, Request, MessageType
<1>1. ASSUME NEW k \in Tickets, Issue(k) \/ LeaseLapses(k) \/ Expire(k) PROVE TicketTypeOK'
  <2>1. ticket[k] \in TicketRow BY DEF TicketTypeOK
  <2>2. /\ [ticket[k] EXCEPT !.status = "issued"] \in TicketRow
        /\ [ticket[k] EXCEPT !.lapsed = TRUE] \in TicketRow
        /\ [ticket[k] EXCEPT !.status = "expired", !.holder = None, !.lapsed = FALSE] \in TicketRow
    BY <2>1 DEF TicketRow
  <2>3. ticket' \in [Tickets -> TicketRow]
    BY <1>1, <2>2 DEF Issue, LeaseLapses, Expire, TicketTypeOK
  <2> QED BY <1>1, <2>3 DEF Issue, LeaseLapses, Expire, TicketTypeOK
<1>2. ASSUME NEW r \in RunIds, RunEnds(r) PROVE TicketTypeOK'
  <2>0. run[r] \in RunRow /\ run[r].version + 1 \in Nat /\ run[r].sequence + 1 \in Nat
    BY DEF TicketTypeOK, RunRow
  <2>1. [run[r] EXCEPT !.status = "ended", !.version = run[r].version + 1,
                       !.sequence = run[r].sequence + 1] \in RunRow
    BY <2>0 DEF RunRow
  <2> QED BY <1>2, <2>1 DEF RunEnds, TicketTypeOK
<1>3. ASSUME NEW h \in Handlers, NEW k \in Tickets, NEW m \in Messages, Resolve(h, k, m)
      PROVE  TicketTypeOK'
  <2>1. run[RunOf[k]].sequence \in Nat BY TicketConstants DEF TicketTypeOK, RunRow
  <2>2. /\ NewRequest(k, m) \in Request
        /\ [NewRequest(k, m) EXCEPT !.replay = TRUE, !.base = run[RunOf[k]].sequence] \in Request
    BY <2>1, RequestType
  <2> QED BY <1>3, <2>2 DEF Resolve, TicketTypeOK
<1>4. ASSUME NEW h \in Handlers, NEW k \in Tickets, NEW m \in Messages, NEW p \in BOOLEAN,
             Take(h, k, m, p) \/ Replay(h, k, m, p)
      PROVE  ticket' \in [Tickets -> TicketRow] /\ handler' \in [Handlers -> Request \cup {None}]
  <2>1. handler' \in [Handlers -> Request \cup {None}]
    BY <1>4, AdmitType, AnswerType DEF Take, Replay
  <2>2. [ticket[k] EXCEPT !.status = "claimed", !.holder = IF p THEN h ELSE None, !.lapsed = FALSE]
          \in TicketRow
    BY DEF TicketTypeOK, TicketRow
  <2>3. ticket' \in [Tickets -> TicketRow] BY <1>4, <2>2 DEF Take, Replay, TicketTypeOK
  <2> QED BY <2>1, <2>3
<1>5. ASSUME NEW h \in Handlers, NEW k \in Tickets, NEW m \in Messages, ClaimAdapter(h, k, m)
      PROVE  TicketTypeOK'
  BY <1>4, <1>5 DEF ClaimAdapter, TicketTypeOK
<1>6. ASSUME NEW h \in Handlers, ClaimNative(h) PROVE TicketTypeOK'
  <2> DEFINE k == handler[h].ticket
             m == handler[h].msg
             placed == InPlace(handler[h], ticket[k].version, ticket[k].sequence)
  <2>1. k \in Tickets /\ m \in Messages BY <1>6, <1>t DEF ClaimNative, At
  <2>2. placed \in BOOLEAN /\ (placed /\ ticket[k].consumed.id = m.id) \in BOOLEAN
    BY DEF InPlace
  <2>3. \/ Take(h, k, m, placed) \/ Replay(h, k, m, placed /\ ticket[k].consumed.id = m.id)
        \/ Answer(h) /\ UNCHANGED ticket
    BY <1>6 DEF ClaimNative
  <2>4. ticket' \in [Tickets -> TicketRow] /\ handler' \in [Handlers -> Request \cup {None}]
    <3> HIDE DEF k, m, placed
    <3> QED BY <2>1, <2>2, <2>3, <1>4, AnswerType DEF TicketTypeOK
  <2> QED BY <1>6, <2>4 DEF ClaimNative, TicketTypeOK
<1>7. ASSUME NEW h \in Handlers, Apply(h) PROVE TicketTypeOK'
  <2>0. Busy(h)
    BY <1>7 DEF Apply, ApplyDuplicate, ApplyProgress, ApplyError, ApplyResult, CommitResult,
                ApplyNote, Refused, Applying, At
  <2> DEFINE q == handler[h]
             r == RunOf[q.ticket]
  <2>t. /\ run[r].version \in Nat /\ run[r].sequence \in Nat
        /\ run[r].version + 1 \in Nat /\ run[r].sequence + 1 \in Nat
        /\ q.version + 1 \in Nat /\ q.base + 1 \in Nat
    BY <2>0, <1>t DEF RunRow
  <2>1. CASE ApplyDuplicate(h)
    BY <2>0, <2>1, <2>t, AfterType, AnswerType DEF ApplyDuplicate, TicketTypeOK
  <2>2. CASE ApplyProgress(h)
    <3> DEFINE s == CommandSequence(q)
    <3>1. s \in Nat BY <2>0, <1>t, CommandSequenceType
    <3> HIDE DEF s
    <3>2. [run[r] EXCEPT !.version = run[r].version + 1, !.sequence = s] \in RunRow
      BY <2>0, <2>t, <3>1, <1>t DEF RunRow
    <3>3. run' \in [RunIds -> RunRow]
      BY <2>2, <3>2, <2>0, <1>t DEF ApplyProgress, TicketTypeOK, s
    <3>4. Store(q, s, run[r].version + 1) /\ After(h, TRUE, run[r].version + 1)
      BY <2>2 DEF ApplyProgress, s
    <3>5. event' \in [EventIds -> EventRow \cup {None}]
      BY <3>4, <3>1, <2>0, <2>t, <1>t, StoreType
    <3>6. handler' \in [Handlers -> Request \cup {None}] BY <3>4, <2>0, <2>t, AfterType
    <3> QED BY <2>2, <3>3, <3>5, <3>6 DEF ApplyProgress, TicketTypeOK
  <2>3. CASE ApplyError(h)
    <3>2. [run[r] EXCEPT !.status = "ended", !.version = run[r].version + 1,
                         !.sequence = run[r].sequence + 1, !.terminal = q.msg.id] \in RunRow
      BY <2>0, <2>t, <1>t DEF RunRow
    <3>3. run' \in [RunIds -> RunRow]
      BY <2>3, <3>2, <2>0, <1>t DEF ApplyError, TicketTypeOK
    <3>4. Store(q, run[r].sequence + 1, run[r].version + 1) /\ After(h, TRUE, run[r].version + 1)
      BY <2>3 DEF ApplyError
    <3>5. event' \in [EventIds -> EventRow \cup {None}]
      BY <3>4, <2>0, <2>t, <1>t, StoreType
    <3>6. handler' \in [Handlers -> Request \cup {None}] BY <3>4, <2>0, <2>t, AfterType
    <3> QED BY <2>3, <3>3, <3>5, <3>6 DEF ApplyError, TicketTypeOK
  <2>4. CASE ApplyResult(h)
    <3>1. At(h, "replaying") \in BOOLEAN BY DEF At
    <3>2. [q EXCEPT !.stage = "committing", !.base = run[r].sequence,
                    !.replay = At(h, "replaying")] \in Request
      BY <2>0, <2>t, <3>1, <1>t DEF Request
    <3> QED BY <2>4, <3>2 DEF ApplyResult, TicketTypeOK
  <2>5. CASE CommitResult(h)
    <3>2. [status |-> "completed", version |-> q.version + 1, sequence |-> q.base + 1,
           terminal |-> q.msg.id] \in RunRow
      BY <2>0, <2>t, <1>t DEF RunRow
    <3>3. run' \in [RunIds -> RunRow]
      BY <2>5, <3>2, <2>0, <1>t DEF CommitResult, TicketTypeOK
    <3>4. Store(q, q.base + 1, q.version + 1) /\ (Answer(h) \/ After(h, TRUE, q.version + 1))
      BY <2>5 DEF CommitResult
    <3>5. event' \in [EventIds -> EventRow \cup {None}]
      BY <3>4, <2>0, <2>t, <1>t, StoreType
    <3>6. handler' \in [Handlers -> Request \cup {None}]
      BY <3>4, <2>0, <2>t, AfterType, AnswerType
    <3> QED BY <2>5, <3>3, <3>5, <3>6 DEF CommitResult, TicketTypeOK
  <2>6. CASE ApplyNote(h)
    <3>4. Store(q, 0, 0) /\ After(h, TRUE, 0) BY <2>6 DEF ApplyNote
    <3>5. event' \in [EventIds -> EventRow \cup {None}] BY <3>4, <2>0, <1>t, StoreType
    <3>6. handler' \in [Handlers -> Request \cup {None}] BY <3>4, <2>0, AfterType
    <3> QED BY <2>6, <3>5, <3>6 DEF ApplyNote, TicketTypeOK
  <2>7. CASE Refused(h) BY <2>0, <2>7, FailType DEF Refused, TicketTypeOK
  <2> QED BY <1>7, <2>1, <2>2, <2>3, <2>4, <2>5, <2>6, <2>7 DEF Apply
<1>8. ASSUME NEW h \in Handlers, Finish(h) PROVE TicketTypeOK'
  <2>0. Busy(h)
    BY <1>8 DEF Finish, Consume, ReleaseAfterProgress, ReleaseClaim, ReleaseRejected, Crash, At
  <2> DEFINE q == handler[h]
             row == ticket[q.ticket]
             consumed == [row EXCEPT !.status = "consumed", !.consumed = q.msg]
             issued == [row EXCEPT !.status = "issued"]
             advanced == [row EXCEPT !.status = "issued", !.version = q.seen,
                                     !.sequence = CommandSequence(q)]
  <2>1. consumed \in TicketRow /\ issued \in TicketRow /\ advanced \in TicketRow
    BY <2>0, <1>t, CommandSequenceType DEF TicketRow
  <2>2. \/ Finalize(h, consumed) \/ Finalize(h, issued) \/ Finalize(h, advanced)
        \/ Fail(h) \/ Abandon(h)
    BY <1>8 DEF Finish, Consume, ReleaseAfterProgress, ReleaseClaim, ReleaseRejected, Crash
  <2>3. UNCHANGED <<run, event>>
    BY <1>8 DEF Finish, Consume, ReleaseAfterProgress, ReleaseClaim, ReleaseRejected, Crash
  <2>4. ticket' \in [Tickets -> TicketRow] /\ handler' \in [Handlers -> Request \cup {None}]
    <3> HIDE DEF consumed, issued, advanced
    <3> QED BY <2>0, <2>1, <2>2, FinalizeType, FailType, AbandonType
  <2> QED BY <2>3, <2>4 DEF TicketTypeOK
<1>9. CASE UNCHANGED ticketVars BY <1>9 DEF ticketVars, TicketTypeOK
<1> QED BY <1>1, <1>2, <1>3, <1>5, <1>6, <1>7, <1>8, <1>9 DEF TicketNext

\* The type invariant holds initially.
LEMMA TypeInit ==
  ASSUME TicketInit PROVE TicketTypeOK
BY TicketConstants DEF TicketInit, TicketTypeOK, TicketRow, RunRow

(* Every reachable state of the Ticket store, the Runs, the events and the *)
(* requests in flight is well typed.                                       *)
THEOREM TicketTypeCorrect == TicketSpec => []TicketTypeOK
<1>1. TicketInit => TicketTypeOK BY TypeInit
<1>2. TicketTypeOK /\ [TicketNext]_ticketVars => TicketTypeOK' BY TypeStep
<1> QED BY <1>1, <1>2, PTL DEF TicketSpec

-----------------------------------------------------------------------------
(* Runs and events                                                         *)

(* A stored final event belongs to a Run that is over.                     *)
FinalEventEndsRun ==
  \A i \in EventIds :
    event[i] # None /\ event[i].kind \in Final => run[event[i].run].status # "open"

(* No progress event is ahead of its Run while that is open.               *)
EventsBehind ==
  \A i \in EventIds :
    /\ event[i] # None /\ event[i].kind = "progress"
    /\ run[event[i].run].status = "open"
    => /\ event[i].sequence <= run[event[i].run].sequence
       /\ event[i].version <= run[event[i].run].version

EventInv == FinalEventEndsRun /\ EventsBehind /\ OneEventPerPlace

(* Events are never rewritten, Runs never reopened, and an open Run only   *)
(* moves forward.                                                          *)
Grows ==
  /\ \A i \in EventIds : event[i] # None => event'[i] = event[i]
  /\ \A r \in RunIds : run[r].status # "open" => run'[r].status # "open"
  /\ \A r \in RunIds : run'[r].status = "open" =>
       run'[r].version >= run[r].version /\ run'[r].sequence >= run[r].sequence

(* The ways a step can change Runs and events.                             *)
Wrote(h, kind) ==
  /\ handler[h] # None /\ handler[h].msg.kind = kind /\ event[handler[h].msg.id] = None

Progressed(h) ==
  LET r == RunOf[handler[h].ticket]
      s == CommandSequence(handler[h])
  IN  /\ Wrote(h, "progress") /\ Applying(h) /\ UNCHANGED ticket
      /\ run[r].status = "open" /\ s > run[r].sequence
      /\ handler[h].version = run[r].version
      /\ run' = [run EXCEPT ![r].version = @ + 1, ![r].sequence = s]
      /\ Store(handler[h], s, run[r].version + 1)

Ended(h) ==
  LET r == RunOf[handler[h].ticket]
  IN  /\ Wrote(h, "error") \/ Wrote(h, "result")
      /\ \E row \in RunRow, s, v \in Nat :
           /\ row.status # "open"
           /\ run' = [run EXCEPT ![r] = row]
           /\ Store(handler[h], s, v)

Noted(h) == Wrote(h, "note") /\ UNCHANGED run /\ Store(handler[h], 0, 0)

(* Only a result is committed in a transaction of its own.                 *)
OnlyResultsCommit == \A h \in Handlers : At(h, "committing") => handler[h].msg.kind = "result"

\* Only a message of three kinds, or the end of a Run, changes Runs and events.
LEMMA RunCases ==
  ASSUME TicketTypeOK, OnlyResultsCommit, [TicketNext]_ticketVars
  PROVE  \/ UNCHANGED <<run, event>>
         \/ \E r \in RunIds : RunEnds(r)
         \/ \E h \in Handlers : Progressed(h) \/ Ended(h) \/ Noted(h)
<1>1. ASSUME NEW h \in Handlers, Apply(h)
      PROVE  UNCHANGED <<run, event>> \/ Progressed(h) \/ Ended(h) \/ Noted(h)
  <2>1. CASE ApplyDuplicate(h) \/ ApplyResult(h) \/ Refused(h)
    BY <2>1 DEF ApplyDuplicate, ApplyResult, Refused
  <2>2. CASE ApplyProgress(h)
    BY <2>2 DEF ApplyProgress, Progressed, Wrote, Applying, At, Current
  <2>3. CASE ApplyNote(h) BY <2>3 DEF ApplyNote, Noted, Wrote, Applying, At
  <2> DEFINE q == handler[h]
             r == RunOf[q.ticket]
  <2>4. ASSUME handler[h] # None
        PROVE  /\ run[r] \in RunRow /\ q \in Request /\ q.msg.id \in EventIds
               /\ run[r].version + 1 \in Nat /\ run[r].sequence + 1 \in Nat
               /\ q.version + 1 \in Nat /\ q.base + 1 \in Nat
    <3>1. q \in Request BY <2>4 DEF TicketTypeOK
    <3>2. q.msg \in MessageType BY <3>1, TicketConstants DEF Request
    <3> QED BY <3>1, <3>2, TicketConstants DEF TicketTypeOK, Request, MessageType, RunRow
  <2>5. CASE ApplyError(h)
    <3> DEFINE row == [run[r] EXCEPT !.status = "ended", !.version = run[r].version + 1,
                                     !.sequence = run[r].sequence + 1, !.terminal = q.msg.id]
    <3>1. handler[h] # None BY <2>5 DEF ApplyError, Applying, At
    <3>2. row \in RunRow /\ row.status # "open" BY <2>4, <3>1 DEF RunRow
    <3>3. run' = [run EXCEPT ![r] = row]
      BY <2>5 DEF ApplyError
    <3>4. Store(q, run[r].sequence + 1, run[r].version + 1) /\ Wrote(h, "error")
      BY <2>5, <3>1 DEF ApplyError, Wrote, Current
    <3> HIDE DEF row
    <3>5. Ended(h) BY <2>4, <3>1, <3>2, <3>3, <3>4 DEF Ended
    <3> QED BY <3>5
  <2>6. CASE CommitResult(h)
    <3> DEFINE row == [status |-> "completed", version |-> q.version + 1,
                       sequence |-> q.base + 1, terminal |-> q.msg.id]
    <3>1. handler[h] # None BY <2>6 DEF CommitResult, At
    <3>2. row \in RunRow /\ row.status # "open" BY <2>4, <3>1 DEF RunRow
    <3>3. run' = [run EXCEPT ![r] = row] BY <2>6 DEF CommitResult
    <3>4. Store(q, q.base + 1, q.version + 1) /\ event[q.msg.id] = None
      BY <2>6 DEF CommitResult
    <3> HIDE DEF row
    <3>5. Wrote(h, "result") BY <2>6, <3>1, <3>4 DEF CommitResult, OnlyResultsCommit, Wrote
    <3>6. Ended(h) BY <2>4, <3>1, <3>2, <3>3, <3>4, <3>5 DEF Ended
    <3> QED BY <3>6
  <2> QED BY <1>1, <2>1, <2>2, <2>3, <2>5, <2>6 DEF Apply
<1>2. ASSUME NEW h \in Handlers, Finish(h) PROVE UNCHANGED <<run, event>>
  BY <1>2 DEF Finish, Consume, ReleaseAfterProgress, ReleaseClaim, ReleaseRejected, Crash
<1>3. ASSUME NEW h \in Handlers, ClaimNative(h) PROVE UNCHANGED <<run, event>>
  BY <1>3 DEF ClaimNative
<1>4. ASSUME NEW h \in Handlers, NEW k \in Tickets, NEW m \in Messages,
             Resolve(h, k, m) \/ ClaimAdapter(h, k, m)
      PROVE  UNCHANGED <<run, event>>
  BY <1>4 DEF Resolve, ClaimAdapter
<1>5. ASSUME NEW k \in Tickets, Issue(k) \/ LeaseLapses(k) \/ Expire(k)
      PROVE  UNCHANGED <<run, event>>
  BY <1>5 DEF Issue, LeaseLapses, Expire
<1>6. CASE UNCHANGED ticketVars BY <1>6 DEF ticketVars
<1> QED BY <1>1, <1>2, <1>3, <1>4, <1>5, <1>6 DEF TicketNext

(* The three ways to write an event keep the event invariants.             *)
LEMMA EventStep ==
  ASSUME TicketTypeOK, OnlyResultsCommit, EventInv, [TicketNext]_ticketVars
  PROVE  Grows /\ EventInv'
<1> USE DEF EventInv
<1>1. CASE UNCHANGED <<run, event>>
  <2>1. Grows BY <1>1 DEF Grows, TicketTypeOK, RunRow
  <2> QED BY <1>1, <2>1 DEF FinalEventEndsRun, EventsBehind, OneEventPerPlace
<1>2. ASSUME NEW r \in RunIds, RunEnds(r) PROVE Grows /\ EventInv'
  <2>1. /\ event' = event /\ run'[r].status = "ended"
        /\ \A x \in RunIds \ {r} : run'[x] = run[x]
    BY <1>2 DEF RunEnds, TicketTypeOK, RunRow
  <2>2. \A i \in EventIds : event[i] # None => event[i].run \in RunIds
    BY DEF TicketTypeOK, EventRow
  <2>3. Grows BY <2>1 DEF Grows, TicketTypeOK, RunRow
  <2> QED BY <2>1, <2>2, <2>3 DEF FinalEventEndsRun, EventsBehind, OneEventPerPlace
<1>3. ASSUME NEW h \in Handlers, Progressed(h) \/ Ended(h) \/ Noted(h) PROVE Grows /\ EventInv'
  <2> DEFINE q == handler[h]
             r == RunOf[q.ticket]
             w == q.msg.id
  <2>1. /\ q \in Request /\ r \in RunIds /\ w \in EventIds /\ event[w] = None
        /\ run[r].version \in Nat /\ run[r].sequence \in Nat
    <3>1. q \in Request /\ event[w] = None
      BY <1>3 DEF Progressed, Ended, Noted, Wrote, TicketTypeOK
    <3>2. q.msg \in MessageType BY <3>1, TicketConstants DEF Request
    <3> QED BY <3>1, <3>2, TicketConstants DEF TicketTypeOK, Request, MessageType, RunRow
  <2>2. /\ \A i \in EventIds \ {w} : event'[i] = event[i]
        /\ event'[w].run = r /\ event'[w].kind = q.msg.kind
    <3>1. CommandSequence(q) \in Nat /\ run[r].version + 1 \in Nat
      BY <2>1, CommandSequenceType
    <3>2. \E s, v \in Nat : Store(q, s, v)
      BY <1>3, <3>1 DEF Progressed, Ended, Noted
    <3>3. PICK s \in Nat, v \in Nat : Store(q, s, v) BY <3>2
    <3> QED BY <3>3, <2>1 DEF Store, TicketTypeOK
  <2>3. \A x \in RunIds \ {r} : run'[x] = run[x]
    BY <1>3, <2>1 DEF Progressed, Ended, Noted, TicketTypeOK
  <2>4. \A i \in EventIds : event[i] # None =>
          event[i].run \in RunIds /\ event[i].sequence \in Nat /\ event[i].version \in Nat
    BY DEF TicketTypeOK, EventRow
  <2>5. \A x \in RunIds : run[x].version \in Nat /\ run[x].sequence \in Nat
    BY DEF TicketTypeOK, RunRow
  <2>6. CASE Progressed(h)
    <3> DEFINE s == CommandSequence(q)
    <3>0. s \in Nat BY <2>1, CommandSequenceType
    <3>1. /\ run[r].status = "open" /\ run'[r].status = "open" /\ s > run[r].sequence
          /\ run'[r].version = run[r].version + 1 /\ run'[r].sequence = s
          /\ event'[w].sequence = s /\ event'[w].version = run[r].version + 1
          /\ event'[w].kind = "progress"
      BY <2>6, <2>1 DEF Progressed, Store, Wrote, TicketTypeOK, RunRow
    <3> HIDE DEF s, q, r, w
    <3>2. Grows BY <2>1, <2>2, <2>3, <2>5, <3>0, <3>1 DEF Grows
    <3>3. FinalEventEndsRun'
      BY <2>1, <2>2, <2>3, <2>4, <3>1 DEF FinalEventEndsRun, Final
    <3>4. EventsBehind'
      BY <2>1, <2>2, <2>3, <2>4, <2>5, <3>0, <3>1 DEF EventsBehind
    <3>5. \A i \in EventIds : event[i] # None /\ event[i].kind = "progress" /\ event[i].run = r
            => event[i].sequence < s /\ event[i].version < run[r].version + 1
      BY <2>1, <2>4, <2>5, <3>0, <3>1 DEF EventsBehind
    <3>6. OneEventPerPlace'
      BY <2>1, <2>2, <2>4, <2>5, <3>0, <3>1, <3>5 DEF OneEventPerPlace
    <3> QED BY <3>2, <3>3, <3>4, <3>6
  <2>7. CASE Ended(h)
    <3>1. run'[r].status # "open" /\ event'[w].kind \in Final
      BY <2>1, <2>2, <2>7 DEF Ended, Wrote, Final, TicketTypeOK
    <3> HIDE DEF q, r, w
    <3>2. Grows BY <2>1, <2>2, <2>3, <2>5, <3>1 DEF Grows
    <3>3. FinalEventEndsRun'
      BY <2>1, <2>2, <2>3, <2>4, <3>1 DEF FinalEventEndsRun
    <3>4. EventsBehind'
      BY <2>1, <2>2, <2>3, <2>4, <2>5, <3>1 DEF EventsBehind
    <3>6. OneEventPerPlace'
      BY <2>1, <2>2, <2>4, <3>1 DEF OneEventPerPlace, Final
    <3> QED BY <3>2, <3>3, <3>4, <3>6
  <2>8. CASE Noted(h)
    <3>1. run' = run /\ event'[w].kind = "note"
      BY <2>1, <2>2, <2>8 DEF Noted, Wrote
    <3> HIDE DEF q, r, w
    <3>2. Grows BY <2>1, <2>2, <2>5, <3>1 DEF Grows
    <3>3. FinalEventEndsRun' BY <2>1, <2>2, <2>4, <3>1 DEF FinalEventEndsRun, Final
    <3>4. EventsBehind' BY <2>1, <2>2, <2>4, <3>1 DEF EventsBehind
    <3>6. OneEventPerPlace' BY <2>1, <2>2, <2>4, <3>1 DEF OneEventPerPlace
    <3> QED BY <3>2, <3>3, <3>4, <3>6
  <2> QED BY <1>3, <2>6, <2>7, <2>8
<1> QED BY <1>1, <1>2, <1>3, RunCases

-----------------------------------------------------------------------------
(* Requests and their claims                                               *)

(* The request that holds a Ticket's lease works on that Ticket.           *)
HolderIsBusy ==
  \A k \in Tickets, h \in Handlers : ticket[k].holder = h =>
    /\ handler[h] # None
    /\ handler[h].ticket = k
    /\ handler[h].stage \in {"claimed", "committing", "applied", "rejected"}
    /\ ~handler[h].replay

Advancing(h) ==
  At(h, "claimed") \/ (At(h, "applied") /\ handler[h].msg.kind = "progress")

(* While a request holds its claim, the cursor stays where it read it.     *)
HeldCursor ==
  \A h \in Handlers : Advancing(h) /\ ticket[handler[h].ticket].holder = h =>
    /\ handler[h].version = ticket[handler[h].ticket].version
    /\ handler[h].sequence = ticket[handler[h].ticket].sequence

(* A request whose final event or note is applied has it on record.        *)
AppliedIsStored ==
  \A h \in Handlers : At(h, "applied") /\ handler[h].msg.kind # "progress" =>
    Recorded(handler[h].ticket, handler[h].msg)

(* An applied progress event is not ahead of its Run.                      *)
AppliedBehind ==
  \A h \in Handlers :
    /\ At(h, "applied") /\ handler[h].msg.kind = "progress"
    /\ run[RunOf[handler[h].ticket]].status = "open"
    => /\ handler[h].seen <= run[RunOf[handler[h].ticket]].version
       /\ CommandSequence(handler[h]) <= run[RunOf[handler[h].ticket]].sequence

RequestInv == OnlyResultsCommit /\ HolderIsBusy /\ HeldCursor /\ AppliedIsStored /\ AppliedBehind

TicketInv ==
  TicketTypeOK /\ EventInv /\ RequestInv /\ ConsumedByStoredEvent /\ CursorNotAhead

(* The ways a step can change Tickets and requests.                        *)
Elsewhere ==
  /\ handler' = handler
  /\ ticket' = ticket \/ \E k \in Tickets : Issue(k) \/ LeaseLapses(k) \/ Expire(k)

Starts(h) ==
  /\ handler[h] = None /\ UNCHANGED ticket
  /\ \E q \in Request :
       /\ q.stage = "resolved" /\ handler' = [handler EXCEPT ![h] = q]
       /\ ticket[q.ticket].status # "absent"
       /\ q.replay => q.msg.kind \in Final

(* A native request that goes on is in its place.                          *)
Placed(h, k, m) ==
  m.via = "native" =>
    /\ At(h, "resolved") /\ handler[h].msg = m
    /\ InPlace(handler[h], ticket[k].version, ticket[k].sequence)

Claims(h) ==
  /\ handler[h] = None \/ At(h, "resolved")
  /\ \E k \in Tickets, m \in Messages, p \in BOOLEAN :
       /\ p => Placed(h, k, m)
       /\ Take(h, k, m, p) \/ Replay(h, k, m, p) \/ (Answer(h) /\ UNCHANGED ticket)

Commits(h) ==
  /\ Applying(h) /\ handler[h].msg.kind = "result" /\ UNCHANGED ticket
  /\ handler' = [handler EXCEPT ![h].stage = "committing",
                                ![h].base = run[RunOf[handler[h].ticket]].sequence,
                                ![h].replay = At(h, "replaying")]

(* (q.ticket and q.msg are taken before the step)                          *)
RecordedNow(q) ==
  \A k \in Tickets, m \in Messages : k = q.ticket /\ m = q.msg => Recorded(k, m)'

Applies(h) ==
  LET q == handler[h]
      r == RunOf[q.ticket]
  IN  /\ Applying(h) \/ (At(h, "committing") /\ ~q.replay)
      /\ UNCHANGED ticket
      /\ \E w \in BOOLEAN, v \in Nat :
           /\ After(h, w, v)
           /\ IF q.msg.kind # "progress" THEN RecordedNow(q)
              ELSE run'[r].status = "open" =>
                     v <= run'[r].version /\ CommandSequence(q) <= run'[r].sequence

Answers(h) == handler[h] # None /\ handler[h].replay /\ Answer(h) /\ UNCHANGED ticket

Fails(h) == handler[h] # None /\ Fail(h)

Leaves(h) == handler[h] # None /\ Abandon(h)

Finishes(h) ==
  LET q == handler[h]
      row == ticket[q.ticket]
  IN  /\ At(h, "applied") \/ At(h, "rejected")
      /\ \/ Finalize(h, [row EXCEPT !.status = "issued"])
         \/ /\ At(h, "applied") /\ q.msg.kind # "progress"
            /\ Finalize(h, [row EXCEPT !.status = "consumed", !.consumed = q.msg])
         \/ /\ At(h, "applied") /\ q.msg.kind = "progress" /\ Advances(q)
            /\ Finalize(h, [row EXCEPT !.status = "issued", !.version = q.seen,
                                       !.sequence = CommandSequence(q)])

(* What is known of a request that is at work.                             *)
LEMMA BusyType ==
  ASSUME TicketTypeOK, NEW h \in Handlers, handler[h] # None
  PROVE  /\ handler[h] \in Request /\ handler[h].ticket \in Tickets
         /\ handler[h].msg \in Messages /\ handler[h].msg.id \in EventIds
         /\ handler[h].msg.kind \in Kinds
         /\ handler[h].version \in Nat /\ handler[h].sequence \in Nat
         /\ handler[h].base \in Nat /\ handler[h].seen \in Nat
         /\ CommandSequence(handler[h]) \in Nat
         /\ RunOf[handler[h].ticket] \in RunIds
<1>1. handler[h] \in Request BY DEF TicketTypeOK
<1>2. handler[h].msg \in MessageType BY <1>1, TicketConstants DEF Request
<1> QED BY <1>1, <1>2, TicketConstants, CommandSequenceType DEF Request, MessageType

(* Whatever applies an event leaves the Run or the event table so that the *)
(* request may go on.                                                      *)
LEMMA ApplyCases ==
  ASSUME TicketTypeOK, OnlyResultsCommit, EventInv, NEW h \in Handlers, Apply(h)
  PROVE  Commits(h) \/ Applies(h) \/ Answers(h) \/ Fails(h)
<1> DEFINE q == handler[h]
           r == RunOf[q.ticket]
<1>0. handler[h] # None
  BY DEF Apply, ApplyDuplicate, ApplyProgress, ApplyError, ApplyResult, CommitResult, ApplyNote,
         Refused, Applying, At
<1>t. /\ q \in Request /\ q.ticket \in Tickets /\ r \in RunIds /\ q.msg.id \in EventIds
      /\ q.msg.kind \in Kinds /\ CommandSequence(q) \in Nat
      /\ run[r].version \in Nat /\ run[r].version + 1 \in Nat /\ q.version + 1 \in Nat
      /\ q.msg \in Messages
  BY <1>0, BusyType DEF TicketTypeOK, RunRow
<1>1. CASE ApplyDuplicate(h)
  <2>1. CASE q.replay BY <1>0, <1>1, <2>1 DEF ApplyDuplicate, Answers
  <2>2. CASE ~q.replay
    <3>1. /\ After(h, FALSE, run[r].version) /\ SameEvent(q) /\ UNCHANGED <<ticket, run, event>>
          /\ Applying(h) \/ At(h, "committing")
      BY <1>1, <2>2 DEF ApplyDuplicate
    <3>2. CASE q.msg.kind = "progress"
      <4>1. /\ event[q.msg.id] # None /\ event[q.msg.id].run = r
            /\ event[q.msg.id].kind = "progress" /\ event[q.msg.id].sequence = CommandSequence(q)
        BY <3>1, <3>2 DEF SameEvent
      <4>2. run[r].status = "open" => CommandSequence(q) <= run[r].sequence
        <5> HIDE DEF q, r
        <5> QED BY <1>t, <4>1 DEF EventInv, EventsBehind
      <4>3. run'[r].status = "open" =>
              run[r].version <= run'[r].version /\ CommandSequence(q) <= run'[r].sequence
        BY <3>1, <4>2, <1>t
      <4> QED BY <3>1, <3>2, <4>3, <2>2, <1>t DEF Applies
    <3>3. CASE q.msg.kind # "progress"
      <4>1. Recorded(q.ticket, q.msg)
        BY <3>1, <3>3, <1>t DEF SameEvent, Recorded, EventInv, FinalEventEndsRun, Kinds, Final
      <4>2. RecordedNow(q) BY <3>1, <4>1 DEF RecordedNow, Recorded
      <4> QED BY <3>1, <3>3, <4>2, <2>2, <1>t DEF Applies
    <3> QED BY <3>2, <3>3
  <2> QED BY <2>1, <2>2
<1>2. CASE ApplyProgress(h)
  <2>1. /\ After(h, TRUE, run[r].version + 1) /\ UNCHANGED ticket
        /\ Applying(h) /\ q.msg.kind = "progress"
    BY <1>2 DEF ApplyProgress
  <2>2. run'[r].version = run[r].version + 1 /\ run'[r].sequence = CommandSequence(q)
    BY <1>2, <1>t DEF ApplyProgress, TicketTypeOK, RunRow
  <2>3. run[r].version + 1 <= run'[r].version /\ CommandSequence(q) <= run'[r].sequence
    BY <2>2, <1>t
  <2> QED BY <2>1, <2>3, <1>t DEF Applies
<1>3. CASE ApplyError(h)
  <2>1. /\ After(h, TRUE, run[r].version + 1) /\ UNCHANGED ticket
        /\ Applying(h) /\ q.msg.kind = "error"
    BY <1>3 DEF ApplyError
  <2>2. run'[r].status = "ended" BY <1>3, <1>t DEF ApplyError, TicketTypeOK, RunRow
  <2>3. event'[q.msg.id] = [run |-> r, kind |-> q.msg.kind, sequence |-> run[r].sequence + 1,
                            version |-> run[r].version + 1]
    BY <1>3, <1>t DEF ApplyError, Store, TicketTypeOK
  <2>4. run[r].sequence + 1 \in Nat BY <1>t DEF TicketTypeOK, RunRow
  <2>5. event'[q.msg.id] # None BY <2>3, <2>4, <1>t, NoneIsNoRow DEF EventRow
  <2>6. RecordedNow(q) BY <2>1, <2>2, <2>3, <2>5 DEF RecordedNow, Recorded, Final
  <2> QED BY <2>1, <2>6, <1>t DEF Applies
<1>4. CASE ApplyResult(h) BY <1>4 DEF ApplyResult, Commits
<1>5. CASE CommitResult(h)
  <2>1. At(h, "committing") /\ q.msg.kind = "result" /\ UNCHANGED ticket
    BY <1>5 DEF CommitResult, OnlyResultsCommit
  <2>2. run'[r].status = "completed" BY <1>5, <1>t DEF CommitResult, TicketTypeOK, RunRow
  <2>3. event'[q.msg.id] = [run |-> r, kind |-> q.msg.kind, sequence |-> q.base + 1,
                            version |-> q.version + 1]
    BY <1>5, <1>t DEF CommitResult, Store, TicketTypeOK
  <2>4. q.base + 1 \in Nat BY <1>0, BusyType
  <2>5. event'[q.msg.id] # None BY <2>3, <2>4, <1>t, NoneIsNoRow DEF EventRow
  <2>6. RecordedNow(q) BY <2>1, <2>2, <2>3, <2>5 DEF RecordedNow, Recorded, Final
  <2>7. CASE q.replay BY <1>0, <1>5, <2>1, <2>7 DEF CommitResult, Answers
  <2>8. CASE ~q.replay
    <3>1. After(h, TRUE, q.version + 1) BY <1>5, <2>8 DEF CommitResult
    <3> QED BY <2>1, <2>6, <2>8, <3>1, <1>t DEF Applies
  <2> QED BY <2>7, <2>8
<1>6. CASE ApplyNote(h)
  <2>1. After(h, TRUE, 0) /\ Applying(h) /\ q.msg.kind = "note" /\ UNCHANGED ticket
    BY <1>6 DEF ApplyNote
  <2>2. event'[q.msg.id] = [run |-> r, kind |-> q.msg.kind, sequence |-> 0, version |-> 0]
    BY <1>6, <1>t DEF ApplyNote, Store, TicketTypeOK
  <2>3. event'[q.msg.id] # None BY <2>2, <1>t, NoneIsNoRow DEF EventRow
  <2>4. RecordedNow(q) BY <2>1, <2>3 DEF RecordedNow, Recorded
  <2> QED BY <2>1, <2>4, <1>t DEF Applies
<1>7. CASE Refused(h) BY <1>0, <1>7 DEF Refused, Fails
<1> QED BY <1>1, <1>2, <1>3, <1>4, <1>5, <1>6, <1>7 DEF Apply

\* The last step of a request writes the Ticket, fails or is abandoned.
LEMMA FinishCases ==
  ASSUME NEW h \in Handlers, Finish(h)
  PROVE  Finishes(h) \/ Fails(h) \/ Leaves(h)
<1>1. handler[h] # None
  BY DEF Finish, Consume, ReleaseAfterProgress, ReleaseClaim, ReleaseRejected, Crash, At
<1>2. CASE Consume(h) BY <1>1, <1>2 DEF Consume, Finishes, Fails, Leaves
<1>3. CASE ReleaseAfterProgress(h) BY <1>1, <1>3 DEF ReleaseAfterProgress, Finishes, Fails, Leaves
<1>4. CASE ReleaseClaim(h) BY <1>1, <1>4 DEF ReleaseClaim, Finishes, Fails, Leaves
<1>5. CASE ReleaseRejected(h) BY <1>1, <1>5 DEF ReleaseRejected, Finishes, Fails, Leaves
<1>6. CASE Crash(h) BY <1>1, <1>6 DEF Crash, Leaves
<1> QED BY <1>2, <1>3, <1>4, <1>5, <1>6 DEF Finish

\* The two routes claim Tickets in the same way.
LEMMA ClaimCases ==
  ASSUME TicketTypeOK, NEW h \in Handlers,
         ClaimNative(h) \/ \E k \in Tickets, m \in Messages : ClaimAdapter(h, k, m)
  PROVE  Claims(h)
<1>1. ASSUME NEW k \in Tickets, NEW m \in Messages, ClaimAdapter(h, k, m) PROVE Claims(h)
  <2>1. TRUE \in BOOLEAN /\ Placed(h, k, m) /\ (handler[h] = None)
    BY <1>1 DEF ClaimAdapter, Placed
  <2>2. Take(h, k, m, TRUE) \/ Replay(h, k, m, TRUE)
    BY <1>1 DEF ClaimAdapter
  <2> QED BY <2>1, <2>2 DEF Claims
<1>2. CASE ClaimNative(h)
  <2> DEFINE k == handler[h].ticket
             m == handler[h].msg
             placed == InPlace(handler[h], ticket[k].version, ticket[k].sequence)
             same == placed /\ ticket[k].consumed.id = m.id
  <2>1. At(h, "resolved") /\ handler[h] # None BY <1>2 DEF ClaimNative, At
  <2>2. k \in Tickets /\ m \in Messages BY <2>1, BusyType
  <2>3. placed \in BOOLEAN /\ same \in BOOLEAN BY DEF InPlace
  <2>4. Take(h, k, m, placed) \/ Replay(h, k, m, same) \/ (Answer(h) /\ UNCHANGED ticket)
    BY <1>2 DEF ClaimNative
  <2>5. placed => Placed(h, k, m) BY <2>1 DEF Placed
  <2> HIDE DEF k, m
  <2>6. same => placed OBVIOUS
  <2> HIDE DEF placed, same
  <2>7. (Answer(h) /\ UNCHANGED ticket) => Claims(h)
    <3>1. FALSE \in BOOLEAN OBVIOUS
    <3> QED BY <2>1, <2>2, <3>1 DEF Claims
  <2>8. Take(h, k, m, placed) => Claims(h) BY <2>1, <2>2, <2>3, <2>5 DEF Claims
  <2>9. Replay(h, k, m, same) => Claims(h) BY <2>1, <2>2, <2>3, <2>5, <2>6 DEF Claims
  <2> QED BY <2>4, <2>7, <2>8, <2>9
<1> QED BY <1>1, <1>2

\* A resolved request is a new one and claims nothing.
LEMMA StartCases ==
  ASSUME TicketTypeOK, NEW h \in Handlers, NEW k \in Tickets, NEW m \in Messages, Resolve(h, k, m)
  PROVE  Starts(h)
<1> DEFINE new == NewRequest(k, m)
           again == [NewRequest(k, m) EXCEPT !.replay = TRUE, !.base = run[RunOf[k]].sequence]
<1>1. run[RunOf[k]].sequence \in Nat BY TicketConstants DEF TicketTypeOK, RunRow
<1>2. new \in Request /\ again \in Request BY <1>1, RequestType
<1>3. /\ new.stage = "resolved" /\ again.stage = "resolved" /\ new.ticket = k /\ again.ticket = k
      /\ again.msg = m /\ ~new.replay
  BY DEF NewRequest
<1> HIDE DEF new, again
<1>4. /\ handler[h] = None /\ UNCHANGED ticket /\ ticket[k].status # "absent"
      /\ \/ handler' = [handler EXCEPT ![h] = new]
         \/ m.kind \in Final /\ handler' = [handler EXCEPT ![h] = again]
  BY DEF Resolve, new, again
<1> QED BY <1>2, <1>3, <1>4 DEF Starts

(* Every step is one of these cases.                                       *)
LEMMA RequestCases ==
  ASSUME TicketTypeOK, OnlyResultsCommit, EventInv, [TicketNext]_ticketVars
  PROVE  \/ Elsewhere
         \/ \E h \in Handlers : \/ Starts(h) \/ Claims(h) \/ Commits(h) \/ Applies(h) \/ Answers(h)
                                \/ Fails(h) \/ Leaves(h) \/ Finishes(h)
<1>1. ASSUME NEW k \in Tickets, Issue(k) \/ LeaseLapses(k) \/ Expire(k) PROVE Elsewhere
  BY <1>1 DEF Elsewhere, Issue, LeaseLapses, Expire
<1>2. ASSUME NEW r \in RunIds, RunEnds(r) PROVE Elsewhere BY <1>2 DEF Elsewhere, RunEnds
<1>3. CASE UNCHANGED ticketVars BY <1>3 DEF ticketVars, Elsewhere
<1> QED BY <1>1, <1>2, <1>3, StartCases, ClaimCases, ApplyCases, FinishCases DEF TicketNext

-----------------------------------------------------------------------------
(* What each case does to the request and to its Ticket                    *)

(* Other requests are left alone.                                          *)
Others(h) == \A g \in Handlers \ {h} : handler'[g] = handler[g]

\* What the start of a request changes.
LEMMA StartsEffect ==
  ASSUME TicketTypeOK, NEW h \in Handlers, Starts(h)
  PROVE  Others(h) /\ handler[h] = None /\ handler'[h].stage = "resolved" /\ ticket' = ticket
BY DEF Starts, Others, TicketTypeOK

(* The request that enters a new stage.                                    *)
Entered(h, k, m, stage) ==
  /\ handler'[h] # None
  /\ handler'[h].stage = stage /\ handler'[h].ticket = k /\ handler'[h].msg = m
  /\ ~handler'[h].replay

\* What a claim changes: the Ticket has a holder only if its request goes on.
LEMMA ClaimsEffect ==
  ASSUME TicketTypeOK, NEW h \in Handlers, Claims(h)
  PROVE  /\ Others(h)
         /\ handler[h] = None \/ handler[h].stage = "resolved"
         /\ \/ handler'[h] = None /\ ticket' = ticket
            \/ /\ \E k \in Tickets, m \in Messages :
                    Entered(h, k, m, "replaying") /\ ticket[k].status = "consumed"
               /\ ticket' = ticket
            \/ \E k \in Tickets :
                 /\ ticket[k].status \in {"issued", "claimed"}
                 /\ \A j \in Tickets \ {k} : ticket'[j] = ticket[j]
                 /\ ticket'[k].version = ticket[k].version
                 /\ ticket'[k].sequence = ticket[k].sequence
                 /\ ticket'[k].status = "claimed"
                 /\ ticket'[k].consumed = ticket[k].consumed
                 /\ \/ handler'[h] = None /\ ticket'[k].holder = None
                    \/ /\ \E m \in Messages : Entered(h, k, m, "claimed")
                       /\ ticket'[k].holder = h
                       /\ handler'[h].version = ticket[k].version
                       /\ handler'[h].sequence = ticket[k].sequence
<1>1. Others(h) BY DEF Claims, Take, Replay, Admit, Answer, Others, TicketTypeOK
<1>2. handler[h] = None \/ handler[h].stage = "resolved" BY DEF Claims, At
<1>3. PICK k \in Tickets, m \in Messages, p \in BOOLEAN :
        Take(h, k, m, p) \/ Replay(h, k, m, p) \/ (Answer(h) /\ UNCHANGED ticket)
  BY DEF Claims
<1>4. ASSUME NEW s \in {"claimed", "replaying"}, Admit(h, k, m, s)
      PROVE  /\ Entered(h, k, m, s)
             /\ handler'[h].version = ticket[k].version /\ handler'[h].sequence = ticket[k].sequence
  <2> DEFINE q == [NewRequest(k, m) EXCEPT !.stage = s, !.version = ticket[k].version,
                                           !.sequence = ticket[k].sequence]
  <2>1. ticket[k].version \in Nat /\ ticket[k].sequence \in Nat BY DEF TicketTypeOK, TicketRow
  <2>2. q \in Request BY <2>1, RequestType, Zenon
  <2>3. handler'[h] = q BY <1>4 DEF Admit, TicketTypeOK
  <2>4. /\ q.stage = s /\ q.ticket = k /\ q.msg = m /\ q.replay = FALSE
        /\ q.version = ticket[k].version /\ q.sequence = ticket[k].sequence
    BY DEF NewRequest
  <2> QED BY <2>2, <2>3, <2>4, NoneIsNoRow DEF Entered
<1>5. ASSUME Answer(h) PROVE handler'[h] = None BY <1>5 DEF Answer, TicketTypeOK
<1>6. CASE Take(h, k, m, p)
  <2>1. /\ ticket[k].status \in {"issued", "claimed"}
        /\ \A j \in Tickets \ {k} : ticket'[j] = ticket[j]
        /\ ticket'[k].version = ticket[k].version
        /\ ticket'[k].sequence = ticket[k].sequence
        /\ ticket'[k].status = "claimed"
        /\ ticket'[k].consumed = ticket[k].consumed
        /\ ticket'[k].holder = IF p THEN h ELSE None
    BY <1>6 DEF Take, Claimable, TicketTypeOK, TicketRow
  <2>2. CASE p
    <3>1. Admit(h, k, m, "claimed") BY <1>6, <2>2 DEF Take
    <3> QED BY <3>1, <2>1, <2>2, <1>1, <1>2, <1>4
  <2>3. CASE ~p
    <3>1. Answer(h) BY <1>6, <2>3 DEF Take
    <3> QED BY <3>1, <2>1, <2>3, <1>1, <1>2, <1>5
  <2> QED BY <2>2, <2>3
<1>7. CASE Replay(h, k, m, p)
  <2>1. /\ ticket' = ticket /\ ticket[k].status = "consumed"
        /\ Admit(h, k, m, "replaying") \/ Answer(h)
    BY <1>7 DEF Replay
  <2> QED BY <2>1, <1>1, <1>2, <1>4, <1>5
<1>8. CASE Answer(h) /\ UNCHANGED ticket BY <1>1, <1>2, <1>5, <1>8
<1> QED BY <1>3, <1>6, <1>7, <1>8

\* What the first commit of a result changes.
LEMMA CommitsEffect ==
  ASSUME TicketTypeOK, NEW h \in Handlers, Commits(h)
  PROVE  /\ Others(h) /\ ticket' = ticket
         /\ handler[h] # None /\ handler[h].stage \in {"claimed", "replaying"}
         /\ handler'[h] # None
         /\ handler'[h].stage = "committing" /\ handler'[h].ticket = handler[h].ticket
         /\ handler'[h].msg = handler[h].msg /\ handler'[h].msg.kind = "result"
         /\ handler[h].stage = "claimed" => ~handler'[h].replay
<1> DEFINE q == handler[h]
           b == run[RunOf[q.ticket]].sequence
           new == [q EXCEPT !.stage = "committing", !.base = b, !.replay = At(h, "replaying")]
<1>1. Others(h) /\ ticket' = ticket BY DEF Commits, Others, TicketTypeOK
<1>2. q # None /\ q.stage \in {"claimed", "replaying"} /\ q.msg.kind = "result"
  BY DEF Commits, Applying, At
<1>3. q \in Request /\ b \in Nat BY <1>2, BusyType DEF TicketTypeOK, RunRow
<1>4. At(h, "replaying") \in BOOLEAN BY DEF At
<1>5. new \in Request BY <1>3, <1>4 DEF Request
<1>6. handler'[h] = new BY DEF Commits, TicketTypeOK
<1>7. /\ new.stage = "committing" /\ new.ticket = q.ticket /\ new.msg = q.msg
      /\ new.replay = At(h, "replaying")
  BY <1>3, <1>4 DEF Request
<1>8. q.stage = "claimed" => ~At(h, "replaying") BY DEF At
<1> HIDE DEF q, b, new
<1> QED BY <1>1, <1>2, <1>5, <1>6, <1>7, <1>8, NoneIsNoRow DEF q

\* What the application of a message changes: the request knows what was stored.
LEMMA AppliesEffect ==
  ASSUME TicketTypeOK, NEW h \in Handlers, Applies(h)
  PROVE  /\ Others(h) /\ ticket' = ticket
         /\ handler[h] # None /\ handler[h].stage \in {"claimed", "replaying", "committing"}
         /\ \/ handler'[h] = None /\ handler[h].stage = "replaying"
            \/ /\ handler'[h] # None /\ handler'[h].stage = "applied"
               /\ handler[h].stage # "replaying"
               /\ handler'[h].ticket = handler[h].ticket /\ handler'[h].msg = handler[h].msg
               /\ ~handler[h].replay => ~handler'[h].replay
               /\ handler[h].msg.kind # "progress" => RecordedNow(handler[h])
               /\ handler[h].msg.kind = "progress" =>
                    /\ handler'[h].version = handler[h].version
                    /\ handler'[h].sequence = handler[h].sequence
                    /\ run'[RunOf[handler[h].ticket]].status = "open" =>
                         /\ handler'[h].seen <= run'[RunOf[handler[h].ticket]].version
                         /\ CommandSequence(handler[h]) <= run'[RunOf[handler[h].ticket]].sequence
<1> DEFINE q == handler[h]
           r == RunOf[q.ticket]
<1>0. q # None /\ q.stage \in {"claimed", "replaying", "committing"} /\ ticket' = ticket
  BY DEF Applies, Applying, At
<1>1. PICK w \in BOOLEAN, v \in Nat :
        /\ After(h, w, v)
        /\ IF q.msg.kind # "progress" THEN RecordedNow(q)
           ELSE run'[r].status = "open" =>
                  v <= run'[r].version /\ CommandSequence(q) <= run'[r].sequence
  BY DEF Applies
<1>2. Others(h) BY <1>1 DEF After, Others, TicketTypeOK
<1>3. q \in Request /\ q.ticket \in Tickets /\ q.msg \in Messages BY <1>0, BusyType
<1>4. CASE q.stage = "replaying"
  <2>1. handler'[h] = None BY <1>0, <1>1, <1>4 DEF After, At, TicketTypeOK
  <2> QED BY <1>0, <1>2, <1>4, <2>1
<1>5. CASE q.stage # "replaying" /\ q.msg.kind = "progress"
  <2> DEFINE new == [q EXCEPT !.stage = "applied", !.seen = v, !.wrote = w]
  <2>1. handler'[h] = new BY <1>0, <1>1, <1>5 DEF After, At, TicketTypeOK
  <2>2. new \in Request BY <1>3 DEF Request
  <2>3. /\ new.stage = "applied" /\ new.seen = v /\ new.ticket = q.ticket /\ new.msg = q.msg
        /\ new.replay = q.replay /\ new.version = q.version /\ new.sequence = q.sequence
    BY <1>3 DEF Request
  <2> HIDE DEF new
  <2> QED BY <1>0, <1>1, <1>2, <1>5, <2>1, <2>2, <2>3, NoneIsNoRow
<1>6. CASE q.stage # "replaying" /\ q.msg.kind # "progress"
  <2> DEFINE new == [NewRequest(q.ticket, q.msg) EXCEPT !.stage = "applied", !.wrote = w]
  <2>1. handler'[h] = new BY <1>0, <1>1, <1>6 DEF After, At, TicketTypeOK
  <2>2. new \in Request BY <1>3, RequestType
  <2>3. /\ new.stage = "applied" /\ new.ticket = q.ticket /\ new.msg = q.msg
        /\ new.replay = FALSE
    BY DEF NewRequest
  <2> HIDE DEF new
  <2> QED BY <1>0, <1>1, <1>2, <1>6, <2>1, <2>2, <2>3, NoneIsNoRow
<1> QED BY <1>4, <1>5, <1>6

(* A request lets go of its claim and a Ticket loses no other field.       *)
Unheld(h) ==
  \A k \in Tickets :
    /\ ticket'[k].status = ticket[k].status /\ ticket'[k].version = ticket[k].version
    /\ ticket'[k].sequence = ticket[k].sequence /\ ticket'[k].consumed = ticket[k].consumed
    /\ ticket'[k].holder = IF ticket[k].holder = h THEN None ELSE ticket[k].holder

\* A handler that leaves holds no Ticket.
LEMMA LeavesEffect ==
  ASSUME TicketTypeOK, NEW h \in Handlers, Leaves(h)
  PROVE  Others(h) /\ Unheld(h) /\ handler'[h] = None
<1>1. Others(h) /\ handler'[h] = None BY DEF Leaves, Abandon, Answer, Others, TicketTypeOK
<1>2. ASSUME NEW k \in Tickets
      PROVE  /\ ticket'[k].status = ticket[k].status /\ ticket'[k].version = ticket[k].version
             /\ ticket'[k].sequence = ticket[k].sequence
             /\ ticket'[k].consumed = ticket[k].consumed
             /\ ticket'[k].holder = IF ticket[k].holder = h THEN None ELSE ticket[k].holder
  BY DEF Leaves, Abandon, TicketTypeOK, TicketRow
<1> QED BY <1>1, <1>2 DEF Unheld

\* A handler whose message is refused leaves, or is rejected with its Ticket untouched.
LEMMA FailsEffect ==
  ASSUME TicketTypeOK, NEW h \in Handlers, Fails(h)
  PROVE  /\ Others(h) /\ handler[h] # None
         /\ \/ Unheld(h) /\ handler'[h] = None
            \/ Entered(h, handler[h].ticket, handler[h].msg, "rejected") /\ ticket' = ticket
<1>0. handler[h] # None /\ Fail(h) BY DEF Fails
<1>1. CASE Abandon(h) BY <1>0, <1>1, LeavesEffect DEF Leaves
<1>2. CASE ~Abandon(h)
  <2> DEFINE q == handler[h]
             new == [NewRequest(q.ticket, q.msg) EXCEPT !.stage = "rejected", !.wrote = q.wrote]
  <2>1. handler' = [handler EXCEPT ![h] = new] /\ ticket' = ticket BY <1>0, <1>2 DEF Fail
  <2>2. q \in Request /\ q.ticket \in Tickets /\ q.msg \in Messages BY <1>0, BusyType
  <2>3. q.wrote \in BOOLEAN BY <2>2 DEF Request
  <2>4. new \in Request BY <2>2, <2>3, RequestType
  <2>5. new.stage = "rejected" /\ new.ticket = q.ticket /\ new.msg = q.msg /\ new.replay = FALSE
    BY DEF NewRequest
  <2> HIDE DEF new
  <2>6. handler'[h] = new /\ Others(h) BY <2>1 DEF Others, TicketTypeOK
  <2> QED BY <1>0, <2>1, <2>4, <2>5, <2>6, NoneIsNoRow DEF Entered
<1> QED BY <1>1, <1>2

\* What the end of a request changes: the Ticket is consumed or its cursor moves.
LEMMA FinishesEffect ==
  ASSUME TicketTypeOK, NEW h \in Handlers, Finishes(h)
  PROVE  LET q == handler[h]
             k == q.ticket
         IN  /\ Others(h) /\ handler'[h] = None /\ q # None /\ k \in Tickets
             /\ ticket[k].status = "claimed" /\ ticket[k].holder = h
             /\ \A j \in Tickets \ {k} : ticket'[j] = ticket[j]
             /\ ticket'[k].holder = None
             /\ \/ ticket'[k].status = "issued" /\ ticket'[k].consumed = ticket[k].consumed
                \/ /\ At(h, "applied") /\ q.msg.kind # "progress"
                   /\ ticket'[k].status = "consumed" /\ ticket'[k].consumed = q.msg
             /\ \/ ticket'[k].version = ticket[k].version /\ ticket'[k].sequence = ticket[k].sequence
                \/ /\ At(h, "applied") /\ q.msg.kind = "progress" /\ Advances(q)
                   /\ ticket'[k].version = q.seen /\ ticket'[k].sequence = CommandSequence(q)
<1> DEFINE q == handler[h]
           k == q.ticket
           row == ticket[k]
           consumed == [row EXCEPT !.status = "consumed", !.consumed = q.msg]
           issued == [row EXCEPT !.status = "issued"]
           advanced == [row EXCEPT !.status = "issued", !.version = q.seen,
                                   !.sequence = CommandSequence(q)]
<1>0. q # None BY DEF Finishes, At
<1>1. /\ k \in Tickets /\ q.msg \in Messages /\ q.seen \in Nat /\ CommandSequence(q) \in Nat
      /\ row \in TicketRow
  BY <1>0, BusyType DEF TicketTypeOK
<1>2. consumed \in TicketRow /\ issued \in TicketRow /\ advanced \in TicketRow
  BY <1>1 DEF TicketRow
<1>3. ASSUME NEW new \in TicketRow, Finalize(h, new)
      PROVE  /\ Others(h) /\ handler'[h] = None
             /\ ticket[k].status = "claimed" /\ ticket[k].holder = h
             /\ \A j \in Tickets \ {k} : ticket'[j] = ticket[j]
             /\ ticket'[k].holder = None /\ ticket'[k].status = new.status
             /\ ticket'[k].consumed = new.consumed /\ ticket'[k].version = new.version
             /\ ticket'[k].sequence = new.sequence
  BY <1>1, <1>3 DEF Finalize, Holds, Answer, Others, TicketTypeOK, TicketRow
<1>4. /\ consumed.status = "consumed" /\ consumed.consumed = q.msg
      /\ consumed.version = row.version /\ consumed.sequence = row.sequence
      /\ issued.status = "issued" /\ issued.consumed = row.consumed
      /\ issued.version = row.version /\ issued.sequence = row.sequence
      /\ advanced.status = "issued" /\ advanced.consumed = row.consumed
      /\ advanced.version = q.seen /\ advanced.sequence = CommandSequence(q)
  BY <1>1 DEF TicketRow
<1>5. \/ Finalize(h, issued)
      \/ At(h, "applied") /\ q.msg.kind # "progress" /\ Finalize(h, consumed)
      \/ At(h, "applied") /\ q.msg.kind = "progress" /\ Advances(q) /\ Finalize(h, advanced)
  BY DEF Finishes
<1> HIDE DEF consumed, issued, advanced, row
<1>6. CASE Finalize(h, issued) BY <1>0, <1>1, <1>2, <1>3, <1>4, <1>6 DEF row
<1>7. CASE At(h, "applied") /\ q.msg.kind # "progress" /\ Finalize(h, consumed)
  BY <1>0, <1>1, <1>2, <1>3, <1>4, <1>7 DEF row
<1>8. CASE At(h, "applied") /\ q.msg.kind = "progress" /\ Advances(q) /\ Finalize(h, advanced)
  BY <1>0, <1>1, <1>2, <1>3, <1>4, <1>8 DEF row
<1> QED BY <1>5, <1>6, <1>7, <1>8

\* What a step without a handler changes: holders may only lose a Ticket.
LEMMA ElsewhereEffect ==
  ASSUME TicketTypeOK, Elsewhere
  PROVE  /\ handler' = handler
         /\ \A k \in Tickets :
              /\ ticket'[k].version = ticket[k].version
              /\ ticket'[k].sequence = ticket[k].sequence
              /\ ticket'[k].consumed = ticket[k].consumed
              /\ ticket'[k].holder \in {ticket[k].holder, None}
              /\ ticket'[k].status = "consumed" <=> ticket[k].status = "consumed"
              /\ ticket[k].status = "expired" => ticket'[k].status = "expired"
<1>1. ASSUME NEW j \in Tickets, Issue(j) \/ LeaseLapses(j) \/ Expire(j), NEW k \in Tickets
      PROVE  /\ ticket'[k].version = ticket[k].version
             /\ ticket'[k].sequence = ticket[k].sequence
             /\ ticket'[k].consumed = ticket[k].consumed
             /\ ticket'[k].holder \in {ticket[k].holder, None}
             /\ ticket'[k].status = "consumed" <=> ticket[k].status = "consumed"
             /\ ticket[k].status = "expired" => ticket'[k].status = "expired"
  <2>1. CASE Issue(j) BY <2>1 DEF Issue, TicketTypeOK, TicketRow
  <2>2. CASE LeaseLapses(j) BY <2>2 DEF LeaseLapses, TicketTypeOK, TicketRow
  <2>3. CASE Expire(j) BY <2>3 DEF Expire, TicketTypeOK, TicketRow
  <2> QED BY <1>1, <2>1, <2>2, <2>3
<1> QED BY <1>1 DEF Elsewhere

-----------------------------------------------------------------------------
(* The invariant is inductive                                              *)

\* Every step preserves OnlyResultsCommit.
LEMMA OnlyResultsCommitStep ==
  ASSUME TicketTypeOK, RequestInv, EventInv, [TicketNext]_ticketVars
  PROVE  OnlyResultsCommit'
<1> USE DEF OnlyResultsCommit, At, Others
<1>0. OnlyResultsCommit BY DEF RequestInv
<1>1. CASE Elsewhere BY <1>0, <1>1, ElsewhereEffect
<1>2. ASSUME NEW h \in Handlers, Starts(h) PROVE OnlyResultsCommit' BY <1>0, <1>2, StartsEffect
<1>3. ASSUME NEW h \in Handlers, Claims(h) PROVE OnlyResultsCommit'
  BY <1>0, <1>3, ClaimsEffect DEF Entered
<1>4. ASSUME NEW h \in Handlers, Commits(h) PROVE OnlyResultsCommit' BY <1>0, <1>4, CommitsEffect
<1>5. ASSUME NEW h \in Handlers, Applies(h) PROVE OnlyResultsCommit' BY <1>0, <1>5, AppliesEffect
<1>6. ASSUME NEW h \in Handlers, Answers(h) PROVE OnlyResultsCommit'
  BY <1>0, <1>6 DEF Answers, Answer, TicketTypeOK
<1>7. ASSUME NEW h \in Handlers, Fails(h) PROVE OnlyResultsCommit'
  BY <1>0, <1>7, FailsEffect DEF Entered
<1>8. ASSUME NEW h \in Handlers, Leaves(h) PROVE OnlyResultsCommit' BY <1>0, <1>8, LeavesEffect
<1>9. ASSUME NEW h \in Handlers, Finishes(h) PROVE OnlyResultsCommit' BY <1>0, <1>9, FinishesEffect
<1> QED BY <1>0, <1>1, <1>2, <1>3, <1>4, <1>5, <1>6, <1>7, <1>8, <1>9, RequestCases

\* Every step preserves HolderIsBusy.
LEMMA HolderIsBusyStep ==
  ASSUME TicketTypeOK, RequestInv, EventInv, [TicketNext]_ticketVars
  PROVE  HolderIsBusy'
<1> USE DEF HolderIsBusy, Others
<1>0. HolderIsBusy /\ OnlyResultsCommit BY DEF RequestInv
<1>n. None \notin Handlers BY TicketConstants
<1>1. CASE Elsewhere BY <1>0, <1>1, <1>n, ElsewhereEffect
<1>2. ASSUME NEW h \in Handlers, Starts(h) PROVE HolderIsBusy' BY <1>0, <1>2, StartsEffect
<1>3. ASSUME NEW h \in Handlers, Claims(h) PROVE HolderIsBusy'
  BY <1>0, <1>3, <1>n, ClaimsEffect DEF Entered
<1>4. ASSUME NEW h \in Handlers, Commits(h) PROVE HolderIsBusy' BY <1>0, <1>4, CommitsEffect
<1>5. ASSUME NEW h \in Handlers, Applies(h) PROVE HolderIsBusy' BY <1>0, <1>5, AppliesEffect
<1>6. ASSUME NEW h \in Handlers, Answers(h) PROVE HolderIsBusy'
  BY <1>0, <1>6 DEF Answers, Answer, TicketTypeOK
<1>7. ASSUME NEW h \in Handlers, Fails(h) PROVE HolderIsBusy'
  BY <1>0, <1>7, <1>n, FailsEffect DEF Entered, Unheld
<1>8. ASSUME NEW h \in Handlers, Leaves(h) PROVE HolderIsBusy'
  BY <1>0, <1>8, <1>n, LeavesEffect DEF Unheld
<1>9. ASSUME NEW h \in Handlers, Finishes(h) PROVE HolderIsBusy'
  BY <1>0, <1>9, <1>n, FinishesEffect
<1> QED BY <1>0, <1>1, <1>2, <1>3, <1>4, <1>5, <1>6, <1>7, <1>8, <1>9, RequestCases

\* Every step preserves HeldCursor.
LEMMA HeldCursorStep ==
  ASSUME TicketTypeOK, RequestInv, EventInv, [TicketNext]_ticketVars
  PROVE  HeldCursor'
<1> USE DEF HeldCursor, Advancing, At, Others
<1>0. HolderIsBusy /\ OnlyResultsCommit /\ HeldCursor BY DEF RequestInv
<1>n. None \notin Handlers BY TicketConstants
<1>t. \A g \in Handlers : handler[g] # None => handler[g].ticket \in Tickets BY BusyType
<1>1. CASE Elsewhere BY <1>0, <1>1, <1>n, <1>t, ElsewhereEffect
<1>2. ASSUME NEW h \in Handlers, Starts(h) PROVE HeldCursor' BY <1>0, <1>2, StartsEffect
<1>3. ASSUME NEW h \in Handlers, Claims(h) PROVE HeldCursor'
  BY <1>0, <1>3, <1>n, <1>t, ClaimsEffect DEF Entered
<1>4. ASSUME NEW h \in Handlers, Commits(h) PROVE HeldCursor' BY <1>0, <1>4, CommitsEffect
<1>5. ASSUME NEW h \in Handlers, Applies(h) PROVE HeldCursor'
  BY <1>0, <1>5, AppliesEffect DEF OnlyResultsCommit
<1>6. ASSUME NEW h \in Handlers, Answers(h) PROVE HeldCursor'
  BY <1>0, <1>6 DEF Answers, Answer, TicketTypeOK
<1>7. ASSUME NEW h \in Handlers, Fails(h) PROVE HeldCursor'
  BY <1>0, <1>7, <1>n, <1>t, FailsEffect DEF Entered, Unheld
<1>8. ASSUME NEW h \in Handlers, Leaves(h) PROVE HeldCursor'
  BY <1>0, <1>8, <1>n, <1>t, LeavesEffect DEF Unheld
<1>9. ASSUME NEW h \in Handlers, Finishes(h) PROVE HeldCursor'
  BY <1>0, <1>9, <1>n, <1>t, FinishesEffect
<1> QED BY <1>0, <1>1, <1>2, <1>3, <1>4, <1>5, <1>6, <1>7, <1>8, <1>9, RequestCases

(* What is on record stays on record.                                      *)
LEMMA RecordedStays ==
  ASSUME TicketTypeOK, Grows, NEW k \in Tickets, NEW m \in Messages, Recorded(k, m)
  PROVE  Recorded(k, m)'
<1>1. m.id \in EventIds /\ RunOf[k] \in RunIds BY TicketConstants DEF MessageType
<1> QED BY <1>1 DEF Recorded, Grows

(* A request is at "applied" only because it was, or has just applied.     *)
LEMMA AppliedCases ==
  ASSUME TicketTypeOK, OnlyResultsCommit, EventInv, [TicketNext]_ticketVars,
         NEW g \in Handlers, handler'[g] # None, handler'[g].stage = "applied"
  PROVE  handler'[g] = handler[g] \/ Applies(g)
<1> USE DEF At, Others
<1>1. CASE Elsewhere BY <1>1, ElsewhereEffect
<1>2. ASSUME NEW h \in Handlers, Starts(h) PROVE handler'[g] = handler[g]
  BY <1>2, StartsEffect
<1>3. ASSUME NEW h \in Handlers, Claims(h) PROVE handler'[g] = handler[g]
  BY <1>3, ClaimsEffect DEF Entered
<1>4. ASSUME NEW h \in Handlers, Commits(h) PROVE handler'[g] = handler[g]
  BY <1>4, CommitsEffect
<1>5. ASSUME NEW h \in Handlers, Applies(h) PROVE handler'[g] = handler[g] \/ Applies(g)
  BY <1>5, AppliesEffect
<1>6. ASSUME NEW h \in Handlers, Answers(h) PROVE handler'[g] = handler[g]
  BY <1>6 DEF Answers, Answer, TicketTypeOK
<1>7. ASSUME NEW h \in Handlers, Fails(h) PROVE handler'[g] = handler[g]
  BY <1>7, FailsEffect DEF Entered
<1>8. ASSUME NEW h \in Handlers, Leaves(h) PROVE handler'[g] = handler[g]
  BY <1>8, LeavesEffect
<1>9. ASSUME NEW h \in Handlers, Finishes(h) PROVE handler'[g] = handler[g]
  BY <1>9, FinishesEffect
<1> QED BY <1>1, <1>2, <1>3, <1>4, <1>5, <1>6, <1>7, <1>8, <1>9, RequestCases

\* Every step preserves AppliedIsStored.
LEMMA AppliedIsStoredStep ==
  ASSUME TicketTypeOK, RequestInv, EventInv, [TicketNext]_ticketVars
  PROVE  AppliedIsStored'
<1> USE DEF At, Others
<1>0. OnlyResultsCommit /\ AppliedIsStored BY DEF RequestInv
<1>1. Grows BY <1>0, EventStep
<1>2. ASSUME NEW g \in Handlers, handler'[g] = handler[g],
             At(g, "applied"), handler[g].msg.kind # "progress"
      PROVE  Recorded(handler[g].ticket, handler[g].msg)'
  <2>1. PICK k \in Tickets, m \in Messages : k = handler[g].ticket /\ m = handler[g].msg
    BY <1>2, BusyType
  <2>2. Recorded(k, m) BY <1>0, <1>2, <2>1 DEF AppliedIsStored
  <2>3. Recorded(k, m)' BY <1>1, <2>2, RecordedStays
  <2> QED BY <1>2, <2>1, <2>3
<1>3. ASSUME NEW h \in Handlers, Applies(h), handler'[h] # None, handler'[h].msg.kind # "progress"
      PROVE  Recorded(handler[h].ticket, handler[h].msg)'
  <2>1. PICK k \in Tickets, m \in Messages : k = handler[h].ticket /\ m = handler[h].msg
    BY <1>3, AppliesEffect, BusyType
  <2>2. handler'[h].ticket = k /\ handler'[h].msg = m /\ RecordedNow(handler[h])
    BY <1>3, <2>1, AppliesEffect
  <2>3. Recorded(k, m)' BY <2>1, <2>2 DEF RecordedNow
  <2> QED BY <2>2, <2>3
<1>4. SUFFICES ASSUME NEW g \in Handlers, handler'[g] # None, handler'[g].stage = "applied",
                      handler'[g].msg.kind # "progress"
               PROVE  Recorded(handler[g].ticket, handler[g].msg)'
  BY DEF AppliedIsStored
<1>5. handler'[g] = handler[g] \/ Applies(g) BY <1>0, <1>4, AppliedCases
<1> QED BY <1>2, <1>3, <1>4, <1>5

\* Every step preserves AppliedBehind.
LEMMA AppliedBehindStep ==
  ASSUME TicketTypeOK, RequestInv, EventInv, [TicketNext]_ticketVars
  PROVE  AppliedBehind'
<1>0. OnlyResultsCommit /\ AppliedBehind BY DEF RequestInv
<1>1. Grows BY <1>0, EventStep
<1>2. TicketTypeOK' BY TypeStep
<1>3. SUFFICES ASSUME NEW g \in Handlers, handler'[g] # None, handler'[g].stage = "applied",
                      handler'[g].msg.kind = "progress",
                      run'[RunOf[handler'[g].ticket]].status = "open"
               PROVE  /\ handler'[g].seen <= run'[RunOf[handler'[g].ticket]].version
                      /\ CommandSequence(handler[g])' <= run'[RunOf[handler'[g].ticket]].sequence
  BY DEF AppliedBehind, At
<1>4. CASE handler'[g] = handler[g]
  <2> DEFINE q == handler[g]
             r == RunOf[q.ticket]
  <2>1. /\ r \in RunIds /\ q.seen \in Nat /\ CommandSequence(q) \in Nat
        /\ run[r].version \in Nat /\ run[r].sequence \in Nat
        /\ run'[r].version \in Nat /\ run'[r].sequence \in Nat
    BY <1>2, <1>3, <1>4, BusyType DEF TicketTypeOK, RunRow
  <2>2. run[r].status = "open" /\ run'[r].version >= run[r].version
        /\ run'[r].sequence >= run[r].sequence
    BY <1>1, <1>3, <1>4, <2>1 DEF Grows
  <2>3. q.seen <= run[r].version /\ CommandSequence(q) <= run[r].sequence
    BY <1>0, <1>3, <1>4, <2>2 DEF AppliedBehind, At
  <2>4. CommandSequence(handler[g])' = CommandSequence(q) BY <1>4 DEF CommandSequence
  <2>5. q.seen <= run'[r].version /\ CommandSequence(q) <= run'[r].sequence
    <3> HIDE DEF q, r
    <3> QED BY <2>1, <2>2, <2>3
  <2> QED BY <1>4, <2>4, <2>5
<1>5. CASE Applies(g)
  <2>1. CommandSequence(handler[g])' = CommandSequence(handler[g])
    BY <1>3, <1>5, AppliesEffect DEF CommandSequence
  <2> QED BY <1>3, <1>5, <2>1, AppliesEffect
<1> QED BY <1>0, <1>3, <1>4, <1>5, AppliedCases

\* Every step preserves the invariant of the requests.
LEMMA RequestStep ==
  ASSUME TicketTypeOK, RequestInv, EventInv, [TicketNext]_ticketVars
  PROVE  RequestInv'
BY OnlyResultsCommitStep, HolderIsBusyStep, HeldCursorStep, AppliedIsStoredStep, AppliedBehindStep
   DEF RequestInv

(* How a step changes a Ticket.                                            *)
LEMMA TicketCases ==
  ASSUME TicketTypeOK, RequestInv, EventInv, [TicketNext]_ticketVars, NEW k \in Tickets
  PROVE  /\ \/ /\ ticket'[k].consumed = ticket[k].consumed
               /\ ticket'[k].status = "consumed" <=> ticket[k].status = "consumed"
               /\ ticket[k].status = "expired" => ticket'[k].status = "expired"
            \/ /\ ticket[k].status = "claimed" /\ ticket'[k].status = "consumed"
               /\ ticket'[k].consumed \in Messages /\ Recorded(k, ticket'[k].consumed)
         /\ \/ /\ ticket'[k].version = ticket[k].version
               /\ ticket'[k].sequence = ticket[k].sequence
            \/ /\ ticket'[k].version > ticket[k].version
               /\ ticket'[k].sequence > ticket[k].sequence
               /\ run[RunOf[k]].status = "open" =>
                    /\ ticket'[k].version <= run[RunOf[k]].version
                    /\ ticket'[k].sequence <= run[RunOf[k]].sequence
<1>0. OnlyResultsCommit /\ HeldCursor /\ AppliedIsStored /\ AppliedBehind BY DEF RequestInv
<1>1. CASE Elsewhere BY <1>1, ElsewhereEffect
<1>2. ASSUME NEW h \in Handlers,
             Starts(h) \/ Commits(h) \/ Applies(h) \/ Answers(h)
      PROVE  ticket' = ticket
  BY <1>2 DEF Starts, Commits, Applies, Answers
<1>3. ASSUME NEW h \in Handlers, Claims(h)
      PROVE  /\ ticket'[k].consumed = ticket[k].consumed
             /\ ticket'[k].status = "consumed" <=> ticket[k].status = "consumed"
             /\ ticket[k].status = "expired" => ticket'[k].status = "expired"
             /\ ticket'[k].version = ticket[k].version /\ ticket'[k].sequence = ticket[k].sequence
  BY <1>3, ClaimsEffect
<1>4. ASSUME NEW h \in Handlers, Fails(h) \/ Leaves(h)
      PROVE  /\ ticket'[k].consumed = ticket[k].consumed /\ ticket'[k].status = ticket[k].status
             /\ ticket'[k].version = ticket[k].version /\ ticket'[k].sequence = ticket[k].sequence
  BY <1>4, FailsEffect, LeavesEffect DEF Unheld
<1>5. ASSUME NEW h \in Handlers, Finishes(h), handler[h].ticket = k
      PROVE  /\ ticket[k].status = "claimed"
             /\ \/ ticket'[k].status = "issued" /\ ticket'[k].consumed = ticket[k].consumed
                \/ /\ ticket'[k].status = "consumed" /\ ticket'[k].consumed \in Messages
                   /\ Recorded(k, ticket'[k].consumed)
             /\ \/ /\ ticket'[k].version = ticket[k].version
                   /\ ticket'[k].sequence = ticket[k].sequence
                \/ /\ ticket'[k].version > ticket[k].version
                   /\ ticket'[k].sequence > ticket[k].sequence
                   /\ run[RunOf[k]].status = "open" =>
                        /\ ticket'[k].version <= run[RunOf[k]].version
                        /\ ticket'[k].sequence <= run[RunOf[k]].sequence
  <2> DEFINE q == handler[h]
  <2>1. /\ q # None /\ ticket[k].holder = h /\ ticket[k].status = "claimed"
        /\ \/ ticket'[k].status = "issued" /\ ticket'[k].consumed = ticket[k].consumed
           \/ /\ At(h, "applied") /\ q.msg.kind # "progress"
              /\ ticket'[k].status = "consumed" /\ ticket'[k].consumed = q.msg
        /\ \/ ticket'[k].version = ticket[k].version /\ ticket'[k].sequence = ticket[k].sequence
           \/ /\ At(h, "applied") /\ q.msg.kind = "progress" /\ Advances(q)
              /\ ticket'[k].version = q.seen /\ ticket'[k].sequence = CommandSequence(q)
    BY <1>5, FinishesEffect
  <2>2. At(h, "applied") /\ q.msg.kind # "progress" => q.msg \in Messages /\ Recorded(k, q.msg)
    BY <1>0, <1>5, <2>1, BusyType DEF AppliedIsStored
  <2>3. At(h, "applied") /\ q.msg.kind = "progress" /\ Advances(q) =>
          q.seen > ticket[k].version /\ CommandSequence(q) > ticket[k].sequence
    BY <1>0, <1>5, <2>1 DEF HeldCursor, Advancing, Advances
  <2>4. At(h, "applied") /\ q.msg.kind = "progress" /\ run[RunOf[k]].status = "open" =>
          q.seen <= run[RunOf[k]].version /\ CommandSequence(q) <= run[RunOf[k]].sequence
    BY <1>0, <1>5 DEF AppliedBehind
  <2> QED BY <2>1, <2>2, <2>3, <2>4
<1>6. ASSUME NEW h \in Handlers, Finishes(h), handler[h].ticket # k PROVE ticket'[k] = ticket[k]
  BY <1>6, FinishesEffect
<1> QED BY <1>0, <1>1, <1>2, <1>3, <1>4, <1>5, <1>6, RequestCases

\* The inductive invariant holds initially.
LEMMA InvInit ==
  ASSUME TicketInit
  PROVE  TicketInv
<1>1. TicketTypeOK BY TypeInit
<1>2. /\ \A i \in EventIds : event[i] = None
      /\ \A h \in Handlers : handler[h] = None
      /\ \A k \in Tickets : /\ ticket[k].status = "absent" /\ ticket[k].holder = None
                            /\ ticket[k].version = 1 /\ ticket[k].sequence = 0
                            /\ run[RunOf[k]].version = 1 /\ run[RunOf[k]].sequence = 0
  BY TicketConstants DEF TicketInit
<1>3. EventInv BY <1>2 DEF EventInv, FinalEventEndsRun, EventsBehind, OneEventPerPlace
<1>4. RequestInv
  BY <1>2, TicketConstants DEF RequestInv, OnlyResultsCommit, HolderIsBusy, HeldCursor, Advancing,
                               AppliedIsStored, AppliedBehind, At
<1>5. ConsumedByStoredEvent /\ CursorNotAhead BY <1>2 DEF ConsumedByStoredEvent, CursorNotAhead
<1> QED BY <1>1, <1>3, <1>4, <1>5 DEF TicketInv

\* Every step preserves the inductive invariant.
LEMMA InvStep ==
  ASSUME TicketInv, [TicketNext]_ticketVars
  PROVE  TicketInv'
<1>1. TicketTypeOK /\ EventInv /\ RequestInv /\ ConsumedByStoredEvent /\ CursorNotAhead
  BY DEF TicketInv
<1>2. TicketTypeOK' /\ RequestInv' BY <1>1, TypeStep, RequestStep
<1>3. Grows /\ EventInv' BY <1>1, EventStep DEF RequestInv
<1>4. ASSUME NEW k \in Tickets, ticket'[k].status = "consumed"
      PROVE  ticket'[k].consumed \in Messages /\ Recorded(k, ticket[k].consumed)'
  <2>1. /\ ticket'[k].consumed \in Messages /\ Recorded(k, ticket'[k].consumed)
    <3>1. CASE ticket[k].status = "consumed" /\ ticket'[k].consumed = ticket[k].consumed
      <4>1. ticket[k].consumed # None /\ Recorded(k, ticket[k].consumed)
        BY <1>1, <3>1 DEF ConsumedByStoredEvent
      <4>2. ticket[k].consumed \in Messages BY <1>1, <4>1 DEF TicketTypeOK, TicketRow
      <4> QED BY <3>1, <4>1, <4>2
    <3>2. CASE ticket'[k].consumed \in Messages /\ Recorded(k, ticket'[k].consumed) BY <3>2
    <3> QED BY <1>1, <1>4, <3>1, <3>2, TicketCases
  <2>2. PICK m \in Messages : m = ticket'[k].consumed BY <2>1
  <2>3. Recorded(k, m)' BY <1>1, <1>3, <2>1, <2>2, RecordedStays
  <2> QED BY <2>2, <2>3
<1>5. ConsumedByStoredEvent' BY <1>4, TicketConstants DEF ConsumedByStoredEvent
<1>6. ASSUME NEW k \in Tickets, run'[RunOf[k]].status = "open"
      PROVE  /\ ticket'[k].version <= run'[RunOf[k]].version
             /\ ticket'[k].sequence <= run'[RunOf[k]].sequence
  <2> DEFINE r == RunOf[k]
  <2>1. r \in RunIds BY TicketConstants
  <2>2. /\ run[r].version \in Nat /\ run[r].sequence \in Nat
        /\ run'[r].version \in Nat /\ run'[r].sequence \in Nat
        /\ ticket'[k].version \in Nat /\ ticket'[k].sequence \in Nat
    BY <1>1, <1>2, <2>1 DEF TicketTypeOK, RunRow, TicketRow
  <2>3. /\ run[r].status = "open"
        /\ run'[r].version >= run[r].version /\ run'[r].sequence >= run[r].sequence
    BY <1>3, <1>6, <2>1 DEF Grows
  <2>4. ticket'[k].version <= run[r].version /\ ticket'[k].sequence <= run[r].sequence
    BY <1>1, <2>3, TicketCases DEF CursorNotAhead
  <2> HIDE DEF r
  <2>5. ticket'[k].version <= run'[r].version /\ ticket'[k].sequence <= run'[r].sequence
    BY <2>2, <2>3, <2>4
  <2> QED BY <2>5 DEF r
<1>7. CursorNotAhead' BY <1>6 DEF CursorNotAhead
<1> QED BY <1>2, <1>3, <1>5, <1>7 DEF TicketInv

(* The invariant that the theorems below rest on.                          *)
THEOREM TicketInvariant == TicketSpec => []TicketInv
<1>1. TicketInit => TicketInv BY InvInit
<1>2. TicketInv /\ [TicketNext]_ticketVars => TicketInv' BY InvStep
<1> QED BY <1>1, <1>2, PTL DEF TicketSpec

(* Progress events of one Run have distinct sequences, in the order of the *)
(* versions they made: progress compares the Run's version with the cursor *)
(* and its sequence with the event's, whichever Ticket the request holds   *)
(* and whether or not it still holds it.                                   *)
THEOREM EventsHaveTheirPlaces == TicketSpec => []OneEventPerPlace
<1>1. TicketInv => OneEventPerPlace BY DEF TicketInv, EventInv
<1> QED BY <1>1, TicketInvariant, PTL

(* consume comes after the transaction that stores the event: a Ticket     *)
(* that is consumed has its event on record and its Run over.              *)
THEOREM ConsumedTicketsAreRecorded == TicketSpec => []ConsumedByStoredEvent
<1>1. TicketInv => ConsumedByStoredEvent BY DEF TicketInv
<1> QED BY <1>1, TicketInvariant, PTL

(* release_after_progress writes a cursor that the Run has reached.        *)
THEOREM CursorsFollowRuns == TicketSpec => []CursorNotAhead
<1>1. TicketInv => CursorNotAhead BY DEF TicketInv
<1> QED BY <1>1, TicketInvariant, PTL

(* finalize_claim demands the lease and release_after_progress a larger    *)
(* version and sequence: final states are kept, cursors never go back.     *)
THEOREM TicketsOnlyMoveForward == TicketSpec => TicketsMoveForward
<1> DEFINE Forward(k) ==
             /\ ticket[k].status \in {"consumed", "expired"} =>
                  /\ ticket'[k].status = ticket[k].status
                  /\ ticket'[k].consumed = ticket[k].consumed
             /\ ticket'[k].version >= ticket[k].version
             /\ ticket'[k].sequence >= ticket[k].sequence
<1>1. ASSUME TicketInv, [TicketNext]_ticketVars, NEW k \in Tickets PROVE Forward(k)
  <2>1. ticket[k].version \in Nat /\ ticket[k].sequence \in Nat
    BY <1>1 DEF TicketInv, TicketTypeOK, TicketRow
  <2>2. /\ ticket'[k].version = ticket[k].version \/ ticket'[k].version > ticket[k].version
        /\ ticket'[k].sequence = ticket[k].sequence \/ ticket'[k].sequence > ticket[k].sequence
    BY <1>1, TicketCases DEF TicketInv
  <2>3. ticket[k].status \in {"consumed", "expired"} =>
          ticket'[k].status = ticket[k].status /\ ticket'[k].consumed = ticket[k].consumed
    BY <1>1, TicketCases DEF TicketInv
  <2>4. ticket'[k].version \in Nat /\ ticket'[k].sequence \in Nat
    BY <1>1, TypeStep DEF TicketInv, TicketTypeOK, TicketRow
  <2> QED BY <2>1, <2>2, <2>3, <2>4
<1>2. TicketInv /\ [TicketNext]_ticketVars => [\A k \in Tickets : Forward(k)]_ticketVars BY <1>1
<1> QED BY <1>2, TicketInvariant, PTL DEF TicketSpec, TicketsMoveForward

(* What Tickets, Runs and events say of each other stays true between      *)
(* requests that overlap, repeat and lose their claim.                     *)
THEOREM TicketsAreSafe == TicketSpec => []TicketSafe
<1>1. TicketInv => TicketSafe
  <2>1. TicketInv => ConsumedByStoredEvent /\ CursorNotAhead
    BY DEF TicketInv
  <2>2. TicketInv => OneEventPerPlace
    BY DEF TicketInv, EventInv
  <2>3. TicketInv => TicketTypeOK
    BY DEF TicketInv
  <2> QED BY <2>1, <2>2, <2>3 DEF TicketSafe
<1> QED BY <1>1, TicketInvariant, PTL

-----------------------------------------------------------------------------
(* The only Ticket of a Run                                                *)

(* A request has a Ticket that was issued.                                 *)
TicketIsIssued == \A h \in Handlers : handler[h] # None => ticket[handler[h].ticket].status # "absent"

(* A Ticket that is not issued yet has the cursor of a new Run ...         *)
FreshTickets ==
  \A k \in Tickets : ticket[k].status = "absent" => ticket[k].version = 1 /\ ticket[k].sequence = 0

(* ... and a Run that has none, if it is open, is a new one.               *)
FreshRuns ==
  \A r \in RunIds :
    run[r].status = "open" /\ (\A j \in Tickets : RunOf[j] = r => ticket[j].status = "absent") =>
      run[r].version = 1 /\ run[r].sequence = 0

(* A progress event that was admitted takes the place of its cursor or the *)
(* next one; the cursor may have moved on meanwhile, as a whole.           *)
AdmittedInPlace ==
  \A h \in Handlers : handler[h] # None /\ handler[h].msg.kind = "progress" =>
    LET q == handler[h]
    IN  /\ q.stage = "resolved" => ~q.replay
        /\ q.stage \in {"claimed", "replaying", "applied"} =>
             /\ CommandSequence(q) \in {q.sequence, q.sequence + 1}
             /\ q.version <= ticket[q.ticket].version
             /\ q.version = ticket[q.ticket].version => q.sequence = ticket[q.ticket].sequence

RepairInv == TicketIsIssued /\ FreshTickets /\ FreshRuns /\ AdmittedInPlace /\ LostReleaseIsRepairable

(* How the status of a Ticket changes.                                     *)
LEMMA StatusCases ==
  ASSUME TicketTypeOK, OnlyResultsCommit, EventInv, [TicketNext]_ticketVars, NEW k \in Tickets
  PROVE  /\ ticket[k].status # "absent" => ticket'[k].status # "absent"
         /\ ticket[k].status = "absent" =>
              ticket'[k].version = ticket[k].version /\ ticket'[k].sequence = ticket[k].sequence
         /\ ticket[k].status = "absent" /\ ticket'[k].status # "absent" => UNCHANGED <<run, event>>
<1>1. CASE Elsewhere
  <2>1. CASE ticket' = ticket BY <2>1
  <2>2. ASSUME NEW j \in Tickets, Issue(j) PROVE UNCHANGED <<run, event>>
    BY <2>2 DEF Issue
  <2>3. ASSUME NEW j \in Tickets, LeaseLapses(j) \/ Expire(j)
        PROVE  ticket[k].status = "absent" <=> ticket'[k].status = "absent"
    BY <2>3 DEF LeaseLapses, Expire, TicketTypeOK, TicketRow
  <2>4. ASSUME NEW j \in Tickets, Issue(j), ticket[k].status # "absent"
        PROVE  ticket'[k].status # "absent"
    BY <2>4 DEF Issue, TicketTypeOK, TicketRow
  <2>5. /\ ticket'[k].version = ticket[k].version
        /\ ticket'[k].sequence = ticket[k].sequence
    BY <1>1, ElsewhereEffect
  <2> QED BY <1>1, <2>1, <2>2, <2>3, <2>4, <2>5 DEF Elsewhere
<1>2. ASSUME NEW h \in Handlers, Starts(h) \/ Commits(h) \/ Applies(h) \/ Answers(h)
      PROVE  ticket' = ticket
  BY <1>2 DEF Starts, Commits, Applies, Answers
<1>3. ASSUME NEW h \in Handlers, Claims(h)
      PROVE  \/ ticket'[k] = ticket[k]
             \/ ticket[k].status \in {"issued", "claimed"} /\ ticket'[k].status = "claimed"
  BY <1>3, ClaimsEffect
<1>4. ASSUME NEW h \in Handlers, Fails(h) \/ Leaves(h)
      PROVE  /\ ticket'[k].status = ticket[k].status /\ ticket'[k].version = ticket[k].version
             /\ ticket'[k].sequence = ticket[k].sequence
  BY <1>4, FailsEffect, LeavesEffect DEF Unheld
<1>5. ASSUME NEW h \in Handlers, Finishes(h)
      PROVE  \/ ticket'[k] = ticket[k]
             \/ ticket[k].status = "claimed" /\ ticket'[k].status \in {"issued", "consumed"}
  BY <1>5, FinishesEffect
<1> QED BY <1>1, <1>2, <1>3, <1>4, <1>5, RequestCases

(* What a request is admitted with.                                        *)
LEMMA ClaimsPlaced ==
  ASSUME TicketTypeOK, NEW h \in Handlers, Claims(h), handler'[h] # None
  PROVE  \E k \in Tickets, m \in Messages :
           /\ handler'[h].ticket = k /\ handler'[h].msg = m
           /\ handler'[h].version = ticket[k].version /\ handler'[h].sequence = ticket[k].sequence
           /\ ticket'[k].version = ticket[k].version /\ ticket'[k].sequence = ticket[k].sequence
           /\ Placed(h, k, m)
<1>1. PICK k \in Tickets, m \in Messages, p \in BOOLEAN :
        /\ p => Placed(h, k, m)
        /\ Take(h, k, m, p) \/ Replay(h, k, m, p) \/ (Answer(h) /\ UNCHANGED ticket)
  BY DEF Claims
<1>2. ASSUME Answer(h) PROVE FALSE BY <1>2 DEF Answer, TicketTypeOK
<1>3. PICK s \in {"claimed", "replaying"} :
        /\ p /\ Admit(h, k, m, s)
        /\ ticket'[k].version = ticket[k].version /\ ticket'[k].sequence = ticket[k].sequence
  BY <1>1, <1>2 DEF Take, Replay, TicketTypeOK, TicketRow
<1> DEFINE q == [NewRequest(k, m) EXCEPT !.stage = s, !.version = ticket[k].version,
                                         !.sequence = ticket[k].sequence]
<1>4. handler'[h] = q BY <1>3 DEF Admit, TicketTypeOK
<1>5. /\ q.ticket = k /\ q.msg = m
      /\ q.version = ticket[k].version /\ q.sequence = ticket[k].sequence
  BY DEF NewRequest
<1> QED BY <1>1, <1>3, <1>4, <1>5

(* A request is new, goes on, or fails.                                    *)
LEMMA EnteredCases ==
  ASSUME TicketTypeOK, OnlyResultsCommit, EventInv, [TicketNext]_ticketVars,
         NEW g \in Handlers, handler'[g] # None
  PROVE  \/ handler'[g] = handler[g] \/ Starts(g) \/ Claims(g) \/ Commits(g) \/ Applies(g)
         \/ Fails(g) /\ handler'[g].stage = "rejected"
              /\ handler[g] # None /\ handler'[g].ticket = handler[g].ticket
<1> USE DEF Others
<1>1. CASE Elsewhere BY <1>1, ElsewhereEffect
<1>2. ASSUME NEW h \in Handlers, Starts(h) PROVE h = g \/ handler'[g] = handler[g]
  BY <1>2, StartsEffect
<1>3. ASSUME NEW h \in Handlers, Claims(h) PROVE h = g \/ handler'[g] = handler[g]
  BY <1>3, ClaimsEffect
<1>4. ASSUME NEW h \in Handlers, Commits(h) PROVE h = g \/ handler'[g] = handler[g]
  BY <1>4, CommitsEffect
<1>5. ASSUME NEW h \in Handlers, Applies(h) PROVE h = g \/ handler'[g] = handler[g]
  BY <1>5, AppliesEffect
<1>6. ASSUME NEW h \in Handlers, Answers(h) PROVE handler'[g] = handler[g]
  BY <1>6 DEF Answers, Answer, TicketTypeOK
<1>7. ASSUME NEW h \in Handlers, Fails(h)
      PROVE  \/ handler'[g] = handler[g]
             \/ h = g /\ handler'[g].stage = "rejected" /\ handler[g] # None
                  /\ handler'[g].ticket = handler[g].ticket
  BY <1>7, FailsEffect DEF Entered
<1>8. ASSUME NEW h \in Handlers, Leaves(h) PROVE handler'[g] = handler[g]
  BY <1>8, LeavesEffect
<1>9. ASSUME NEW h \in Handlers, Finishes(h) PROVE handler'[g] = handler[g]
  BY <1>9, FinishesEffect
<1> QED BY <1>1, <1>2, <1>3, <1>4, <1>5, <1>6, <1>7, <1>8, <1>9, RequestCases

\* A request keeps its Ticket, and a new one has been issued.
LEMMA TicketIsIssuedStep ==
  ASSUME TicketTypeOK, RequestInv, EventInv, TicketIsIssued, [TicketNext]_ticketVars
  PROVE  TicketIsIssued'
<1>0. OnlyResultsCommit BY DEF RequestInv
<1>1. SUFFICES ASSUME NEW g \in Handlers, handler'[g] # None
               PROVE  ticket'[handler'[g].ticket].status # "absent"
  BY DEF TicketIsIssued
<1>2. ASSUME handler[g] # None, handler'[g].ticket = handler[g].ticket
      PROVE  ticket'[handler'[g].ticket].status # "absent"
  <2>1. handler[g].ticket \in Tickets BY <1>2, BusyType
  <2> QED BY <1>0, <1>2, <2>1, StatusCases DEF TicketIsIssued
<1>3. CASE Starts(g)
  BY <1>3 DEF Starts, TicketTypeOK
<1>4. CASE Claims(g)
  <2>1. \/ /\ \E k \in Tickets, m \in Messages :
                Entered(g, k, m, "replaying") /\ ticket[k].status = "consumed"
           /\ ticket' = ticket
        \/ \E k \in Tickets : /\ ticket'[k].status = "claimed"
                              /\ \E m \in Messages : Entered(g, k, m, "claimed")
    BY <1>1, <1>4, ClaimsEffect
  <2> QED BY <2>1 DEF Entered
<1>5. CASE Commits(g) \/ Applies(g) BY <1>1, <1>2, <1>5, CommitsEffect, AppliesEffect
<1> QED BY <1>0, <1>1, <1>2, <1>3, <1>4, <1>5, EnteredCases

\* A cursor moves only once its Ticket is issued.
LEMMA FreshTicketsStep ==
  ASSUME TicketTypeOK, RequestInv, EventInv, FreshTickets, [TicketNext]_ticketVars
  PROVE  FreshTickets'
BY StatusCases DEF RequestInv, FreshTickets

\* A Run moves on only with a message, which has a Ticket.
LEMMA FreshRunsStep ==
  ASSUME TicketTypeOK, RequestInv, EventInv, TicketIsIssued, FreshRuns, [TicketNext]_ticketVars
  PROVE  FreshRuns'
<1>0. OnlyResultsCommit BY DEF RequestInv
<1>1. SUFFICES ASSUME NEW r \in RunIds, run'[r].status = "open",
                      \A j \in Tickets : RunOf[j] = r => ticket'[j].status = "absent"
               PROVE  run'[r].version = 1 /\ run'[r].sequence = 0
  BY DEF FreshRuns
<1>2. \A j \in Tickets : RunOf[j] = r => ticket[j].status = "absent"
  BY <1>0, <1>1, StatusCases
<1>3. run[r].status = "open" BY <1>0, <1>1, EventStep DEF Grows
<1>4. run'[r] = run[r]
  <2>1. ASSUME NEW x \in RunIds, RunEnds(x) PROVE run'[r] = run[r]
    BY <1>1, <2>1 DEF RunEnds, TicketTypeOK, RunRow
  <2>2. ASSUME NEW h \in Handlers, Progressed(h) \/ Ended(h) \/ Noted(h) PROVE run'[r] = run[r]
    <3>1. handler[h] # None BY <2>2 DEF Progressed, Ended, Noted, Wrote
    <3>2. handler[h].ticket \in Tickets /\ ticket[handler[h].ticket].status # "absent"
      BY <3>1, BusyType DEF TicketIsIssued
    <3>3. RunOf[handler[h].ticket] # r BY <1>2, <3>2
    <3> QED BY <2>2, <3>3 DEF Progressed, Ended, Noted, TicketTypeOK
  <2> QED BY <1>0, <2>1, <2>2, RunCases
<1> QED BY <1>2, <1>3, <1>4 DEF FreshRuns

\* What a request was admitted with stays true of it, whatever others do.
LEMMA AdmittedInPlaceStep ==
  ASSUME TicketTypeOK, RequestInv, EventInv, AdmittedInPlace, [TicketNext]_ticketVars
  PROVE  AdmittedInPlace'
<1>0. OnlyResultsCommit /\ TicketTypeOK' BY TypeStep DEF RequestInv
<1>1. SUFFICES ASSUME NEW g \in Handlers, handler'[g] # None, handler'[g].msg.kind = "progress"
               PROVE  /\ handler'[g].stage = "resolved" => ~handler'[g].replay
                      /\ handler'[g].stage \in {"claimed", "replaying", "applied"} =>
                           /\ CommandSequence(handler[g])' \in {handler'[g].sequence, handler'[g].sequence + 1}
                           /\ handler'[g].version <= ticket'[handler'[g].ticket].version
                           /\ handler'[g].version = ticket'[handler'[g].ticket].version =>
                                handler'[g].sequence = ticket'[handler'[g].ticket].sequence
  BY DEF AdmittedInPlace
<1>2. ASSUME handler[g] # None, handler'[g].msg = handler[g].msg, handler'[g].ticket = handler[g].ticket,
             handler'[g].version = handler[g].version, handler'[g].sequence = handler[g].sequence,
             handler[g].stage \in {"claimed", "replaying", "applied"}
      PROVE  /\ CommandSequence(handler[g])' \in {handler'[g].sequence, handler'[g].sequence + 1}
             /\ handler'[g].version <= ticket'[handler'[g].ticket].version
             /\ handler'[g].version = ticket'[handler'[g].ticket].version =>
                  handler'[g].sequence = ticket'[handler'[g].ticket].sequence
  <2> DEFINE q == handler[g]
             k == q.ticket
  <2>1. /\ CommandSequence(q) \in {q.sequence, q.sequence + 1} /\ q.version <= ticket[k].version
        /\ q.version = ticket[k].version => q.sequence = ticket[k].sequence
    BY <1>1, <1>2 DEF AdmittedInPlace
  <2>2. CommandSequence(handler[g])' = CommandSequence(q) BY <1>2 DEF CommandSequence
  <2>3. k \in Tickets /\ q.version \in Nat BY <1>2, BusyType
  <2>4. ticket[k].version \in Nat /\ ticket'[k].version \in Nat
    BY <1>0, <2>3 DEF TicketTypeOK, TicketRow
  <2>5. \/ ticket'[k].version = ticket[k].version /\ ticket'[k].sequence = ticket[k].sequence
        \/ ticket'[k].version > ticket[k].version
    BY <2>3, TicketCases
  <2>6. /\ q.version <= ticket'[k].version
        /\ q.version = ticket'[k].version => q.sequence = ticket'[k].sequence
    <3> HIDE DEF q, k
    <3> QED BY <2>1, <2>3, <2>4, <2>5
  <2> QED BY <1>2, <2>1, <2>2, <2>6
<1>3. CASE handler'[g] = handler[g] BY <1>1, <1>2, <1>3 DEF AdmittedInPlace
<1>4. CASE Starts(g)
  <2>1. PICK q \in Request : /\ q.stage = "resolved" /\ handler' = [handler EXCEPT ![g] = q]
                             /\ q.replay => q.msg.kind \in Final
    BY <1>4 DEF Starts
  <2>2. handler'[g] = q BY <2>1 DEF TicketTypeOK
  <2> QED BY <1>1, <2>1, <2>2 DEF Final
<1>5. CASE Claims(g)
  <2>1. PICK k \in Tickets, m \in Messages :
          /\ handler'[g].ticket = k /\ handler'[g].msg = m
          /\ handler'[g].version = ticket[k].version /\ handler'[g].sequence = ticket[k].sequence
          /\ ticket'[k].version = ticket[k].version /\ ticket'[k].sequence = ticket[k].sequence
          /\ Placed(g, k, m)
    BY <1>1, <1>5, ClaimsPlaced
  <2>2. ticket[k].version \in Nat /\ ticket[k].sequence \in Nat BY DEF TicketTypeOK, TicketRow
  <2>3. CommandSequence(handler[g])' = IF m.via = "native" /\ m.sequence # 0 THEN m.sequence
                                       ELSE ticket[k].sequence + 1
    BY <2>1 DEF CommandSequence
  <2>4. m.via = "native" /\ m.sequence # 0 => m.sequence \in {ticket[k].sequence, ticket[k].sequence + 1}
    <3>1. SUFFICES ASSUME m.via = "native", m.sequence # 0
                   PROVE  m.sequence \in {ticket[k].sequence, ticket[k].sequence + 1}
      OBVIOUS
    <3>2. /\ handler[g] # None /\ handler[g].stage = "resolved" /\ handler[g].msg = m
          /\ InPlace(handler[g], ticket[k].version, ticket[k].sequence)
      BY <2>1, <3>1 DEF Placed, At
    <3>3. ~handler[g].replay BY <1>1, <2>1, <3>2 DEF AdmittedInPlace
    <3> QED BY <3>1, <3>2, <3>3 DEF InPlace
  <2>5. handler'[g].stage # "resolved" BY <1>1, <1>5, ClaimsEffect DEF Entered
  <2> QED BY <2>1, <2>2, <2>3, <2>4, <2>5
<1>6. CASE Commits(g) BY <1>1, <1>6, CommitsEffect
<1>7. CASE Applies(g)
  <2>1. /\ handler[g] # None /\ handler'[g].stage = "applied" /\ handler'[g].msg = handler[g].msg
        /\ handler'[g].ticket = handler[g].ticket
        /\ handler[g].stage \in {"claimed", "replaying", "committing"}
    BY <1>1, <1>7, AppliesEffect
  <2>2. handler'[g].version = handler[g].version /\ handler'[g].sequence = handler[g].sequence
    BY <1>1, <1>7, <2>1, AppliesEffect
  <2>3. handler[g].stage # "committing"
    BY <1>0, <1>1, <2>1 DEF OnlyResultsCommit, At
  <2> QED BY <1>2, <2>1, <2>2, <2>3
<1> QED BY <1>0, <1>1, <1>3, <1>4, <1>5, <1>6, <1>7, EnteredCases

\* The only Ticket of an open Run trails by the event that its request has just
\* stored, or has caught up.
LEMMA RepairableStep ==
  ASSUME TicketInv, RepairInv, [TicketNext]_ticketVars
  PROVE  LostReleaseIsRepairable'
<1>0. /\ TicketTypeOK /\ TicketTypeOK' /\ OnlyResultsCommit /\ RequestInv /\ EventInv
      /\ CursorNotAhead /\ Grows
  BY TypeStep, EventStep DEF TicketInv, RequestInv
<1>1. SUFFICES ASSUME NEW k \in Tickets, run'[RunOf[k]].status = "open",
                      ticket'[k].status # "absent", Sole(k)'
               PROVE  LET r == RunOf[k]
                          trailing == run'[r].version - ticket'[k].version
                      IN  /\ trailing \in {0, 1}
                          /\ run'[r].sequence = ticket'[k].sequence + trailing
                          /\ trailing = 1 => \E i \in EventIds :
                               /\ event'[i] # None
                               /\ event'[i].run = r /\ event'[i].kind = "progress"
                               /\ event'[i].sequence = ticket'[k].sequence + 1
  BY DEF LostReleaseIsRepairable
<1> DEFINE r == RunOf[k]
<1>2. r \in RunIds /\ run[r].status = "open" BY <1>0, <1>1, TicketConstants DEF Grows
<1>3. \A j \in Tickets \ {k} : RunOf[j] = r => ticket[j].status = "absent"
  BY <1>0, <1>1, StatusCases DEF Sole
<1>4. /\ run[r].version \in Nat /\ run[r].sequence \in Nat
      /\ run'[r].version \in Nat /\ run'[r].sequence \in Nat
      /\ ticket[k].version \in Nat /\ ticket[k].sequence \in Nat
      /\ ticket'[k].version \in Nat /\ ticket'[k].sequence \in Nat
  BY <1>0, <1>2 DEF TicketTypeOK, RunRow, TicketRow
<1>5. CASE ticket[k].status = "absent"
  <2>1. UNCHANGED <<run, event>> /\ ticket'[k].version = 1 /\ ticket'[k].sequence = 0
    BY <1>0, <1>1, <1>5, StatusCases DEF RepairInv, FreshTickets
  <2>2. \A j \in Tickets : RunOf[j] = r => ticket[j].status = "absent" BY <1>3, <1>5
  <2>3. run'[r].version = 1 /\ run'[r].sequence = 0
    BY <1>2, <2>1, <2>2 DEF RepairInv, FreshRuns
  <2> QED BY <2>1, <2>3
<1>6. CASE ticket[k].status # "absent"
  <2>1. /\ run[r].version - ticket[k].version \in {0, 1}
        /\ run[r].sequence = ticket[k].sequence + (run[r].version - ticket[k].version)
        /\ run[r].version - ticket[k].version = 1 => \E i \in EventIds :
             /\ event[i] # None /\ event[i].run = r /\ event[i].kind = "progress"
             /\ event[i].sequence = ticket[k].sequence + 1
    BY <1>2, <1>3, <1>6 DEF RepairInv, LostReleaseIsRepairable, Sole
  <2>2. /\ \/ ticket'[k].version = ticket[k].version /\ ticket'[k].sequence = ticket[k].sequence
           \/ /\ ticket'[k].version > ticket[k].version /\ ticket'[k].sequence > ticket[k].sequence
              /\ ticket'[k].version <= run[r].version /\ ticket'[k].sequence <= run[r].sequence
    BY <1>0, <1>2, TicketCases
  <2>3. CASE run'[r] = run[r]
    <3>1. CASE ticket'[k].version = ticket[k].version /\ ticket'[k].sequence = ticket[k].sequence
      <4>1. run[r].version - ticket[k].version = 1 => \E i \in EventIds :
              /\ event'[i] # None /\ event'[i].run = r /\ event'[i].kind = "progress"
              /\ event'[i].sequence = ticket[k].sequence + 1
        BY <1>0, <2>1 DEF Grows
      <4> HIDE DEF r
      <4> QED BY <2>1, <2>3, <3>1, <4>1 DEF r
    <3>2. CASE /\ ticket'[k].version > ticket[k].version /\ ticket'[k].sequence > ticket[k].sequence
               /\ ticket'[k].version <= run[r].version /\ ticket'[k].sequence <= run[r].sequence
      <4>1. run[r].version - ticket'[k].version = 0 /\ run[r].sequence = ticket'[k].sequence
        <5> HIDE DEF r
        <5> QED BY <1>4, <2>1, <3>2
      <4> QED BY <1>4, <2>3, <4>1
    <3> QED BY <2>2, <3>1, <3>2
  <2>4. CASE run'[r] # run[r]
    <3>1. PICK h \in Handlers : Progressed(h) /\ RunOf[handler[h].ticket] = r
      <4>1. ASSUME NEW x \in RunIds, RunEnds(x) PROVE FALSE
        BY <1>0, <1>1, <1>2, <2>4, <4>1 DEF RunEnds, TicketTypeOK, RunRow
      <4>2. ASSUME NEW h \in Handlers, Ended(h) \/ Noted(h) PROVE FALSE
        <5>1. handler[h] # None BY <4>2 DEF Ended, Noted, Wrote
        <5>2. RunOf[handler[h].ticket] \in RunIds BY <1>0, <5>1, BusyType
        <5> QED BY <1>0, <1>1, <1>2, <2>4, <4>2, <5>2 DEF Ended, Noted, TicketTypeOK
      <4>3. ASSUME NEW h \in Handlers, Progressed(h) PROVE RunOf[handler[h].ticket] = r
        BY <1>0, <1>2, <2>4, <4>3 DEF Progressed, TicketTypeOK
      <4> QED BY <1>0, <2>4, <4>1, <4>2, <4>3, RunCases
    <3> DEFINE q == handler[h]
               s == CommandSequence(q)
               w == q.msg.id
    <3>2. /\ q # None /\ q.msg.kind = "progress" /\ q.stage \in {"claimed", "replaying"}
          /\ event[w] = None /\ ticket' = ticket /\ s > run[r].sequence
          /\ q.version = run[r].version
          /\ run' = [run EXCEPT ![r].version = @ + 1, ![r].sequence = s]
          /\ Store(q, s, run[r].version + 1)
      BY <3>1 DEF Progressed, Wrote, Applying, At
    <3>3. q.ticket \in Tickets /\ q.sequence \in Nat /\ s \in Nat /\ w \in EventIds
      BY <1>0, <3>2, BusyType
    <3>4. q.ticket = k
      <4>1. ticket[q.ticket].status # "absent" BY <3>2 DEF RepairInv, TicketIsIssued
      <4> QED BY <1>3, <3>1, <3>3, <4>1
    <3>5. /\ s \in {q.sequence, q.sequence + 1} /\ q.version <= ticket[k].version
          /\ q.version = ticket[k].version => q.sequence = ticket[k].sequence
      BY <3>2, <3>4 DEF RepairInv, AdmittedInPlace
    <3>6. run[r].version = ticket[k].version /\ run[r].sequence = ticket[k].sequence
      <4>1. ticket[k].version <= run[r].version BY <1>0, <1>2 DEF CursorNotAhead
      <4> HIDE DEF r, q
      <4> QED BY <1>4, <2>1, <3>2, <3>5, <4>1
    <3>7. s = ticket[k].sequence + 1
      <4> HIDE DEF r, q, s
      <4> QED BY <1>4, <3>2, <3>3, <3>5, <3>6
    <3>8. run'[r].version = run[r].version + 1 /\ run'[r].sequence = s
      BY <1>0, <1>2, <3>2 DEF TicketTypeOK, RunRow
    <3>9. /\ event'[w] = [run |-> r, kind |-> "progress", sequence |-> s, version |-> run[r].version + 1]
      BY <1>0, <3>1, <3>2, <3>3 DEF Store, TicketTypeOK
    <3>10. event'[w] # None
      <4>1. run[r].version + 1 \in Nat BY <1>4
      <4> QED BY <1>2, <3>3, <3>9, <4>1, NoneIsNoRow DEF EventRow, Kinds
    <3>11. run'[r].version - ticket'[k].version = 1 /\ run'[r].sequence = ticket'[k].sequence + 1
      <4> HIDE DEF r, q, s
      <4> QED BY <1>4, <3>2, <3>6, <3>7, <3>8
    <3>12. \E i \in EventIds : /\ event'[i] # None /\ event'[i].run = r /\ event'[i].kind = "progress"
                              /\ event'[i].sequence = ticket'[k].sequence + 1
      BY <3>2, <3>3, <3>7, <3>9, <3>10
    <3> HIDE DEF r
    <3> QED BY <3>11, <3>12 DEF r
  <2> QED BY <2>3, <2>4
<1> QED BY <1>5, <1>6

(* A request that stored a progress event may lose its claim, crash or be  *)
(* refused before it moves the cursor.  The only Ticket of a Run then      *)
(* trails it by this one event, never by more: an event that repeats it is *)
(* a duplicate that brings the cursor up to date.                          *)
THEOREM LostReleasesAreRepairable == TicketSpec => []LostReleaseIsRepairable
<1>1. TicketInit => TicketInv /\ RepairInv
  <2> SUFFICES ASSUME TicketInit PROVE TicketInv /\ RepairInv
    OBVIOUS
  <2>1. /\ \A h \in Handlers : handler[h] = None
        /\ \A k \in Tickets : /\ ticket[k].status = "absent" /\ ticket[k].version = 1
                              /\ ticket[k].sequence = 0
        /\ \A r \in RunIds : run[r].version = 1 /\ run[r].sequence = 0
    BY DEF TicketInit
  <2> QED BY <2>1, InvInit DEF RepairInv, TicketIsIssued, FreshTickets, FreshRuns, AdmittedInPlace,
                                LostReleaseIsRepairable
<1>2. TicketInv /\ RepairInv /\ [TicketNext]_ticketVars => (TicketInv /\ RepairInv)'
  BY InvStep, TicketIsIssuedStep, FreshTicketsStep, FreshRunsStep, AdmittedInPlaceStep, RepairableStep
     DEF TicketInv, RepairInv
<1>3. RepairInv => LostReleaseIsRepairable BY DEF RepairInv
<1> QED BY <1>1, <1>2, <1>3, PTL DEF TicketSpec


-----------------------------------------------------------------------------
(* The execution trace.                                                    *)

FactNames ==
  {"turn", "decision", "context", "recall", "run", "event", "result", "failure", "handoff",
   "workflow", "formed", "proposed", "revised", "unformed", "resolved", "applied", "indexed"}
Stages == {"fact", "report", "repair"}
Drafts == [fact : FactNames, stage : Stages, c : Nat]
Rows == [fact : FactNames, stage : Stages, c : Nat, off : Nat]
Phases == {"fact", "repair1", "flush", "repair2", "answer"}
CallRecords ==
  [at : {"begin", "insert", "commit", "settle", "done"}, phase : Phases, kind : CallKinds,
   todo : Seq(FactNames), anew : BOOLEAN, number : Nat, gaps : Seq(Drafts), made : Seq(Drafts),
   ok : BOOLEAN, off : Nat]

TraceTypeOK ==
  /\ cast \in TraceCasts
  /\ rows \in SUBSET Rows
  /\ nextOffset \in Nat
  /\ call \in [Caller -> CallRecords \cup {NoCall}]
  /\ pend \in [Service -> Seq(Drafts)]
  /\ reported \in [Service -> SUBSET Drafts]
  /\ failed \in [Service -> SUBSET FactNames]
  /\ reader \in [at : {"off", "read", "on"}, cursor : Nat, seen : SUBSET Rows]
  /\ calls \in Nat /\ faults \in Nat /\ restarts \in Nat

HasRow(R, f, stage) == \E x \in R : x.fact = f /\ x.stage = stage
StoredIn(R, d) == \E x \in R : x.fact = d.fact /\ x.stage = d.stage /\ x.c = d.c

(* What a call at work holds: the fact it records, and the gap it reports  *)
(* or repairs.                                                             *)
CallInPlace(r) ==
  /\ r.at # "done" => r.todo # <<>>
  /\ r.at \in {"insert", "commit", "settle"} => r.phase # "answer"
  /\ r.at = "settle" => r.phase # "fact"
  /\ r.at = "done" => r.phase = "fact"
  /\ r.at \in {"insert", "commit", "settle"} /\ r.phase # "fact" => r.gaps # <<>>
  /\ r.at \in {"insert", "commit", "settle"} /\ r.phase \in {"repair1", "repair2"} =>
       Head(r.gaps).fact = Head(r.todo)

(* A call past the writing of its fact finds it in the trace, and one that *)
(* settles a report finds the report.                                      *)
WrittenBefore(R, r) ==
  /\ r.phase # "fact" => HasRow(R, Head(r.todo), "fact")
  /\ r.at = "settle" /\ r.phase = "flush" => HasRow(R, Head(r.gaps).fact, "report")

(* Of the facts a call has begun to write, while none was refused or       *)
(* failed, all but the one at hand are in the trace.                       *)
MadeIsStored(R, r) ==
  r.ok =>
    \A i \in DOMAIN r.made :
      \/ StoredIn(R, r.made[i])
      \/ r.phase = "fact" /\ r.at \in {"insert", "commit"} /\ r.made[i] = FactDraft(r)

GoodCall(R, r) == CallInPlace(r) /\ WrittenBefore(R, r) /\ MadeIsStored(R, r)
CallsAreGood == \A p \in Caller : call[p] # NoCall => GoodCall(rows, call[p])

(* A repair is of a fact that is there.                                    *)
RepairsAreTrue == \A x \in rows : x.stage = "repair" => HasRow(rows, x.fact, "fact")

(* A fact that failed is there, or waits to be reported, or is reported.   *)
Waits(gaps, f) == \E i \in DOMAIN gaps : gaps[i].fact = f
FailureIsKnown ==
  \A s \in Service : \A f \in failed[s] :
    HasRow(rows, f, "fact") \/ Waits(pend[s], f) \/ HasRow(rows, f, "report")

(* There is a last row.                                                    *)
LastRow == rows # {} => \E x \in rows : \A y \in rows : y.off <= x.off

(* In the Memory repository offsets are drawn and shown in one step, and a *)
(* client has been sent every row up to its cursor.                        *)
MemoryInOrder ==
  cast.store = "memory" =>
    /\ \A x \in rows : x.off < nextOffset
    /\ \A p \in Caller : call[p] # NoCall => call[p].at # "commit"
    /\ reader.at # "off" => reader.cursor < nextOffset
    /\ NothingSkipped

TraceInv ==
  /\ TraceTypeOK
  /\ CallsAreGood
  /\ RepairsAreTrue
  /\ FailureIsKnown
  /\ LastRow
  /\ MemoryInOrder

-----------------------------------------------------------------------------
(* Records of calls.                                                       *)

(* Short sequences.                                                        *)
LEMMA ShortSequences ==
  ASSUME NEW S, NEW a \in S, NEW b \in S, NEW c \in S
  PROVE  /\ <<a>> \in Seq(S) /\ Len(<<a>>) = 1
         /\ <<a, b>> \in Seq(S) /\ Len(<<a, b>>) = 2
         /\ <<a, b, c>> \in Seq(S) /\ Len(<<a, b, c>>) = 3
OBVIOUS

(* What is not removed from a sequence stays in it.                        *)
LEMMA RemoveAtKeeps == ASSUME NEW S, NEW s \in Seq(S), NEW i \in 1..Len(s)
  PROVE /\ RemoveAt(s, i) \in Seq(S)
        /\ \A j \in 1..Len(s) : j # i => \E k \in DOMAIN RemoveAt(s, i) : RemoveAt(s, i)[k] = s[j]
<1> DEFINE a == SubSeq(s, 1, i-1)  b == SubSeq(s, i+1, Len(s))
<1>1. Len(s) \in Nat /\ i - 1 \in Int /\ i + 1 \in Int OBVIOUS
<1>2. a \in Seq(S) /\ Len(a) = i - 1 /\ \A k \in 1..(i-1) : a[k] = s[k]
  <2>1. \A k \in 1..(i-1) : s[k] \in S BY ElementOfSeq
  <2> QED BY <1>1, <2>1, SubSeqProperties
<1>3. b \in Seq(S) /\ Len(b) = Len(s) - i /\ \A k \in 1..(Len(s)-i) : b[k] = s[i+k]
  <2>1. \A k \in (i+1)..Len(s) : s[k] \in S BY ElementOfSeq
  <2> QED BY <1>1, <2>1, SubSeqProperties
<1> HIDE DEF a, b
<1>4. RemoveAt(s, i) = a \o b BY DEF RemoveAt, a, b
<1> DEFINE c == a \o b
<1>5. /\ c \in Seq(S) /\ Len(c) = Len(a) + Len(b)
      /\ \A k \in 1..Len(a) + Len(b) : c[k] = IF k <= Len(a) THEN a[k] ELSE b[k - Len(a)]
  BY <1>2, <1>3, ConcatProperties
<1>7. DOMAIN c = 1..Len(c) BY <1>5, LenProperties
<1> HIDE DEF c
<1>6. ASSUME NEW j \in 1..Len(s), j # i
      PROVE \E k \in DOMAIN c : c[k] = s[j]
  <2>1. CASE j < i
    <3>1. Len(c) = Len(s) - 1 /\ Len(a) + Len(b) = Len(s) - 1 BY <1>1, <1>2, <1>3, <1>5
    <3>2. j \in 1..(i-1) /\ j \in 1..(Len(s) - 1) BY <1>1, <2>1
    <3>3. j <= Len(a) BY <1>1, <1>2, <3>2
    <3>4. j \in DOMAIN c BY <1>7, <3>1, <3>2
    <3>5. c[j] = a[j] BY <1>5, <3>1, <3>2, <3>3
    <3>6. a[j] = s[j] BY <1>2, <3>2
    <3> QED BY <3>4, <3>5, <3>6
  <2>2. CASE j > i
    <3>1. j - i \in 1..(Len(s)-i) /\ i + (j - i) = j BY <1>1, <2>2
    <3>2. b[j - i] = s[j] BY <1>3, <3>1
    <3>3. j - 1 \in DOMAIN c /\ ~(j - 1 <= Len(a)) /\ (j - 1) - Len(a) = j - i
      BY <1>1, <1>2, <1>3, <1>5, <1>7, <2>2
    <3>4. c[j - 1] = s[j] BY <1>5, <1>7, <3>2, <3>3
    <3> QED BY <3>3, <3>4
  <2> QED BY <1>6, <2>1, <2>2
<1> QED BY <1>4, <1>5, <1>6 DEF c

(* Every call records a sequence of facts, at least one.                   *)
LEMMA FactsAreSequences ==
  ASSUME NEW kind \in CallKinds, NEW facts \in FactsOf(kind)
  PROVE  facts \in Seq(FactNames) /\ facts # <<>>
<1>1. /\ "turn" \in FactNames /\ "decision" \in FactNames /\ "context" \in FactNames
      /\ "recall" \in FactNames /\ "run" \in FactNames /\ "event" \in FactNames
      /\ "result" \in FactNames /\ "failure" \in FactNames /\ "handoff" \in FactNames
      /\ "workflow" \in FactNames /\ "formed" \in FactNames /\ "proposed" \in FactNames
      /\ "revised" \in FactNames /\ "unformed" \in FactNames /\ "resolved" \in FactNames
      /\ "applied" \in FactNames /\ "indexed" \in FactNames
  BY DEF FactNames
<1>2. CASE kind = "route"
  <2>1. PICK pack \in ContextFacts, rest \in RunFacts :
          facts = <<"turn", "decision">> \o pack \o rest
    BY <1>2 DEF FactsOf, RouteFacts
  <2>2. pack \in Seq(FactNames)
    <3>1. pack = <<>> \/ pack = <<"context">> \/ pack = <<"context", "recall">>
      BY <2>1 DEF ContextFacts
    <3>2. <<"context">> \in Seq(FactNames) /\ <<"context", "recall">> \in Seq(FactNames)
      BY <1>1, ShortSequences
    <3> QED BY <3>1, <3>2, EmptySeq
  <2>3. rest \in Seq(FactNames)
    <3>1. rest = <<>> \/ rest = <<"run">> BY <2>1 DEF RunFacts
    <3>2. <<"run">> \in Seq(FactNames) BY <1>1, ShortSequences
    <3> QED BY <3>1, <3>2, EmptySeq
  <2>4. <<"turn", "decision">> \in Seq(FactNames) /\ Len(<<"turn", "decision">>) = 2
    BY <1>1, ShortSequences
  <2> DEFINE first == <<"turn", "decision">> \o pack
  <2>5. first \in Seq(FactNames) /\ Len(first) = 2 + Len(pack)
    BY <2>2, <2>4, ConcatProperties
  <2> HIDE DEF first
  <2>6. first \o rest \in Seq(FactNames) /\ Len(first \o rest) = Len(first) + Len(rest)
    BY <2>3, <2>5, ConcatProperties
  <2>7. facts = first \o rest BY <2>1 DEF first
  <2>8. Len(pack) \in Nat /\ Len(rest) \in Nat BY <2>2, <2>3, LenProperties
  <2> QED BY <2>5, <2>6, <2>7, <2>8, EmptySeq
<1>3. CASE kind # "route"
  <2>1. \/ facts = <<"event">> \/ facts = <<"event", "result">> \/ facts = <<"event", "failure">>
        \/ facts = <<"handoff">> \/ facts = <<"workflow">> \/ facts = <<"formed">>
        \/ facts = <<"formed", "proposed">> \/ facts = <<"formed", "proposed", "revised">>
        \/ facts = <<"unformed">> \/ facts = <<"resolved">> \/ facts = <<"resolved", "applied">>
        \/ facts = <<"indexed">>
    BY <1>3 DEF CallKinds, FactsOf, ProgressFacts, CompletedFacts, FailedFacts, NoteFacts,
      HandoffFacts, WorkflowFacts, FormationFacts, FormationFailureFacts, ResolutionFacts,
      IndexFacts
  <2>2. CASE facts = <<"event">> \/ facts = <<"handoff">> \/ facts = <<"workflow">>
             \/ facts = <<"formed">> \/ facts = <<"unformed">> \/ facts = <<"resolved">>
             \/ facts = <<"indexed">>
    <3>1. PICK a \in FactNames : facts = <<a>> BY <1>1, <2>2
    <3> QED BY <3>1, ShortSequences, EmptySeq
  <2>3. CASE facts = <<"event", "result">> \/ facts = <<"event", "failure">>
             \/ facts = <<"formed", "proposed">> \/ facts = <<"resolved", "applied">>
    <3>1. PICK a \in FactNames, b \in FactNames : facts = <<a, b>> BY <1>1, <2>3
    <3> QED BY <3>1, ShortSequences, EmptySeq
  <2>4. CASE facts = <<"formed", "proposed", "revised">>
    <3>1. PICK a \in FactNames, b \in FactNames, c \in FactNames : facts = <<a, b, c>>
      BY <1>1, <2>4
    <3> QED BY <3>1, ShortSequences, EmptySeq
  <2> QED BY <2>1, <2>2, <2>3, <2>4
<1> QED BY <1>2, <1>3

(* The fact a call records next is a draft, and so is what it writes.      *)
LEMMA WritesADraft ==
  ASSUME NEW r \in CallRecords, r.todo # <<>>
  PROVE  /\ FactDraft(r) \in Drafts
         /\ FactDraft(r).fact = Head(r.todo) /\ FactDraft(r).stage = "fact"
         /\ CallInPlace(r) /\ r.at \in {"insert", "commit"} =>
              /\ Writing(r) \in Drafts
              /\ Writing(r).stage = "report" <=> r.phase = "flush"
              /\ r.phase = "fact" => Writing(r) = FactDraft(r)
              /\ r.phase = "flush" => Writing(r).fact = Head(r.gaps).fact
              /\ Writing(r).stage = "repair" =>
                   /\ r.phase \in {"repair1", "repair2"}
                   /\ Writing(r).fact = Head(r.todo)
<1> DEFINE n == IF Head(r.todo) \in Stamped \/ (Head(r.todo) \in Told /\ r.anew)
                THEN r.number ELSE 0
<1>1. FactDraft(r) = [fact |-> Head(r.todo), stage |-> "fact", c |-> n]
  BY DEF FactDraft, Draft
<1>2. n \in Nat BY DEF CallRecords
<1>3. Head(r.todo) \in FactNames BY DEF CallRecords
<1> HIDE DEF n
<1>4. FactDraft(r) \in Drafts /\ FactDraft(r).fact = Head(r.todo) /\ FactDraft(r).stage = "fact"
  BY <1>1, <1>2, <1>3 DEF Drafts, Stages
<1>5. ASSUME CallInPlace(r), r.at \in {"insert", "commit"}, r.phase # "fact"
      PROVE  /\ Head(r.gaps) \in Drafts
             /\ r.phase \in {"repair1", "flush", "repair2"}
             /\ Writing(r) = [fact |-> Head(r.gaps).fact, c |-> Head(r.gaps).c,
                              stage |-> IF r.phase = "flush" THEN "report" ELSE "repair"]
  BY <1>5 DEF CallInPlace, CallRecords, Phases, Writing, Draft
<1>6. ASSUME r.phase = "fact" PROVE Writing(r) = FactDraft(r)
  BY <1>6 DEF Writing
<1> QED BY <1>4, <1>5, <1>6 DEF Drafts, Stages, CallInPlace

(* The parts of a call that the end of an answer keeps.                    *)
LEMMA AnsweredGood ==
  ASSUME NEW R, NEW r \in CallRecords, r.todo # <<>>, NEW complete \in BOOLEAN,
         r.ok /\ complete => \A i \in DOMAIN r.made : StoredIn(R, r.made[i])
  PROVE  Answered(r, complete) \in CallRecords /\ GoodCall(R, Answered(r, complete))
<1> DEFINE b == Answered(r, complete)  rest == Tail(r.todo)
           at == IF Tail(r.todo) = <<>> THEN "done" ELSE "begin"
<1>1. rest \in Seq(FactNames) BY DEF CallRecords
<1>2. PICK fine \in BOOLEAN : fine <=> r.ok /\ complete OBVIOUS
<1>2a. fine = (r.ok /\ complete) BY <1>2 DEF CallRecords
<1>2b. b = [r EXCEPT !.todo = rest, !.ok = fine, !.gaps = <<>>, !.phase = "fact", !.at = at]
  BY <1>2a DEF Answered
<1>2c. at \in {"done", "begin"} /\ (at # "done" => rest # <<>>) OBVIOUS
<1> HIDE DEF b, rest, at
<1>3. b \in CallRecords BY <1>1, <1>2b, <1>2c, EmptySeq DEF CallRecords, Phases
<1>4. /\ b.at \in {"done", "begin"} /\ (b.at # "done" => b.todo # <<>>) /\ b.phase = "fact"
      /\ b.made = r.made /\ (b.ok <=> r.ok /\ complete)
  BY <1>2, <1>2b, <1>2c DEF CallRecords
<1>5. CallInPlace(b) /\ WrittenBefore(R, b) BY <1>4 DEF CallInPlace, WrittenBefore
<1>6. MadeIsStored(R, b) BY <1>4 DEF MadeIsStored
<1> QED BY <1>3, <1>5, <1>6 DEF b, GoodCall

(* A refused fact ends the call or is noted.                               *)
LEMMA ConflictedGood ==
  ASSUME NEW R, NEW r \in CallRecords, r.todo # <<>>
  PROVE  Conflicted(r) \in CallRecords /\ GoodCall(R, Conflicted(r))
<1> DEFINE a == Answered(r, FALSE)  b == Conflicted(r)
<1>1. a \in CallRecords /\ GoodCall(R, a) BY AnsweredGood
<1>2. b = a \/ b = [a EXCEPT !.at = "done"] 
  BY <1>1 DEF Conflicted, CallRecords
<1>3. a.phase = "fact" /\ a.ok = FALSE BY DEF Answered, CallRecords
<1> HIDE DEF a, b
<1>4. b \in CallRecords BY <1>1, <1>2 DEF CallRecords
<1>5. b.phase = "fact" /\ b.ok = FALSE /\ (b.at = a.at \/ b.at = "done") /\ b.todo = a.todo /\ b.gaps = a.gaps
  BY <1>1, <1>2, <1>3 DEF CallRecords
<1>6. GoodCall(R, b) BY <1>1, <1>3, <1>5 DEF GoodCall, CallInPlace, WrittenBefore, MadeIsStored
<1> QED BY <1>4, <1>6 DEF b

(* From repair to report, to repair, to the answer.                        *)
LEMMA NextPhaseGood ==
  ASSUME NEW R, NEW r \in CallRecords, r.todo # <<>>, r.phase \in {"repair1", "flush", "repair2"},
         WrittenBefore(R, r), MadeIsStored(R, r)
  PROVE  NextPhase(r) \in CallRecords /\ GoodCall(R, NextPhase(r))
<1> DEFINE b == NextPhase(r)
<1>1. PICK ph \in {"flush", "repair2", "answer"} : b = [r EXCEPT !.phase = ph, !.at = "begin"]
  BY DEF NextPhase
<1> HIDE DEF b
<1>2. b \in CallRecords BY <1>1 DEF CallRecords, Phases
<1>3. b.phase = ph /\ b.at = "begin" /\ b.todo = r.todo /\ b.made = r.made /\ b.ok = r.ok
  BY <1>1 DEF CallRecords
<1>4. GoodCall(R, b) BY <1>3 DEF GoodCall, CallInPlace, WrittenBefore, MadeIsStored
<1> QED BY <1>2, <1>4 DEF b
-----------------------------------------------------------------------------
(* Steps of a call.                                                        *)

(* Rows are only added, so what a call has found in the trace stays there. *)
LEMMA RowsKeepCalls ==
  ASSUME NEW R, NEW Q, R \subseteq Q, NEW r, GoodCall(R, r)
  PROVE  GoodCall(Q, r)
<1>1. \A f, stage : HasRow(R, f, stage) => HasRow(Q, f, stage) BY DEF HasRow
<1>2. \A d : StoredIn(R, d) => StoredIn(Q, d) BY DEF StoredIn
<1>3. WrittenBefore(Q, r) BY <1>1 DEF GoodCall, WrittenBefore
<1>4. MadeIsStored(Q, r) BY <1>2 DEF GoodCall, MadeIsStored
<1> QED BY <1>3, <1>4 DEF GoodCall

CallStep(p) ==
  \E b \in CallRecords :
    /\ call' = [call EXCEPT ![p] = b]
    /\ GoodCall(rows', b)
    /\ b.at = "commit" => cast.store = "database"

(* A call at work has a record, and knows its fact.                        *)
LEMMA CallAtWork ==
  ASSUME TraceTypeOK, CallsAreGood, NEW p \in Caller, call[p].at # "idle"
  PROVE  /\ call[p] \in CallRecords
         /\ GoodCall(rows, call[p])
         /\ call[p].at # "done" => call[p].todo # <<>>
<1>1. call[p] # NoCall BY DEF NoCall
<1>2. call[p] \in CallRecords \cup {NoCall} BY DEF TraceTypeOK
<1> QED BY <1>1, <1>2 DEF CallsAreGood, GoodCall, CallInPlace

(* A gap is remembered once.                                               *)
LEMMA GapRemembered ==
  ASSUME pend \in [Service -> Seq(Drafts)], NEW s \in Service, NEW d \in Drafts, RememberGap(s, d)
  PROVE  /\ pend' \in [Service -> Seq(Drafts)]
         /\ \A v \in Service, f \in FactNames : Waits(pend[v], f) => Waits(pend'[v], f)
         /\ Waits(pend'[s], d.fact)
<1> DEFINE old == pend[s]
           new == IF \E i \in DOMAIN old : old[i].fact = d.fact THEN old ELSE Append(old, d)
<1>1. pend' = [pend EXCEPT ![s] = new] BY DEF RememberGap
<1>2. old \in Seq(Drafts) OBVIOUS
<1>3. /\ new \in Seq(Drafts)
      /\ \A i \in DOMAIN old : i \in DOMAIN new /\ new[i] = old[i]
      /\ \E i \in DOMAIN new : new[i].fact = d.fact
  <2>1. CASE \E i \in DOMAIN old : old[i].fact = d.fact BY <1>2, <2>1
  <2>2. CASE ~\E i \in DOMAIN old : old[i].fact = d.fact
    <3>1. new = Append(old, d) BY <2>2
    <3>2. /\ Append(old, d) \in Seq(Drafts)
          /\ Len(Append(old, d)) = Len(old) + 1
          /\ \A i \in 1..Len(old) : Append(old, d)[i] = old[i]
          /\ Append(old, d)[Len(old) + 1] = d
          /\ Len(old) \in Nat /\ DOMAIN old = 1..Len(old)
          /\ DOMAIN Append(old, d) = 1..(Len(old) + 1)
      BY <1>2
    <3>3. Len(old) + 1 \in DOMAIN Append(old, d) BY <3>2
    <3> HIDE DEF new, old
    <3> QED BY <3>1, <3>2, <3>3
  <2> QED BY <2>1, <2>2
<1>4. \A i \in DOMAIN pend[s] : i \in DOMAIN new /\ new[i] = pend[s][i] BY <1>3
<1> HIDE DEF new, old
<1>5. pend' \in [Service -> Seq(Drafts)] /\ pend'[s] = new BY <1>1, <1>3
<1>6. \A v \in Service : v # s => pend'[v] = pend[v] BY <1>1
<1>7. ASSUME NEW v \in Service, NEW f \in FactNames, Waits(pend[v], f) PROVE Waits(pend'[v], f)
  <2>1. PICK i \in DOMAIN pend[v] : pend[v][i].fact = f BY <1>7 DEF Waits
  <2>2. CASE v = s BY <1>4, <1>5, <2>1, <2>2 DEF Waits
  <2>3. CASE v # s BY <1>6, <2>1, <2>3 DEF Waits
  <2> QED BY <2>2, <2>3
<1>8. Waits(pend'[s], d.fact) BY <1>3, <1>5 DEF Waits
<1> QED BY <1>5, <1>7, <1>8

(* A gap that is reported waits no longer; the others do.                  *)
LEMMA PoppedKeeps ==
  ASSUME NEW gaps \in Seq(Drafts), NEW fact
  PROVE  /\ Popped(gaps, fact) \in Seq(Drafts)
         /\ \A i \in DOMAIN gaps : gaps[i].fact # fact =>
              \E k \in DOMAIN Popped(gaps, fact) : Popped(gaps, fact)[k].fact = gaps[i].fact
<1> DEFINE here == {i \in DOMAIN gaps : gaps[i].fact = fact}
<1>1. CASE here = {} BY <1>1 DEF Popped
<1>2. CASE here # {}
  <2>1. PICK n \in here : n = CHOOSE i \in here : TRUE BY <1>2
  <2>2. Popped(gaps, fact) = RemoveAt(gaps, n) BY <1>2, <2>1 DEF Popped
  <2>3. n \in DOMAIN gaps /\ gaps[n].fact = fact BY <2>1
  <2>4. DOMAIN gaps = 1..Len(gaps) BY LenProperties
  <2>5. /\ RemoveAt(gaps, n) \in Seq(Drafts)
        /\ \A j \in 1..Len(gaps) : j # n =>
             \E k \in DOMAIN RemoveAt(gaps, n) : RemoveAt(gaps, n)[k] = gaps[j]
    BY <2>3, <2>4, RemoveAtKeeps
  <2> HIDE DEF here
  <2> QED BY <2>2, <2>3, <2>4, <2>5
<1> QED BY <1>1, <1>2

(* However a write ends, the call goes on from a state that is true of the *)
(* trace, and a failure is known to its service.                           *)
LEMMA WriteEndsGood ==
  ASSUME TraceTypeOK, CallsAreGood, NEW p \in Caller, call[p].at \in {"insert", "commit"},
         NEW d, d = Writing(call[p]), NEW result \in {"ok", "failed", "conflict"},
         WriteEnds(p, d, result), rows \subseteq rows', result = "ok" => StoredIn(rows', d)
  PROVE  /\ CallStep(p)
         /\ pend' \in [Service -> Seq(Drafts)] /\ failed' \in [Service -> SUBSET FactNames]
         /\ FailureIsKnown => FailureIsKnown'
<1> DEFINE r == call[p]  s == ServiceOf(r.kind)
<1>1. r \in CallRecords /\ GoodCall(rows, r) /\ r.todo # <<>> BY CallAtWork
<1>2. s \in Service BY DEF ServiceOf, Service
<1>3. GoodCall(rows', r) BY <1>1, RowsKeepCalls
<1>4. /\ FactDraft(r) \in Drafts /\ FactDraft(r).fact = Head(r.todo)
      /\ FactDraft(r).stage = "fact"
      /\ d \in Drafts
      /\ d.stage = "report" <=> r.phase = "flush"
      /\ r.phase = "fact" => d = FactDraft(r)
      /\ r.phase = "flush" => d.fact = Head(r.gaps).fact
  BY <1>1, WritesADraft DEF GoodCall
<1>5. Types:: pend \in [Service -> Seq(Drafts)] /\ failed \in [Service -> SUBSET FactNames]
  BY DEF TraceTypeOK
<1>6. \A f, stage : HasRow(rows, f, stage) => HasRow(rows', f, stage) BY DEF HasRow
<1>7. d.fact \in FactNames BY <1>4 DEF Drafts
<1> HIDE DEF s
<1>8. ASSUME UNCHANGED <<pend, failed>>
      PROVE  /\ pend' \in [Service -> Seq(Drafts)] /\ failed' \in [Service -> SUBSET FactNames]
             /\ FailureIsKnown => FailureIsKnown'
  BY <1>5, <1>6, <1>8 DEF FailureIsKnown, Waits, HasRow
<1>9. CASE r.phase = "fact" /\ result = "failed"
  <2>1. /\ RememberGap(s, d) /\ failed' = [failed EXCEPT ![s] = @ \cup {d.fact}]
        /\ call' = [call EXCEPT ![p] = Answered(r, FALSE)]
    BY <1>9 DEF WriteEnds, s
  <2>2. Answered(r, FALSE) \in CallRecords /\ GoodCall(rows', Answered(r, FALSE))
    BY <1>1, AnsweredGood
  <2>3. Answered(r, FALSE).at # "commit" BY <1>1 DEF Answered, CallRecords
  <2>4. CallStep(p) BY <2>1, <2>2, <2>3 DEF CallStep
  <2>5. /\ pend' \in [Service -> Seq(Drafts)]
        /\ \A v \in Service, f \in FactNames : Waits(pend[v], f) => Waits(pend'[v], f)
        /\ Waits(pend'[s], d.fact)
    BY <1>2, <1>4, <1>5, <2>1, GapRemembered
  <2>6. failed' \in [Service -> SUBSET FactNames] BY <1>2, <1>5, <1>7, <2>1
  <2>7. ASSUME FailureIsKnown, NEW v \in Service, NEW f \in failed'[v]
        PROVE  HasRow(rows', f, "fact") \/ Waits(pend'[v], f) \/ HasRow(rows', f, "report")
    <3>1. CASE f \in failed[v]
      BY <1>5, <1>6, <2>5, <2>7, <3>1 DEF FailureIsKnown
    <3>2. CASE f \notin failed[v]
      <4>1. v = s /\ f = d.fact BY <1>2, <1>5, <2>1, <3>2
      <4> QED BY <2>5, <4>1
    <3> QED BY <3>1, <3>2
  <2>8. FailureIsKnown => FailureIsKnown' BY <2>7 DEF FailureIsKnown
  <2> QED BY <2>4, <2>5, <2>6, <2>8
<1>10. CASE r.phase = "fact" /\ result = "conflict"
  <2>1. call' = [call EXCEPT ![p] = Conflicted(r)] /\ UNCHANGED <<pend, failed>>
    BY <1>10 DEF WriteEnds
  <2>2. Conflicted(r) \in CallRecords /\ GoodCall(rows', Conflicted(r))
    BY <1>1, ConflictedGood
  <2>3. Conflicted(r).at # "commit"
    <3>1. Answered(r, FALSE).at # "commit" BY <1>1 DEF Answered, CallRecords
    <3>2. Answered(r, FALSE) \in CallRecords BY <1>1, AnsweredGood
    <3> DEFINE a == Answered(r, FALSE)
    <3>3. Conflicted(r) = a \/ Conflicted(r) = [a EXCEPT !.at = "done"]
      BY <3>2 DEF Conflicted, CallRecords
    <3> HIDE DEF a
    <3>4. a \in CallRecords /\ a.at # "commit" BY <3>1, <3>2 DEF a
    <3> QED BY <3>3, <3>4 DEF CallRecords
  <2> QED BY <1>8, <2>1, <2>2, <2>3 DEF CallStep
<1>11. CASE r.phase = "fact" /\ result = "ok"
  <2> DEFINE b == [r EXCEPT !.phase = "repair1", !.at = "begin"]
  <2>1. call' = [call EXCEPT ![p] = b] /\ UNCHANGED <<pend, failed>>
    BY <1>11 DEF WriteEnds
  <2>2. /\ b \in CallRecords /\ b.phase = "repair1" /\ b.at = "begin" /\ b.todo = r.todo
        /\ b.made = r.made /\ b.ok = r.ok
    BY <1>1 DEF CallRecords, Phases
  <2> HIDE DEF b
  <2>3. StoredIn(rows', FactDraft(r)) BY <1>4, <1>11
  <2>4. HasRow(rows', Head(b.todo), "fact") BY <1>4, <2>2, <2>3 DEF HasRow, StoredIn
  <2>5. GoodCall(rows', b)
    BY <1>1, <1>3, <2>2, <2>3, <2>4 DEF GoodCall, CallInPlace, WrittenBefore, MadeIsStored
  <2> QED BY <1>8, <2>1, <2>2, <2>5 DEF CallStep
<1>12. CASE r.phase # "fact" /\ result = "ok"
  <2> DEFINE b == [r EXCEPT !.at = "settle"]
  <2>1. call' = [call EXCEPT ![p] = b] /\ UNCHANGED <<pend, failed>>
    BY <1>12 DEF WriteEnds
  <2>2. /\ b \in CallRecords /\ b.phase = r.phase /\ b.at = "settle" /\ b.todo = r.todo
        /\ b.made = r.made /\ b.ok = r.ok /\ b.gaps = r.gaps
    BY <1>1 DEF CallRecords
  <2> HIDE DEF b
  <2>3. r.phase = "flush" => HasRow(rows', Head(r.gaps).fact, "report")
    BY <1>4, <1>12 DEF HasRow, StoredIn
  <2>4. GoodCall(rows', b)
    BY <1>1, <1>3, <1>12, <2>2, <2>3 DEF GoodCall, CallInPlace, WrittenBefore, MadeIsStored
  <2> QED BY <1>8, <2>1, <2>2, <2>4 DEF CallStep
<1>13. CASE r.phase # "fact" /\ result # "ok"
  <2>1. call' = [call EXCEPT ![p] = NextPhase(r)] /\ UNCHANGED <<pend, failed>>
    BY <1>13 DEF WriteEnds
  <2>2. r.phase \in {"repair1", "flush", "repair2"}
    BY <1>1, <1>13 DEF GoodCall, CallInPlace, CallRecords, Phases
  <2>3. NextPhase(r) \in CallRecords /\ GoodCall(rows', NextPhase(r))
    BY <1>1, <1>3, <2>2, NextPhaseGood DEF GoodCall
  <2>4. NextPhase(r).at # "commit" BY <1>1, <2>2 DEF NextPhase, CallRecords
  <2> QED BY <1>8, <2>1, <2>3, <2>4 DEF CallStep
<1> QED BY <1>9, <1>10, <1>11, <1>12, <1>13
(* A step of one call leaves the others as they are.                       *)
LEMMA CallStepKeeps ==
  ASSUME TraceTypeOK, CallsAreGood, NEW p \in Caller, CallStep(p), rows \subseteq rows', cast' = cast
  PROVE  /\ call' \in [Caller -> CallRecords \cup {NoCall}]
         /\ CallsAreGood'
         /\ (cast.store = "memory" /\ \A q \in Caller : call[q] # NoCall => call[q].at # "commit") =>
              \A q \in Caller : call'[q] # NoCall => call'[q].at # "commit"
<1>1. PICK b \in CallRecords : /\ call' = [call EXCEPT ![p] = b]
                               /\ GoodCall(rows', b)
                               /\ b.at = "commit" => cast.store = "database"
  BY DEF CallStep
<1>2. call \in [Caller -> CallRecords \cup {NoCall}] BY DEF TraceTypeOK
<1>3. call' \in [Caller -> CallRecords \cup {NoCall}] BY <1>1, <1>2
<1>4. \A q \in Caller : call'[q] = IF q = p THEN b ELSE call[q] BY <1>1, <1>2
<1>5. ASSUME NEW q \in Caller, call'[q] # NoCall PROVE GoodCall(rows', call'[q])
  <2>1. CASE q = p BY <1>1, <1>4, <2>1
  <2>2. CASE q # p
    <3>1. call'[q] = call[q] BY <1>4, <2>2
    <3> QED BY <1>5, <3>1, RowsKeepCalls DEF CallsAreGood
  <2> QED BY <2>1, <2>2
<1>6. CallsAreGood' BY <1>5 DEF CallsAreGood
<1> QED BY <1>1, <1>3, <1>4, <1>6

(* A row that is added says what the call writes.                          *)
LEMMA RowAdded ==
  ASSUME TraceTypeOK, CallsAreGood, RepairsAreTrue, LastRow, NEW p \in Caller,
         call[p].at \in {"insert", "commit"}, NEW off \in Nat,
         rows' = rows \cup {Row(Writing(call[p]), off)}
  PROVE  /\ rows' \in SUBSET Rows
         /\ StoredIn(rows', Writing(call[p]))
         /\ RepairsAreTrue'
         /\ LastRow'
<1> DEFINE r == call[p]  d == Writing(r)  x == Row(d, off)
<1>1. r \in CallRecords /\ GoodCall(rows, r) /\ r.todo # <<>> BY CallAtWork
<1>2. /\ d \in Drafts
      /\ d.stage = "repair" => r.phase \in {"repair1", "repair2"} /\ d.fact = Head(r.todo)
  BY <1>1, WritesADraft DEF GoodCall
<1> HIDE DEF d
<1>3. x \in Rows /\ x.fact = d.fact /\ x.stage = d.stage /\ x.c = d.c /\ x.off = off
  BY <1>2 DEF Row, Rows, Drafts
<1>4. rows' = rows \cup {x} BY DEF d
<1> HIDE DEF x
<1>5. rows' \in SUBSET Rows BY <1>3, <1>4 DEF TraceTypeOK
<1>6. StoredIn(rows', d) BY <1>3, <1>4 DEF StoredIn
<1>7. d.stage = "repair" => HasRow(rows, d.fact, "fact")
  BY <1>1, <1>2 DEF GoodCall, WrittenBefore
<1>8. RepairsAreTrue' BY <1>3, <1>4, <1>7 DEF RepairsAreTrue, HasRow
<1>9. LastRow'
  <2>1. CASE rows = {} BY <1>3, <1>4, <2>1 DEF LastRow
  <2>2. CASE rows # {}
    <3>1. PICK z \in rows : \A y \in rows : y.off <= z.off BY <2>2 DEF LastRow
    <3>2. /\ z.off \in Nat /\ x.off \in Nat /\ \A y \in rows : y.off \in Nat
      BY <1>3, <3>1 DEF TraceTypeOK, Rows
    <3>3. CASE z.off <= x.off BY <1>4, <3>1, <3>2, <3>3 DEF LastRow
    <3>4. CASE x.off <= z.off BY <1>4, <3>1, <3>2, <3>4 DEF LastRow
    <3> QED BY <3>2, <3>3, <3>4
  <2> QED BY <2>1, <2>2
<1> QED BY <1>5, <1>6, <1>8, <1>9 DEF d

(* A write keeps the invariant, in either repository, also when the caller *)
(* never learns that its row was committed.                                *)
LEMMA WriteStep ==
  ASSUME TraceInv, NEW p \in Caller, AppendInMemory(p) \/ CommitRow(p) \/ WriteFails(p)
  PROVE  TraceInv'
<1> DEFINE d == Writing(call[p])
<1>1. /\ TraceTypeOK /\ CallsAreGood /\ RepairsAreTrue /\ FailureIsKnown /\ LastRow
      /\ MemoryInOrder
      /\ call[p].at \in {"insert", "commit"}
  BY DEF TraceInv, AppendInMemory, CommitRow, WriteFails
<1>2. call[p] \in CallRecords /\ call[p] # NoCall BY <1>1, CallAtWork DEF NoCall
<1>3. /\ nextOffset \in Nat /\ call[p].off \in Nat /\ faults \in Nat
      /\ cast.store = "memory" => call[p].at # "commit"
  BY <1>1, <1>2 DEF TraceTypeOK, CallRecords, MemoryInOrder
<1>4. /\ \/ rows' = rows /\ (nextOffset' = nextOffset)
         \/ rows' = rows \cup {Row(d, call[p].off)} /\ nextOffset' = nextOffset
              /\ cast.store # "memory"
         \/ rows' = rows \cup {Row(d, nextOffset)} /\ nextOffset' = nextOffset + 1
      /\ faults' \in Nat
  BY <1>3 DEF AppendInMemory, CommitRow, WriteFails
<1>5. /\ rows' \in SUBSET Rows /\ rows \subseteq rows' /\ RepairsAreTrue' /\ LastRow'
      /\ rows' # rows => StoredIn(rows', d)
      /\ nextOffset' \in Nat
  <2>1. CASE rows' = rows
    BY <1>1, <1>3, <1>4, <2>1 DEF TraceTypeOK, RepairsAreTrue, LastRow
  <2>2. CASE rows' # rows
    <3>1. PICK off \in Nat : rows' = rows \cup {Row(d, off)} BY <1>3, <1>4, <2>2
    <3> QED BY <1>1, <1>3, <1>4, <3>1, RowAdded
  <2> QED BY <2>1, <2>2
<1>6. PICK result \in {"ok", "failed", "conflict"} :
        WriteEnds(p, d, result) /\ (result = "ok" => StoredIn(rows', d))
  <2>1. \A off : rows' = rows \cup {Row(d, off)} => StoredIn(rows', d)
    <3>1. \A off : Row(d, off).fact = d.fact /\ Row(d, off).stage = d.stage /\ Row(d, off).c = d.c
      BY DEF Row
    <3> HIDE DEF d
    <3>2. ASSUME NEW off, rows' = rows \cup {Row(d, off)} PROVE StoredIn(rows', d)
      <4>1. Row(d, off) \in rows' BY <3>2
      <4> QED BY <3>1, <4>1 DEF StoredIn
    <3> QED BY <3>2
  <2>3. Replayed(d) /\ rows' = rows => StoredIn(rows', d)
    BY DEF Replayed, SameSource, StoredIn
  <2> HIDE DEF d
  <2>4. CASE AppendInMemory(p) BY <2>1, <2>3, <2>4 DEF AppendInMemory, d
  <2>5. CASE CommitRow(p) BY <2>1, <2>3, <2>5 DEF CommitRow, d
  <2>6. CASE WriteFails(p) BY <2>6 DEF WriteFails, d
  <2> QED BY <2>4, <2>5, <2>6
<1>7. /\ CallStep(p)
      /\ pend' \in [Service -> Seq(Drafts)] /\ failed' \in [Service -> SUBSET FactNames]
      /\ FailureIsKnown'
  BY <1>1, <1>5, <1>6, WriteEndsGood
<1>8. UNCHANGED <<reported, cast, reader, calls, restarts>> BY <1>6 DEF WriteEnds
<1>9. /\ call' \in [Caller -> CallRecords \cup {NoCall}]
      /\ CallsAreGood'
      /\ (cast.store = "memory" /\ \A q \in Caller : call[q] # NoCall => call[q].at # "commit") =>
              \A q \in Caller : call'[q] # NoCall => call'[q].at # "commit"
  BY <1>1, <1>5, <1>7, <1>8, CallStepKeeps
<1>10. TraceTypeOK' BY <1>1, <1>4, <1>5, <1>7, <1>8, <1>9 DEF TraceTypeOK
<1>11. MemoryInOrder'
  <2> SUFFICES ASSUME cast.store = "memory"
               PROVE  /\ \A x \in rows' : x.off < nextOffset'
                      /\ \A q \in Caller : call'[q] # NoCall => call'[q].at # "commit"
                      /\ reader.at # "off" => reader.cursor < nextOffset'
                      /\ reader.at # "off" =>
                           \A x \in rows' : x.off <= reader.cursor => x \in reader.seen
    BY <1>8 DEF MemoryInOrder, NothingSkipped
  <2>1. /\ \A x \in rows : x.off < nextOffset
        /\ \A q \in Caller : call[q] # NoCall => call[q].at # "commit"
        /\ reader.at # "off" => reader.cursor < nextOffset
        /\ reader.at # "off" => \A x \in rows : x.off <= reader.cursor => x \in reader.seen
    BY <1>1 DEF MemoryInOrder, NothingSkipped
  <2>2. reader.cursor \in Nat /\ \A x \in rows : x.off \in Nat
    BY <1>1 DEF TraceTypeOK, Rows
  <2>3. \/ rows' = rows /\ nextOffset' = nextOffset
        \/ rows' = rows \cup {Row(d, nextOffset)} /\ nextOffset' = nextOffset + 1
    BY <1>4
  <2>4. Row(d, nextOffset).off = nextOffset BY DEF Row
  <2> HIDE DEF d
  <2> QED BY <1>3, <1>9, <2>1, <2>2, <2>3, <2>4
<1> QED BY <1>5, <1>7, <1>9, <1>10, <1>11 DEF TraceInv
(* A step that adds no row.                                                *)
LEMMA QuietStep ==
  ASSUME TraceInv, NEW p \in Caller, CallStep(p), UNCHANGED <<cast, rows, reader, faults, restarts>>,
         nextOffset' \in {nextOffset, nextOffset + 1}, calls' \in Nat,
         pend' \in [Service -> Seq(Drafts)], reported' \in [Service -> SUBSET Drafts],
         failed' = failed, FailureIsKnown'
  PROVE  TraceInv'
<1>1. /\ TraceTypeOK /\ CallsAreGood /\ RepairsAreTrue /\ LastRow /\ MemoryInOrder
  BY DEF TraceInv
<1>2. nextOffset \in Nat /\ nextOffset' \in Nat /\ nextOffset <= nextOffset'
  BY <1>1 DEF TraceTypeOK
<1>3. /\ call' \in [Caller -> CallRecords \cup {NoCall}]
      /\ CallsAreGood'
      /\ (cast.store = "memory" /\ \A q \in Caller : call[q] # NoCall => call[q].at # "commit") =>
              \A q \in Caller : call'[q] # NoCall => call'[q].at # "commit"
  BY <1>1, CallStepKeeps
<1>4. TraceTypeOK' BY <1>1, <1>2, <1>3 DEF TraceTypeOK
<1>5. RepairsAreTrue' /\ LastRow' BY <1>1 DEF RepairsAreTrue, LastRow
<1>6. MemoryInOrder'
  <2>1. reader.cursor \in Nat /\ \A x \in rows : x.off \in Nat
    BY <1>1 DEF TraceTypeOK, Rows
  <2> SUFFICES ASSUME cast.store = "memory"
               PROVE  /\ \A x \in rows : x.off < nextOffset'
                      /\ \A q \in Caller : call'[q] # NoCall => call'[q].at # "commit"
                      /\ reader.at # "off" => reader.cursor < nextOffset'
                      /\ NothingSkipped
    BY DEF MemoryInOrder, NothingSkipped
  <2>2. /\ \A x \in rows : x.off < nextOffset
        /\ \A q \in Caller : call[q] # NoCall => call[q].at # "commit"
        /\ reader.at # "off" => reader.cursor < nextOffset
        /\ NothingSkipped
    BY <1>1 DEF MemoryInOrder
  <2> QED BY <1>2, <1>3, <2>1, <2>2
<1> QED BY <1>3, <1>4, <1>5, <1>6 DEF TraceInv

(* A fact is the same draft as long as the call works on it.               *)
LEMMA SameDraft ==
  ASSUME NEW r, NEW b, b.todo = r.todo, b.anew = r.anew, b.number = r.number
  PROVE  FactDraft(b) = FactDraft(r)
BY DEF FactDraft

(* What happens to failures while no row and no gap changes.               *)
LEMMA FailuresStay ==
  ASSUME FailureIsKnown, UNCHANGED <<rows, pend, failed>>
  PROVE  FailureIsKnown'
BY DEF FailureIsKnown

(* A call begins.                                                          *)
LEMMA StartStep ==
  ASSUME TraceInv, NEW p \in Caller, Calling(p)
  PROVE  TraceInv'
<1>1. PICK kind \in cast.kinds : \E facts \in FactsOf(kind), anew \in BOOLEAN :
          StartCall(p, kind, facts, anew)
  BY DEF Calling
<1>2. PICK facts \in FactsOf(kind), anew \in BOOLEAN : StartCall(p, kind, facts, anew) BY <1>1
<1>3. TraceTypeOK /\ FailureIsKnown BY DEF TraceInv
<1>4. kind \in CallKinds BY <1>3, TraceConstants DEF TraceTypeOK
<1>5. facts \in Seq(FactNames) /\ facts # <<>> BY <1>4, FactsAreSequences
<1>6. PICK n \in Nat : n = calls + 1 BY <1>3 DEF TraceTypeOK
<1> DEFINE b == [at |-> "begin", phase |-> "fact", kind |-> kind, todo |-> facts, anew |-> anew,
                 number |-> n, gaps |-> <<>>, made |-> <<>>, ok |-> TRUE, off |-> 0]
<1>7. call' = [call EXCEPT ![p] = b] /\ calls' = n BY <1>2, <1>6 DEF StartCall
<1>8. <<>> \in Seq(Drafts) BY EmptySeq
<1>9. b \in CallRecords BY <1>4, <1>5, <1>8 DEF CallRecords, Phases
<1>10. /\ b.at = "begin" /\ b.phase = "fact" /\ b.todo # <<>> /\ b.made = <<>> BY <1>5
<1> HIDE DEF b
<1>11. \A i \in DOMAIN b.made : FALSE BY <1>10
<1>12. GoodCall(rows', b)
  BY <1>10, <1>11 DEF GoodCall, CallInPlace, WrittenBefore, MadeIsStored
<1>13. CallStep(p) BY <1>7, <1>9, <1>10, <1>12 DEF CallStep
<1>14. UNCHANGED <<cast, rows, nextOffset, pend, reported, failed, reader, faults, restarts>>
  BY <1>2 DEF StartCall
<1>15. FailureIsKnown' BY <1>3, <1>14, FailuresStay
<1> QED BY <1>3, <1>7, <1>13, <1>14, <1>15, QuietStep DEF TraceTypeOK

(* A call proceeds to its next write.                                      *)
LEMMA PrepareStep ==
  ASSUME TraceInv, NEW p \in Caller,
         WriteFact(p) \/ RecordRepair(p) \/ FlushGaps(p) \/ InsertRow(p) \/ AnswerCall(p)
  PROVE  TraceInv'
<1> DEFINE r == call[p]  s == ServiceOf(r.kind)
<1>1. TraceTypeOK /\ CallsAreGood /\ FailureIsKnown BY DEF TraceInv
<1>2. r.at \in {"begin", "insert"}
  BY DEF WriteFact, RecordRepair, FlushGaps, InsertRow, AnswerCall
<1>3. r \in CallRecords /\ GoodCall(rows, r) /\ r.todo # <<>> BY <1>1, <1>2, CallAtWork
<1>4. s \in Service BY DEF ServiceOf, Service
<1>5. /\ UNCHANGED <<cast, rows, pend, reported, failed, reader, calls, faults, restarts>>
      /\ nextOffset' \in {nextOffset, nextOffset + 1}
  BY DEF WriteFact, RecordRepair, FlushGaps, InsertRow, AnswerCall
<1>6. r.phase \in {"repair1", "flush", "repair2"} =>
        NextPhase(r) \in CallRecords /\ GoodCall(rows, NextPhase(r)) /\ NextPhase(r).at # "commit"
  <2>1. r.phase \in {"repair1", "flush", "repair2"} => NextPhase(r).at = "begin"
    BY <1>3 DEF NextPhase, CallRecords
  <2> QED BY <1>3, <2>1, NextPhaseGood DEF GoodCall
<1>7. CASE WriteFact(p)
  <2>1. PICK d \in Drafts : d = FactDraft(r) BY <1>3, WritesADraft
  <2> DEFINE b == [r EXCEPT !.at = "insert", !.made = Append(r.made, d)]
  <2>2. r.at = "begin" /\ r.phase = "fact" /\ call' = [call EXCEPT ![p] = b]
    BY <1>7, <2>1 DEF WriteFact
  <2>3. Append(r.made, d) \in Seq(Drafts) BY <1>3 DEF CallRecords
  <2>4. /\ b \in CallRecords /\ b.at = "insert" /\ b.phase = r.phase /\ b.todo = r.todo
        /\ b.anew = r.anew /\ b.number = r.number /\ b.made = Append(r.made, d) /\ b.ok = r.ok
    BY <1>3, <2>3 DEF CallRecords
  <2> HIDE DEF b
  <2>5. FactDraft(b) = d BY <2>1, <2>4, SameDraft
  <2>6. r.ok => \A i \in DOMAIN r.made : StoredIn(rows, r.made[i])
    BY <1>3, <2>2 DEF GoodCall, MadeIsStored
  <2>7. \A i \in DOMAIN b.made : (i \in DOMAIN r.made /\ b.made[i] = r.made[i]) \/ b.made[i] = d
    BY <1>3, <2>4 DEF CallRecords
  <2>8. MadeIsStored(rows, b) BY <2>2, <2>4, <2>5, <2>6, <2>7 DEF MadeIsStored
  <2>9. GoodCall(rows, b) BY <1>3, <2>2, <2>4, <2>8 DEF GoodCall, CallInPlace, WrittenBefore
  <2>10. CallStep(p) BY <1>5, <2>2, <2>4, <2>9 DEF CallStep
  <2> QED BY <1>1, <1>5, <2>10, FailuresStay, QuietStep DEF TraceTypeOK
<1>8. CASE RecordRepair(p)
  <2> DEFINE mine == {g \in reported[s] : g.fact = Head(r.todo)}
  <2>1. /\ r.at = "begin" /\ r.phase \in {"repair1", "repair2"}
        /\ call' = [call EXCEPT ![p] =
              IF mine = {} THEN NextPhase(r)
              ELSE [r EXCEPT !.at = "insert", !.gaps = <<CHOOSE g \in mine : TRUE>>]]
    BY <1>8 DEF RecordRepair
  <2>2. CASE mine = {}
    <3>1. call' = [call EXCEPT ![p] = NextPhase(r)] BY <2>1, <2>2
    <3>2. CallStep(p) BY <1>5, <1>6, <2>1, <3>1 DEF CallStep
    <3> QED BY <1>1, <1>5, <3>2, FailuresStay, QuietStep DEF TraceTypeOK
  <2>3. CASE mine # {}
    <3>1. PICK g \in mine : g = CHOOSE x \in mine : TRUE BY <2>3
    <3>2. g \in Drafts /\ g.fact = Head(r.todo) BY <1>1, <1>4, <3>1 DEF TraceTypeOK
    <3> DEFINE b == [r EXCEPT !.at = "insert", !.gaps = <<g>>]
    <3>3. call' = [call EXCEPT ![p] = b] BY <2>1, <2>3, <3>1
    <3>4. <<g>> \in Seq(Drafts) /\ <<g>> # <<>> /\ Head(<<g>>) = g BY <3>2
    <3>5. /\ b \in CallRecords /\ b.at = "insert" /\ b.phase = r.phase /\ b.todo = r.todo
          /\ b.gaps = <<g>> /\ b.made = r.made /\ b.ok = r.ok
      BY <1>3, <3>4 DEF CallRecords
    <3> HIDE DEF b
    <3>6. GoodCall(rows, b)
      BY <1>3, <2>1, <3>2, <3>4, <3>5 DEF GoodCall, CallInPlace, WrittenBefore, MadeIsStored
    <3>7. CallStep(p) BY <1>5, <3>3, <3>5, <3>6 DEF CallStep
    <3> QED BY <1>1, <1>5, <3>7, FailuresStay, QuietStep DEF TraceTypeOK
  <2> QED BY <2>2, <2>3
<1>9. CASE FlushGaps(p)
  <2> DEFINE b == [r EXCEPT !.at = "insert", !.gaps = pend[s]]
  <2>1. /\ r.at = "begin" /\ r.phase = "flush"
        /\ call' = [call EXCEPT ![p] = IF pend[s] = <<>> THEN NextPhase(r) ELSE b]
    BY <1>9 DEF FlushGaps
  <2>2. pend[s] \in Seq(Drafts) BY <1>1, <1>4 DEF TraceTypeOK
  <2> HIDE DEF s
  <2>3. CASE pend[s] = <<>>
    <3>1. call' = [call EXCEPT ![p] = NextPhase(r)] BY <2>1, <2>3
    <3>2. CallStep(p) BY <1>5, <1>6, <2>1, <3>1 DEF CallStep
    <3> QED BY <1>1, <1>5, <3>2, FailuresStay, QuietStep DEF TraceTypeOK
  <2>4. CASE pend[s] # <<>>
    <3>1. call' = [call EXCEPT ![p] = b] BY <2>1, <2>4
    <3>2. /\ b \in CallRecords /\ b.at = "insert" /\ b.phase = r.phase /\ b.todo = r.todo
          /\ b.gaps = pend[s] /\ b.made = r.made /\ b.ok = r.ok
      BY <1>3, <2>2 DEF CallRecords
    <3> HIDE DEF b
    <3>3. GoodCall(rows, b)
      BY <1>3, <2>1, <2>4, <3>2 DEF GoodCall, CallInPlace, WrittenBefore, MadeIsStored
    <3>4. CallStep(p) BY <1>5, <3>1, <3>2, <3>3 DEF CallStep
    <3> QED BY <1>1, <1>5, <3>4, FailuresStay, QuietStep DEF TraceTypeOK
  <2> QED BY <2>3, <2>4
<1>10. CASE InsertRow(p)
  <2>1. PICK n \in Nat : n = nextOffset BY <1>1 DEF TraceTypeOK
  <2> DEFINE b == [r EXCEPT !.at = "commit", !.off = n]
  <2>2. r.at = "insert" /\ cast.store = "database" /\ call' = [call EXCEPT ![p] = b]
    BY <1>10, <2>1 DEF InsertRow
  <2>3. /\ b \in CallRecords /\ b.at = "commit" /\ b.phase = r.phase /\ b.todo = r.todo
        /\ b.gaps = r.gaps /\ b.made = r.made /\ b.ok = r.ok /\ b.anew = r.anew
        /\ b.number = r.number
    BY <1>3 DEF CallRecords
  <2> HIDE DEF b
  <2>4. FactDraft(b) = FactDraft(r) BY <2>3, SameDraft
  <2>5. GoodCall(rows, b)
    BY <1>3, <2>2, <2>3, <2>4 DEF GoodCall, CallInPlace, WrittenBefore, MadeIsStored
  <2>6. CallStep(p) BY <1>5, <2>2, <2>3, <2>5 DEF CallStep
  <2> QED BY <1>1, <1>5, <2>6, FailuresStay, QuietStep DEF TraceTypeOK
<1>11. CASE AnswerCall(p)
  <2>1. PICK complete \in BOOLEAN : complete = ~Incomplete(s) OBVIOUS
  <2>2. r.at = "begin" /\ r.phase = "answer" /\ call' = [call EXCEPT ![p] = Answered(r, complete)]
    BY <1>11, <2>1 DEF AnswerCall
  <2>3. r.ok => \A i \in DOMAIN r.made : StoredIn(rows, r.made[i])
    BY <1>3, <2>2 DEF GoodCall, MadeIsStored
  <2>4. Answered(r, complete) \in CallRecords /\ GoodCall(rows, Answered(r, complete))
    BY <1>3, <2>3, AnsweredGood
  <2>5. Answered(r, complete).at # "commit" BY <1>3 DEF Answered, CallRecords
  <2>6. CallStep(p) BY <1>5, <2>2, <2>4, <2>5 DEF CallStep
  <2> QED BY <1>1, <1>5, <2>6, FailuresStay, QuietStep DEF TraceTypeOK
<1> QED BY <1>7, <1>8, <1>9, <1>10, <1>11
(* A gap whose report is written waits no longer, and is known by it.      *)
LEMMA SettleStep ==
  ASSUME TraceInv, NEW p \in Caller, SettleGap(p)
  PROVE  TraceInv'
<1> DEFINE r == call[p]  s == ServiceOf(r.kind)  gap == Head(r.gaps)
           others == {g \in reported[s] : g.fact # gap.fact}
<1>1. TraceTypeOK /\ CallsAreGood /\ FailureIsKnown BY DEF TraceInv
<1>2. r.at = "settle" BY DEF SettleGap
<1>3. r \in CallRecords /\ GoodCall(rows, r) /\ r.todo # <<>> BY <1>1, <1>2, CallAtWork
<1>4. s \in Service BY DEF ServiceOf, Service
<1>5. UNCHANGED <<cast, rows, nextOffset, failed, reader, calls, faults, restarts>>
  BY DEF SettleGap
<1>6. r.phase \in {"repair1", "flush", "repair2"} /\ r.gaps # <<>> /\ r.gaps \in Seq(Drafts)
  BY <1>2, <1>3 DEF GoodCall, CallInPlace, CallRecords, Phases
<1>7. gap \in Drafts BY <1>6
<1>8. /\ NextPhase(r) \in CallRecords /\ GoodCall(rows, NextPhase(r))
      /\ NextPhase(r).at # "commit"
  <2>1. NextPhase(r).at = "begin" BY <1>3, <1>6 DEF NextPhase, CallRecords
  <2> QED BY <1>3, <1>6, <2>1, NextPhaseGood DEF GoodCall
<1>9. CASE r.phase = "flush"
  <2> DEFINE left == Popped(pend[s], gap.fact)
             b == [r EXCEPT !.gaps = Tail(r.gaps), !.at = "insert"]
  <2>1. /\ pend' = [pend EXCEPT ![s] = left]
        /\ reported' = [reported EXCEPT ![s] = others \cup {gap}]
        /\ call' = [call EXCEPT ![p] = IF Len(r.gaps) = 1 THEN NextPhase(r) ELSE b]
    BY <1>9 DEF SettleGap
  <2>2. pend \in [Service -> Seq(Drafts)] /\ reported \in [Service -> SUBSET Drafts]
    BY <1>1 DEF TraceTypeOK
  <2>3. /\ left \in Seq(Drafts)
        /\ \A i \in DOMAIN pend[s] : pend[s][i].fact # gap.fact =>
             \E k \in DOMAIN left : left[k].fact = pend[s][i].fact
    <3>1. pend[s] \in Seq(Drafts) BY <1>4, <2>2
    <3> HIDE DEF s, gap
    <3> QED BY <3>1, PoppedKeeps
  <2>4. others \cup {gap} \in SUBSET Drafts BY <1>4, <1>7, <2>2
  <2> HIDE DEF left, others, gap, s
  <2>5. /\ pend' \in [Service -> Seq(Drafts)] /\ reported' \in [Service -> SUBSET Drafts]
        /\ pend'[s] = left /\ \A v \in Service : v # s => pend'[v] = pend[v]
    BY <1>4, <2>1, <2>2, <2>3, <2>4
  <2>6. HasRow(rows, gap.fact, "report")
    BY <1>2, <1>3, <1>9 DEF GoodCall, WrittenBefore, gap
  <2>7. FailureIsKnown'
    <3>1. SUFFICES ASSUME NEW v \in Service, NEW f \in failed[v]
                   PROVE  HasRow(rows, f, "fact") \/ Waits(pend'[v], f) \/ HasRow(rows, f, "report")
      BY <1>5 DEF FailureIsKnown
    <3>2. HasRow(rows, f, "fact") \/ Waits(pend[v], f) \/ HasRow(rows, f, "report")
      BY <1>1 DEF FailureIsKnown
    <3>3. ASSUME Waits(pend[v], f), f # gap.fact PROVE Waits(pend'[v], f)
      <4>1. CASE v = s BY <2>3, <2>5, <3>3, <4>1 DEF Waits
      <4>2. CASE v # s BY <2>5, <3>3, <4>2
      <4> QED BY <4>1, <4>2
    <3> QED BY <2>6, <3>2, <3>3
  <2>8. CASE Len(r.gaps) = 1
    <3>1. call' = [call EXCEPT ![p] = NextPhase(r)] BY <2>1, <2>8
    <3>2. CallStep(p) BY <1>5, <1>8, <3>1 DEF CallStep
    <3> QED BY <1>1, <1>5, <2>5, <2>7, <3>2, QuietStep DEF TraceTypeOK
  <2>9. CASE Len(r.gaps) # 1
    <3>1. call' = [call EXCEPT ![p] = b] BY <2>1, <2>9
    <3>2. Tail(r.gaps) \in Seq(Drafts) /\ Tail(r.gaps) # <<>>
      <4>1. Len(r.gaps) \in Nat \ {0} BY <1>6, EmptySeq
      <4>2. Tail(r.gaps) \in Seq(Drafts) /\ Len(Tail(r.gaps)) = Len(r.gaps) - 1
        BY <1>6, HeadTailProperties
      <4>3. Len(Tail(r.gaps)) # 0 BY <2>9, <4>1, <4>2
      <4>4. Tail(r.gaps) # <<>>
        <5> SUFFICES ASSUME Tail(r.gaps) = <<>> PROVE FALSE OBVIOUS
        <5>1. Len(Tail(r.gaps)) = Len(<<>>) OBVIOUS
        <5> QED BY <4>3, <5>1, EmptySeq
      <4> QED BY <4>2, <4>4
    <3>3. /\ b \in CallRecords /\ b.at = "insert" /\ b.phase = r.phase /\ b.todo = r.todo
          /\ b.gaps = Tail(r.gaps) /\ b.made = r.made /\ b.ok = r.ok
      BY <1>3, <3>2 DEF CallRecords
    <3> HIDE DEF b
    <3>4. GoodCall(rows, b)
      BY <1>3, <1>9, <3>2, <3>3 DEF GoodCall, CallInPlace, WrittenBefore, MadeIsStored
    <3>5. CallStep(p) BY <1>5, <3>1, <3>3, <3>4 DEF CallStep
    <3> QED BY <1>1, <1>5, <2>5, <2>7, <3>5, QuietStep DEF TraceTypeOK
  <2> QED BY <2>8, <2>9
<1>10. CASE r.phase # "flush"
  <2>1. /\ reported' = [reported EXCEPT ![s] = others] /\ pend' = pend
        /\ call' = [call EXCEPT ![p] = NextPhase(r)]
    BY <1>10 DEF SettleGap
  <2>2. pend \in [Service -> Seq(Drafts)] /\ reported \in [Service -> SUBSET Drafts]
    BY <1>1 DEF TraceTypeOK
  <2>3. reported' \in [Service -> SUBSET Drafts] BY <1>4, <2>1, <2>2
  <2>4. CallStep(p) BY <1>5, <1>8, <2>1 DEF CallStep
  <2> QED BY <1>1, <1>5, <2>1, <2>2, <2>3, <2>4, FailuresStay, QuietStep DEF TraceTypeOK
<1> QED BY <1>9, <1>10

(* The watermark is the last offset.                                       *)
LEMMA WatermarkIsLast ==
  ASSUME TraceTypeOK, LastRow, rows # {}
  PROVE  Watermark \in Nat /\ (\E x \in rows : x.off = Watermark) /\ \A y \in rows : y.off <= Watermark
<1>1. PICK x \in rows : \A y \in rows : y.off <= x.off BY DEF LastRow
<1>2. x.off \in {y.off : y \in rows} BY <1>1
<1>3. Watermark \in {y.off : y \in rows} /\ \A y \in rows : y.off <= Watermark
  BY <1>1, <1>2 DEF Watermark
<1> QED BY <1>3 DEF TraceTypeOK, Rows

(* Reading, and a restart, change what clients and services know of the    *)
(* trace and nothing else.                                                 *)
LEMMA ReaderStep ==
  ASSUME TraceInv, ReadSnapshot \/ OpenStream \/ PollStream \/ Restart
  PROVE  TraceInv'
<1>1. /\ TraceTypeOK /\ CallsAreGood /\ RepairsAreTrue /\ FailureIsKnown /\ LastRow
      /\ MemoryInOrder
  BY DEF TraceInv
<1>2. UNCHANGED <<cast, rows, nextOffset, calls, faults>>
  BY DEF ReadSnapshot, OpenStream, PollStream, Restart
<1>3. RepairsAreTrue' /\ LastRow' BY <1>1, <1>2 DEF RepairsAreTrue, LastRow
<1>4. /\ reader \in [at : {"off", "read", "on"}, cursor : Nat, seen : SUBSET Rows]
      /\ rows \in SUBSET Rows
  BY <1>1 DEF TraceTypeOK
<1>5. /\ reader' \in [at : {"off", "read", "on"}, cursor : Nat, seen : SUBSET Rows]
      /\ cast.store = "memory" =>
           /\ reader'.at # "off" => reader'.cursor < nextOffset
           /\ reader'.at # "off" => \A x \in rows : x.off <= reader'.cursor => x \in reader'.seen
  <2>1. cast.store = "memory" =>
          /\ \A x \in rows : x.off < nextOffset
          /\ reader.at # "off" => reader.cursor < nextOffset
          /\ reader.at # "off" => \A x \in rows : x.off <= reader.cursor => x \in reader.seen
    BY <1>1 DEF MemoryInOrder, NothingSkipped
  <2>2. CASE ReadSnapshot
    <3>1. rows # {} /\ reader' = [at |-> "read", cursor |-> Watermark, seen |-> rows]
      BY <2>2 DEF ReadSnapshot
    <3>2. Watermark \in Nat /\ \E x \in rows : x.off = Watermark BY <1>1, <3>1, WatermarkIsLast
    <3> QED BY <1>4, <2>1, <3>1, <3>2
  <2>3. CASE OpenStream
    <3>1. reader' = [reader EXCEPT !.at = "on"] /\ reader.at = "read" BY <2>3 DEF OpenStream
    <3> QED BY <1>4, <2>1, <3>1
  <2>4. CASE PollStream
    <3> DEFINE new == {x \in rows : x.off > reader.cursor}
    <3>1. /\ reader.at = "on" /\ new # {}
          /\ reader' = [reader EXCEPT !.cursor = Watermark, !.seen = reader.seen \cup new]
      BY <2>4 DEF PollStream
    <3>2. Watermark \in Nat /\ \E x \in rows : x.off = Watermark
      BY <1>1, <3>1, WatermarkIsLast
    <3>3. \A x \in rows : x \in new \/ x.off <= reader.cursor
      BY <1>4 DEF Rows
    <3>4. new \subseteq rows OBVIOUS
    <3>5. reader.seen \cup new \in SUBSET Rows BY <1>4, <3>4
    <3> HIDE DEF new
    <3>6. /\ reader' \in [at : {"off", "read", "on"}, cursor : Nat, seen : SUBSET Rows]
          /\ reader'.cursor = Watermark /\ reader'.seen = reader.seen \cup new
      BY <1>4, <3>1, <3>2, <3>5
    <3> QED BY <2>1, <3>1, <3>2, <3>3, <3>6
  <2>5. CASE Restart
    <3>1. reader' = [reader EXCEPT !.at = IF reader.at = "on" THEN "read" ELSE reader.at]
          /\ cast.store = "database"
      BY <2>5 DEF Restart
    <3> DEFINE at == IF reader.at = "on" THEN "read" ELSE reader.at
    <3>2. at \in {"off", "read", "on"} BY <1>4
    <3> HIDE DEF at
    <3>3. reader' = [reader EXCEPT !.at = at] BY <3>1 DEF at
    <3> QED BY <1>4, <3>1, <3>2, <3>3
  <2> QED BY <2>2, <2>3, <2>4, <2>5
<1>6. CASE ReadSnapshot \/ OpenStream \/ PollStream
  <2>1. UNCHANGED <<call, pend, reported, failed, restarts>>
    BY <1>6 DEF ReadSnapshot, OpenStream, PollStream
  <2>2. TraceTypeOK' BY <1>1, <1>2, <1>5, <2>1 DEF TraceTypeOK
  <2>3. CallsAreGood' /\ FailureIsKnown'
    BY <1>1, <1>2, <2>1, FailuresStay DEF CallsAreGood
  <2>4. MemoryInOrder'
    BY <1>1, <1>2, <1>5, <2>1 DEF MemoryInOrder, NothingSkipped
  <2> QED BY <1>3, <2>2, <2>3, <2>4 DEF TraceInv
<1>7. CASE Restart
  <2>1. /\ call' = [p \in Caller |-> NoCall]
        /\ pend' = [s \in Service |-> <<>>]
        /\ reported' = [s \in Service |-> {}]
        /\ failed' = [s \in Service |-> {}]
        /\ restarts' = restarts + 1 /\ cast.store = "database"
    BY <1>7 DEF Restart
  <2>2. <<>> \in Seq(Drafts) BY EmptySeq
  <2>3. pend' \in [Service -> Seq(Drafts)] BY <2>1, <2>2
  <2>4. restarts' \in Nat BY <1>1, <2>1 DEF TraceTypeOK
  <2>5. /\ call' \in [Caller -> CallRecords \cup {NoCall}]
        /\ reported' \in [Service -> SUBSET Drafts] /\ failed' \in [Service -> SUBSET FactNames]
    BY <2>1
  <2>6. TraceTypeOK' BY <1>1, <1>2, <1>5, <2>3, <2>4, <2>5 DEF TraceTypeOK
  <2>7. CallsAreGood' BY <2>1 DEF CallsAreGood
  <2>8. FailureIsKnown' BY <2>1 DEF FailureIsKnown
  <2>9. MemoryInOrder' BY <1>2, <2>1 DEF MemoryInOrder
  <2> QED BY <1>3, <2>6, <2>7, <2>8, <2>9 DEF TraceInv
<1> QED BY <1>6, <1>7

(* The invariant of the trace, whatever the number of callers, failing     *)
(* writes and restarts.                                                    *)
THEOREM TraceInvariant == TraceSpec => []TraceInv
<1>1. TraceInit => TraceInv
  <2> SUFFICES ASSUME TraceInit PROVE TraceInv OBVIOUS
  <2>1. /\ cast \in TraceCasts /\ rows = {} /\ nextOffset = 1
        /\ call = [p \in Caller |-> NoCall]
        /\ pend = [s \in Service |-> <<>>]
        /\ reported = [s \in Service |-> {}]
        /\ failed = [s \in Service |-> {}]
        /\ reader = [at |-> "off", cursor |-> 0, seen |-> {}]
        /\ calls = 0 /\ faults = 0 /\ restarts = 0
    BY DEF TraceInit
  <2>2. <<>> \in Seq(Drafts) BY EmptySeq
  <2>3. pend \in [Service -> Seq(Drafts)] BY <2>1, <2>2
  <2>4. TraceTypeOK BY <2>1, <2>3 DEF TraceTypeOK
  <2>5. CallsAreGood BY <2>1 DEF CallsAreGood
  <2>6. RepairsAreTrue /\ LastRow BY <2>1 DEF RepairsAreTrue, LastRow
  <2>7. FailureIsKnown BY <2>1 DEF FailureIsKnown
  <2>8. MemoryInOrder BY <2>1 DEF MemoryInOrder, NothingSkipped
  <2> QED BY <2>4, <2>5, <2>6, <2>7, <2>8 DEF TraceInv
<1>2. TraceInv /\ [TraceNext]_traceVars => TraceInv'
  <2>1. TraceInv /\ TraceNext => TraceInv'
    BY StartStep, PrepareStep, SettleStep, WriteStep, ReaderStep DEF TraceNext
  <2>2. TraceInv /\ UNCHANGED traceVars => TraceInv'
    BY DEF traceVars, TraceInv, TraceTypeOK, CallsAreGood, RepairsAreTrue, FailureIsKnown,
      LastRow, MemoryInOrder, NothingSkipped
  <2> QED BY <2>1, <2>2
<1> QED BY <1>1, <1>2, PTL DEF TraceSpec

(* The trace never claims to be complete when it is not: a fact that was   *)
(* lost shows until the process stops, whatever other calls flush, repair  *)
(* or conflict with, and a caller who is told "complete" finds what it     *)
(* recorded.                                                               *)
THEOREM TracesAreHonest == TraceSpec => []TraceIsHonest
<1>1. TraceInv => TraceIsHonest
  <2> SUFFICES ASSUME TraceInv PROVE TraceIsHonest OBVIOUS
  <2>1. CallsAreGood /\ RepairsAreTrue /\ FailureIsKnown /\ TraceTypeOK BY DEF TraceInv
  <2>2. GapIsShown
    <3> SUFFICES ASSUME NEW s \in Service, NEW f \in failed[s], ~HasRow(rows, f, "fact")
                 PROVE  Incomplete(s)
      BY DEF GapIsShown, HasRow
    <3>1. CASE Waits(pend[s], f)
      <4>1. pend[s] # <<>> BY <3>1 DEF Waits
      <4> QED BY <4>1 DEF Incomplete
    <3>2. CASE HasRow(rows, f, "report")
      <4>1. PICK x \in rows : x.fact = f /\ x.stage = "report" BY <3>2 DEF HasRow
      <4>2. ~\E y \in rows : y.stage = "repair" /\ y.fact = f BY <2>1 DEF RepairsAreTrue
      <4>3. x.fact \in OpenFailures BY <4>1, <4>2 DEF OpenFailures
      <4> QED BY <4>3 DEF Incomplete
    <3> QED BY <2>1, <3>1, <3>2 DEF FailureIsKnown
  <2>3. AnswerIsHonest
    <3> SUFFICES ASSUME NEW p \in Caller, call[p].at = "done", call[p].ok,
                        NEW i \in DOMAIN call[p].made
                 PROVE  Stored(call[p].made[i])
      BY DEF AnswerIsHonest
    <3>1. MadeIsStored(rows, call[p]) BY <2>1, CallAtWork DEF GoodCall
    <3> QED BY <3>1 DEF MadeIsStored, StoredIn, Stored
  <2> QED BY <2>2, <2>3 DEF TraceIsHonest
<1> QED BY <1>1, TraceInvariant, PTL

(* With the Memory repository a client that follows the stream is sent     *)
(* every event up to its cursor.                                           *)
THEOREM NothingIsSkippedInMemory == TraceSpec => []NothingSkippedInMemory
<1>1. TraceInv => NothingSkippedInMemory
  BY DEF TraceInv, MemoryInOrder, NothingSkippedInMemory
<1> QED BY <1>1, TraceInvariant, PTL
=============================================================================
