--------------------------- MODULE KnowledgeHandles ---------------------------
(***************************************************************************)
(* The one-time handles of controlled Knowledge Context.  A handle is      *)
(* issued for a caller's binding (tenant, principal, Agent, sources and    *)
(* trace) and kept in the memory of the process.  Three kinds of threads   *)
(* share the records under one condition variable: issuers, consumers and  *)
(* the expiry scheduler, which sleeps until the first expiry or until it   *)
(* is notified.  A consumer takes the record out under the lock and judges *)
(* it afterwards, when time may have passed.                               *)
(***************************************************************************)
EXTENDS Integers, FiniteSets

CONSTANTS
    Handle,      \* the handles that may be issued
    Consumer,    \* threads that present a handle
    Binding,     \* bindings a handle is issued for and presented with
    Ttl,         \* knowledge_context_handle_ttl_seconds
    Delay,       \* bound: the time an issuer waits for the lock, less than Ttl
    LastTime,    \* bound on the clock
    NoRecord

ASSUME TtlAssumption == Ttl \in Nat \ {0} /\ Delay \in 0..(Ttl - 1) /\ LastTime \in Nat

VARIABLES
    clock,      \* the service's clock
    records,    \* the body kept under each handle
    heap,       \* the expirations the scheduler works off: <<time, handle>>
    closed,     \* whether the service was closed
    scheduler,  \* "run", "wait" for a notification, "sleep" until a time, "done"
    consumers,  \* what each consumer holds in its hands
    given       \* history: who was given the body of a handle, when

handleVars == <<clock, records, heap, closed, scheduler, consumers, given>>

Running == [mode |-> "run", until |-> 0]
Idle == [state |-> "idle"]
Ever == {e[2] : e \in heap} \cup {h \in Handle : records[h] # NoRecord}

HandleInit ==
    /\ clock = 0
    /\ records = [h \in Handle |-> NoRecord]
    /\ heap = {}
    /\ closed = FALSE
    /\ scheduler = Running
    /\ consumers = [c \in Consumer |-> Idle]
    /\ given = {}

\* notify: a sleeping scheduler looks again.
Notified == IF scheduler.mode = "done" THEN scheduler ELSE Running

\* A new handle is random: it was never issued before.
Unissued(h) == records[h] = NoRecord /\ h \notin Ever /\ (\A g \in given : g.handle # h)
               /\ (\A c \in Consumer : consumers[c] # Idle => consumers[c].handle # h)

\* Mutant of StoreNotified: the scheduler is not told of a new expiration.
StoreSilently == scheduler
StoreNotified == Notified

\* issue: the record and its expiration are stored under the lock; the clock was
\* read before the lock was taken.
Issue(h, b, at) ==
    /\ ~closed
    /\ clock <= at + Delay
    /\ Unissued(h)
    /\ records' = [records EXCEPT ![h] = [binding |-> b, expires |-> at + Ttl]]
    /\ heap' = heap \cup {<<at + Ttl, h>>}
    /\ scheduler' = StoreNotified
    /\ UNCHANGED <<clock, closed, consumers, given>>

\* consume, under the lock: whatever happens next, the record is gone.
Present(c, h, b) ==
    /\ consumers[c] = Idle
    /\ consumers' = [consumers EXCEPT ![c] =
                        [state |-> "judge", handle |-> h, binding |-> b, record |-> records[h]]]
    /\ records' = [records EXCEPT ![h] = NoRecord]
    /\ scheduler' = Notified
    /\ UNCHANGED <<clock, heap, closed, given>>

\* Mutant of Accepts: the expiry is left to the scheduler.
AcceptsLate(held) == held.record # NoRecord /\ held.record.binding = held.binding

\* consume, after the lock: unknown, expired and misdirected handles are refused.
Accepts(held) ==
    /\ held.record # NoRecord
    /\ clock < held.record.expires
    /\ held.record.binding = held.binding
Judge(c) ==
    /\ consumers[c].state = "judge"
    /\ given' = IF Accepts(consumers[c])
                THEN given \cup {[handle |-> consumers[c].handle, by |-> c, at |-> clock,
                                  binding |-> consumers[c].binding,
                                  meant |-> consumers[c].record.binding,
                                  expires |-> consumers[c].record.expires]}
                ELSE given
    /\ consumers' = [consumers EXCEPT ![c] = Idle]
    /\ UNCHANGED <<clock, records, heap, closed, scheduler>>

\* _run_expiry_scheduler, one turn of its loop under the lock.
First == CHOOSE e \in heap : \A o \in heap : e[1] <= o[1]
ErasesRecord(e) == records[e[2]] # NoRecord /\ records[e[2]].expires = e[1]
SchedulerTurn ==
    /\ scheduler.mode = "run"
    /\ \/ /\ closed
          /\ scheduler' = [scheduler EXCEPT !.mode = "done"]
          /\ UNCHANGED <<heap, records>>
       \/ /\ ~closed /\ heap = {}
          /\ scheduler' = [scheduler EXCEPT !.mode = "wait"]
          /\ UNCHANGED <<heap, records>>
       \/ /\ ~closed /\ heap # {} /\ First[1] > clock
          /\ scheduler' = [mode |-> "sleep", until |-> First[1]]
          /\ UNCHANGED <<heap, records>>
       \/ /\ ~closed /\ heap # {} /\ First[1] <= clock
          /\ heap' = heap \ {First}
          /\ records' = IF ErasesRecord(First)
                        THEN [records EXCEPT ![First[2]] = NoRecord] ELSE records
          /\ UNCHANGED scheduler
    /\ UNCHANGED <<clock, closed, consumers, given>>

\* The scheduler's wait times out.
SchedulerWakes ==
    /\ scheduler.mode = "sleep" /\ scheduler.until <= clock
    /\ scheduler' = Running
    /\ UNCHANGED <<clock, records, heap, closed, consumers, given>>

\* close: the records are erased; the scheduler is told to end.
Close ==
    /\ ~closed
    /\ closed' = TRUE
    /\ records' = [h \in Handle |-> NoRecord]
    /\ heap' = {}
    /\ scheduler' = Notified
    /\ UNCHANGED <<clock, consumers, given>>

Advance ==
    /\ clock < LastTime
    /\ clock' = clock + 1
    /\ UNCHANGED <<records, heap, closed, scheduler, consumers, given>>

HandleNext ==
    \/ \E h \in Handle, b \in Binding, at \in 0..clock : Issue(h, b, at)
    \/ \E c \in Consumer, h \in Handle, b \in Binding : Present(c, h, b)
    \/ \E c \in Consumer : Judge(c)
    \/ SchedulerTurn
    \/ SchedulerWakes
    \/ Close
    \/ Advance

----------------------------------------------------------------------------
\* One-time handles of KnowledgeContextHandleService: the body of a handle is
\* given to at most one consumer, to the one it was issued for, before its
\* expiry, however consumers, scheduler and close interleave.
GivenOnceInTime ==
    \A g \in given :
        /\ g.binding = g.meant
        /\ g.at < g.expires
        /\ \A o \in given : o.handle = g.handle => o = g
        /\ records[g.handle] = NoRecord

\* Expiry: once the clock has passed the expiry of an unconsumed handle, its body
\* is erased, without anybody asking for it.
ExpiredBodyErased ==
    \A h \in Handle :
        (records[h] # NoRecord /\ clock >= records[h].expires) ~> (records[h] = NoRecord)
=============================================================================
