-------------------------- MODULE MemoryLifecycle --------------------------
(***************************************************************************)
(* The canonical rows of long-term memory: memory_items, memory_revisions, *)
(* memory_events and the outbox memory_index_operations, as                *)
(* MemoryLifecycleService and DatabaseMemoryLifecycleStore write them.     *)
(*                                                                         *)
(* Formation accepts additions and updates, the user and the TTL sweeper   *)
(* ask for deletions.  All work from what they have read before and are    *)
(* held together by the revision they expect.  A deletion has two stages:  *)
(* the item becomes deletion_pending with an operation for the external    *)
(* index, and is removed when that operation has completed.                *)
(*                                                                         *)
(* All memories of the model have the same owner, scope and memory_key, so *)
(* they compete for the unique key.  Ids are stable hashes of the          *)
(* operation that creates them: a memory and its first revision are known  *)
(* by the ADD operation, another revision by its UPDATE operation.         *)
(***************************************************************************)
EXTENDS Naturals, Sequences, FiniteSets

CONSTANTS
    Memory,        \* ADD operations, and the memories they create
    Update,        \* UPDATE and CONSOLIDATE operations
    Deleter,       \* sources of deletions; "ttl" is the sweeper
    MaxExternal,   \* bound: ids the external index hands out
    Casts          \* bound: who takes part, and which constraint KeyFree has;
                   \* a behaviour has one cast

NoRev == "none"
ASSUME MemoryAssumption ==
    /\ MaxExternal \in Nat
    /\ Memory \cap Update = {} /\ NoRev \notin Memory \cup Update

Revision == Memory \cup Update
External == 1..MaxExternal     \* 0 stands for a missing id

VARIABLES
    cast,         \* the operations and processes that take part
    item,         \* memory_items
    revs,         \* memory_revisions, ordered by revision_no
    events,       \* ids of memory_events that decide a replay
    ops,          \* memory_index_operations
    queue,        \* the operations in the order of created_at
    intent,       \* what formation has read for an update
    asked         \* what a deleter has read

lifeVars == <<cast, item, revs, events, ops, queue, intent, asked>>

OpId ==
    ({"add"} \X Memory) \cup ({"update"} \X Update) \cup ({"delete"} \X Memory \X Deleter)
      \cup ({"compensate"} \X Memory \X External)
Kind(o) == IF o[1] = "compensate" THEN "delete" ELSE o[1]

NoItem == [status |-> "none", rev |-> NoRev, index |-> "none", ext |-> 0,
           content |-> FALSE, expired |-> FALSE]
NoOp == [status |-> "none", m |-> NoRev, rev |-> NoRev, ext |-> 0, attempts |-> 0,
         lease |-> "none", token |-> 0, key |-> FALSE]
NoTarget == [m |-> NoRev, rev |-> NoRev]

LifeInit ==
    /\ cast \in Casts
    /\ item = [m \in Memory |-> NoItem]
    /\ revs = [m \in Memory |-> <<>>]
    /\ events = {}
    /\ ops = [o \in OpId |-> NoOp]
    /\ queue = <<>>
    /\ intent = [u \in Update |-> NoTarget]
    /\ asked = [d \in Deleter |-> NoTarget]

-----------------------------------------------------------------------------
(* Helpers.                                                                *)

Is(m, status) == item[m].status = status
Indexable(m) == Is(m, "active") /\ ~item[m].expired
Deleted(m) == \E e \in events : e[1] = "tombstone" /\ ops[e[2]].m = m

\* The constraint of the ORM model covers lifecycle_status, so at most one
\* item of a key is deletion_pending; that of the SQL schema is an index on
\* active rows only.
KeyFree(m, status) ==
    \/ "active_only" \in cast /\ status # "active"
    \/ \A other \in Memory \ {m} : ~Is(other, status)

\* _index_operation, added in the transaction of the change it belongs to.
Enqueue(o, m, rev, ext) ==
    /\ ops' = [ops EXCEPT ![o] = [NoOp EXCEPT !.status = "pending", !.m = m, !.rev = rev,
                                              !.ext = ext]]
    /\ queue' = Append(queue, o)

-----------------------------------------------------------------------------
(* Formation.                                                              *)

\* What _add and _update put into the row: the new text is not indexed yet.
NewItem(m) ==
    [status |-> "active", rev |-> m, index |-> "pending", ext |-> 0, content |-> TRUE,
     expired |-> FALSE]
Revised(it, u) == [it EXCEPT !.rev = u, !.index = "pending", !.content = TRUE]

\* Mutant of CommitAdd: a repeated operation looks for the item, not the event.
CommitAddAgain(m) ==
    /\ m \in cast
    /\ Is(m, "none")
    /\ KeyFree(m, "active")
    /\ item' = [item EXCEPT ![m] = NewItem(m)]
    /\ revs' = [revs EXCEPT ![m] = <<m>>]
    /\ events' = events \cup {<<"decision", m>>}
    /\ Enqueue(<<"add", m>>, m, m, 0)
    /\ UNCHANGED <<cast, intent, asked>>

\* commit_add.  A repeated operation finds its event and changes nothing.
CommitAdd(m) ==
    /\ m \in cast
    /\ <<"decision", m>> \notin events
    /\ KeyFree(m, "active")
    /\ item' = [item EXCEPT ![m] = NewItem(m)]
    /\ revs' = [revs EXCEPT ![m] = <<m>>]
    /\ events' = events \cup {<<"decision", m>>}
    /\ Enqueue(<<"add", m>>, m, m, 0)
    /\ UNCHANGED <<cast, intent, asked>>

\* CandidatePolicy reads the current item and puts its revision into the
\* operation.
Evaluate(u, m) ==
    /\ u \in cast /\ intent[u] = NoTarget
    /\ Indexable(m)
    /\ intent' = [intent EXCEPT ![u] = [m |-> m, rev |-> item[m].rev]]
    /\ UNCHANGED <<cast, item, revs, events, ops, queue, asked>>

\* Mutant of CommitUpdate: the expected revision is not compared.
CommitUpdateBlind(u) ==
    LET m == intent[u].m
    IN  /\ intent[u] # NoTarget
        /\ <<"decision", u>> \notin events
        /\ Is(m, "active")
        /\ item' = [item EXCEPT ![m] = Revised(@, u)]
        /\ revs' = [revs EXCEPT ![m] = Append(@, u)]
        /\ events' = events \cup {<<"decision", u>>}
        /\ Enqueue(<<"update", u>>, m, u, 0)
        /\ UNCHANGED <<cast, intent, asked>>

\* commit_update
CommitUpdate(u) ==
    LET m == intent[u].m
    IN  /\ intent[u] # NoTarget
        /\ <<"decision", u>> \notin events
        /\ Is(m, "active")
        /\ item[m].rev = intent[u].rev
        /\ item' = [item EXCEPT ![m] = Revised(@, u)]
        /\ revs' = [revs EXCEPT ![m] = Append(@, u)]
        /\ events' = events \cup {<<"decision", u>>}
        /\ Enqueue(<<"update", u>>, m, u, 0)
        /\ UNCHANGED <<cast, intent, asked>>

\* ttl_expires_at passes.
Expire(m) ==
    /\ "ttl" \in cast
    /\ Is(m, "active") /\ ~item[m].expired
    /\ item' = [item EXCEPT ![m].expired = TRUE]
    /\ UNCHANGED <<cast, revs, events, ops, queue, intent, asked>>

-----------------------------------------------------------------------------
(* Deletion.                                                               *)

\* MemoryManagementService.request_delete reads the item and writes an audit
\* event; MemoryTtlSweeper.run_once lists the expired items.
AskDelete(d, m) ==
    /\ d \in cast /\ asked[d] = NoTarget
    /\ Is(m, "active")
    /\ d = "ttl" => item[m].expired
    /\ asked' = [asked EXCEPT ![d] = [m |-> m, rev |-> item[m].rev]]
    /\ UNCHANGED <<cast, item, revs, events, ops, queue, intent>>

MayDelete(d) ==
    /\ Is(asked[d].m, "active")
    /\ item[asked[d].m].rev = asked[d].rev
    /\ KeyFree(asked[d].m, "deletion_pending")

\* request_delete of the store: one conditional UPDATE decides.
RequestDelete(d) ==
    LET m == asked[d].m
    IN  /\ asked[d] # NoTarget
        /\ MayDelete(d)
        /\ item' = [item EXCEPT ![m].status = "deletion_pending", ![m].index = "deletion_pending"]
        /\ events' = events \cup {<<"delete_requested", m>>}
        /\ Enqueue(<<"delete", m, d>>, m, asked[d].rev, item[m].ext)
        /\ asked' = [asked EXCEPT ![d] = NoTarget]
        /\ UNCHANGED <<cast, revs, intent>>

\* "Memory lifecycle target is not active": the UPDATE matched no row or broke
\* the unique constraint, and no deletion with this id is on record.
DeleteRefused(d) ==
    /\ asked[d] # NoTarget
    /\ ~MayDelete(d)
    /\ asked' = [asked EXCEPT ![d] = NoTarget]
    /\ UNCHANGED <<cast, item, revs, events, ops, queue, intent>>

PendingFor(o) == Is(ops[o].m, "deletion_pending") /\ item[ops[o].m].rev = ops[o].rev

\* complete_delete_from_index: rows go, a tombstone stays.
MayCloseDelete(o) ==
    /\ <<"tombstone", o>> \notin events
    /\ Kind(o) = "delete" /\ ops[o].status = "completed"
    /\ PendingFor(o)
CloseDelete(o) ==
    /\ item' = [item EXCEPT ![ops[o].m] = NoItem]
    /\ revs' = [revs EXCEPT ![ops[o].m] = <<>>]
    /\ events' = events \cup {<<"tombstone", o>>}

\* record_delete_index_failure: a dead letter clears the text of item and
\* revisions, the external id stays.  An attempt is recorded once: when an
\* administrator has restarted the operation, attempts are counted again and
\* one that is on record changes nothing.
DeleteFailed(o, dead) ==
    LET shown == [item EXCEPT ![ops[o].m].index = IF dead THEN "dead_letter" ELSE "deletion_pending",
                              ![ops[o].m].content = @ /\ ~dead]
    IN  IF PendingFor(o) THEN item' = shown \/ (ops[o].key /\ item' = item) ELSE item' = item

-----------------------------------------------------------------------------
LifeNext ==
    \/ \E m \in Memory : CommitAdd(m) \/ Expire(m)
    \/ \E u \in Update : CommitUpdate(u) \/ \E m \in Memory : Evaluate(u, m)
    \/ \E d \in Deleter : RequestDelete(d) \/ DeleteRefused(d) \/ \E m \in Memory : AskDelete(d, m)

=============================================================================
