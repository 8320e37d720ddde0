--------------------------- MODULE MemoryIndexing ---------------------------
(***************************************************************************)
(* The external index of long-term memory and everyone who writes to it:   *)
(* MemoryIndexOperationWorker, which executes the operations of the        *)
(* outbox, MemoryIndexRepairService, which compares canonical rows and     *)
(* external records, and MemoryGovernanceService, which restarts or closes *)
(* a deletion that got stuck.                                              *)
(*                                                                         *)
(* The index (mem0 over a vector store) is outside the transaction: calls  *)
(* fail, and a call that failed may have taken effect.  Workers run on     *)
(* several replicas; leases lapse under a worker that is still in a call,  *)
(* and a worker may die between any two steps.                             *)
(***************************************************************************)
EXTENDS MemoryLifecycle

CONSTANTS
    Worker,        \* index workers
    Repairer,      \* runs of the repair service (one each)
    Governor,      \* administrators who ask for a governed repair (once each)
    MaxAttempts,   \* memory_formation_max_attempts
    MaxClaims      \* bound: claims of one operation, over all restarts

ASSUME IndexingAssumption ==
    /\ MaxAttempts \in Nat \ {0} /\ MaxClaims \in Nat
    /\ Worker \cap Repairer = {}

VARIABLES
    provider,     \* records of the external index
    issued,       \* ids it has handed out
    agent,        \* what a worker or a repairer is doing
    scope,        \* what a repairer has collected
    governor      \* what a governor has read

indexVars == <<provider, issued, agent, scope, governor>>
memoryVars == <<lifeVars, indexVars>>

Agent == Worker \cup Repairer
Idle == [pc |-> "idle", kind |-> "none", m |-> NoRev, op |-> <<>>, token |-> 0,
         item |-> NoItem, found |-> {}, ext |-> 0]
NoScope == [canon |-> {}, records |-> {}, retained |-> {}]

MemoryInit ==
    /\ LifeInit
    /\ provider = {} /\ issued = 0
    /\ agent = [w \in Agent |-> Idle]
    /\ scope = [r \in Repairer |-> NoScope]
    /\ governor = [g \in Governor |-> [pc |-> "idle", op |-> <<>>, status |-> "none"]]

At(w, pc) == agent[w].pc = pc
Set(w, rec) == agent' = [agent EXCEPT ![w] = rec]
Goto(w, pc) == agent' = [agent EXCEPT ![w].pc = pc]
Records(m) == {r \in provider : r.m = m}
Ids(S) == {r.ext : r \in S}

\* _preferred_provider_record and _repair_keeper: the mapped record, else one
\* of the current revision, else the smallest id.
Keeper(S, it) ==
    LET least(T) == CHOOSE r \in T : \A t \in T : r.ext <= t.ext
        current == {r \in S : r.rev = it.rev}
    IN  IF it.ext \in Ids(S) THEN CHOOSE r \in S : r.ext = it.ext
        ELSE IF current # {} THEN least(current) ELSE least(S)

\* set_index_state: only an active item of the expected revision changes.
IndexState(m, rev, status, ext) ==
    IF Is(m, "active") /\ item[m].rev = rev
    THEN [item EXCEPT ![m].index = status, ![m].ext = IF ext = 0 THEN @ ELSE ext]
    ELSE item

-----------------------------------------------------------------------------
(* The outbox.                                                             *)

Holds(w) ==
    LET o == agent[w].op
    IN  ops[o].status = "claimed" /\ ops[o].token = agent[w].token /\ ops[o].lease = "live"

Lapsed(o) == ops[o].status = "claimed" /\ ops[o].lease = "lapsed"
Exhausted == {o \in OpId : Lapsed(o) /\ ops[o].attempts >= MaxAttempts}

Claimable(o) ==
    /\ ops[o].attempts < MaxAttempts
    /\ ops[o].status \in {"pending", "retry"} \/ Lapsed(o)

\* Operations are claimed in the order of their creation; one that waits for
\* its next attempt may be passed over.
Position(o) == CHOOSE i \in DOMAIN queue : queue[i] = o
Oldest(o) ==
    /\ Claimable(o)
    /\ \A p \in OpId : Claimable(p) /\ Position(p) < Position(o) => ops[p].status = "retry"

\* claim first gives up the operations whose last lease has lapsed.
GivenUp ==
    [o \in OpId |-> IF o \in Exhausted
                    THEN [ops[o] EXCEPT !.status = "dead_letter", !.lease = "none"] ELSE ops[o]]

Claim(w, o) ==
    /\ w \in Worker \cap cast /\ At(w, "idle")
    /\ Oldest(o) /\ ops[o].token < MaxClaims
    /\ ops' = [GivenUp EXCEPT ![o] = [ops[o] EXCEPT !.status = "claimed", !.lease = "live",
                                                     !.attempts = ops[o].attempts + 1,
                                                     !.token = ops[o].token + 1]]
    /\ Set(w, [Idle EXCEPT !.pc = "read", !.kind = Kind(o), !.op = o, !.m = ops[o].m,
                           !.token = ops[o].token + 1])
    /\ UNCHANGED <<cast, item, revs, events, queue, intent, asked,
                   provider, issued, scope, governor>>

ClaimNothing(w) ==
    /\ w \in Worker \cap cast /\ At(w, "idle")
    /\ Exhausted # {} /\ ~\E o \in OpId : Claimable(o)
    /\ ops' = GivenUp
    /\ UNCHANGED <<cast, item, revs, events, queue, intent, asked, indexVars>>

LeaseLapses(o) ==
    /\ ops[o].status = "claimed" /\ ops[o].lease = "live"
    /\ ops' = [ops EXCEPT ![o].lease = "lapsed"]
    /\ UNCHANGED <<cast, item, revs, events, queue, intent, asked, indexVars>>

Finish(o, status) == [ops EXCEPT ![o] = [@ EXCEPT !.status = status, !.lease = "none"]]

-----------------------------------------------------------------------------
(* MemoryIndexOperationWorker.run_once                                     *)

\* The canonical item is read; an addition or update that no longer describes
\* it is completed without a call.
ReadItem(w) ==
    LET o == agent[w].op
        m == ops[o].m
        stale == ~Indexable(m) \/ item[m].rev # ops[o].rev
        mapped == IF ops[o].ext # 0 THEN ops[o].ext ELSE item[m].ext
    IN  /\ At(w, "read")
        /\ Set(w, [agent[w] EXCEPT !.item = item[m], !.ext = mapped,
                                   !.pc = CASE Kind(o) # "delete" /\ stale -> "complete"
                                            [] Kind(o) = "update" /\ ~stale /\ mapped # 0 -> "apply"
                                            [] OTHER -> "scan",
                                   !.kind = IF Kind(o) # "delete" /\ stale THEN "superseded" ELSE @])
        /\ UNCHANGED <<lifeVars, provider, issued, scope, governor>>

\* scan_provider_records.  An update needs a record to update.
Scan(w) ==
    LET found == Ids(Records(agent[w].m))
        keeper == Keeper(Records(agent[w].m), agent[w].item).ext
    IN  /\ At(w, "scan")
        /\ Set(w, [agent[w] EXCEPT
               !.found = found,
               !.ext = IF agent[w].kind = "delete" \/ found = {} THEN @ ELSE keeper,
               !.pc = IF agent[w].kind = "update" /\ found = {} THEN "fail" ELSE "apply"])
        /\ UNCHANGED <<lifeVars, provider, issued, scope, governor>>

\* What the call does to the index: duplicates of the kept record go, the kept
\* record is rewritten, a record is added if there was none.
Keep(w) ==
    {r \in provider : r.ext \notin agent[w].found \cup {agent[w].ext}}
      \cup {[ext |-> agent[w].ext, m |-> agent[w].m, rev |-> agent[w].item.rev]}

ApplyAdd(w) ==
    /\ At(w, "apply") /\ agent[w].kind = "add" /\ agent[w].found = {}
    /\ issued < MaxExternal
    /\ issued' = issued + 1
    /\ provider' = provider \cup {[ext |-> issued + 1, m |-> agent[w].m, rev |-> agent[w].item.rev]}
    /\ \/ Set(w, [agent[w] EXCEPT !.pc = "state", !.ext = issued + 1])
       \/ Goto(w, "fail")                    \* the answer was lost
    /\ UNCHANGED <<lifeVars, scope, governor>>

ApplyUpdate(w) ==
    /\ At(w, "apply")
    /\ agent[w].kind = "update" \/ (agent[w].kind = "add" /\ agent[w].found # {})
    /\ IF agent[w].ext \in Ids(provider)
       THEN provider' = Keep(w) /\ (Goto(w, "state") \/ Goto(w, "fail"))
       ELSE UNCHANGED provider /\ Goto(w, "fail")
    /\ UNCHANGED <<lifeVars, issued, scope, governor>>

\* Records are deleted one by one; a failure leaves some.
ApplyDelete(w) ==
    LET ids == agent[w].found \cup {agent[w].ext}
    IN  /\ At(w, "apply") /\ agent[w].kind = "delete"
        /\ \/ /\ provider' = {r \in provider : r.ext \notin ids}
              /\ Goto(w, "complete")
           \/ /\ \E some \in SUBSET ids : provider' = {r \in provider : r.ext \notin some}
              /\ Goto(w, "fail")
        /\ UNCHANGED <<lifeVars, issued, scope, governor>>

CallFails(w) ==
    /\ agent[w].pc \in {"scan", "apply"}
    /\ Goto(w, "fail")
    /\ UNCHANGED <<lifeVars, provider, issued, scope, governor>>

\* Mutant of SetReady: the operation is completed before the item is marked.
SetReadyLater(w) ==
    /\ w \in Worker /\ At(w, "state")
    /\ Goto(w, "complete")
    /\ UNCHANGED <<lifeVars, provider, issued, scope, governor>>

\* The item becomes searchable, unless it has changed since it was read.
SetReady(w) ==
    /\ w \in Worker /\ At(w, "state")
    /\ item' = IndexState(agent[w].m, agent[w].item.rev, "ready", agent[w].ext)
    /\ Goto(w, IF Is(agent[w].m, "active") /\ item[agent[w].m].rev = agent[w].item.rev
               THEN "complete" ELSE "fail")
    /\ UNCHANGED <<cast, revs, events, ops, queue, intent, asked, provider, issued, scope,
                   governor>>

Complete(w) ==
    LET o == agent[w].op
    IN  /\ At(w, "complete") /\ Holds(w)
        /\ ops' = [Finish(o, "completed") EXCEPT ![o].ext = IF agent[w].ext = 0 THEN @ ELSE agent[w].ext]
        /\ Set(w, IF agent[w].kind = "delete" /\ o[1] = "delete"
                  THEN [Idle EXCEPT !.pc = "close", !.op = o] ELSE Idle)
        /\ UNCHANGED <<cast, item, revs, events, queue, intent, asked,
                       provider, issued, scope, governor>>

\* The second transaction of a completed deletion.
Close(w) ==
    /\ At(w, "close")
    /\ IF MayCloseDelete(agent[w].op) THEN CloseDelete(agent[w].op) ELSE UNCHANGED <<item, revs, events>>
    /\ Set(w, Idle)
    /\ UNCHANGED <<cast, ops, queue, intent, asked, provider, issued, scope, governor>>

Fail(w) ==
    LET o == agent[w].op
        dead == ops[o].attempts >= MaxAttempts
    IN  /\ w \in Worker /\ At(w, "fail") /\ Holds(w)
        /\ ops' = Finish(o, IF dead THEN "dead_letter" ELSE "retry")
        /\ Set(w, IF agent[w].item.status = "none" THEN Idle
                  ELSE [agent[w] EXCEPT !.pc = IF dead THEN "dead" ELSE "retry"])
        /\ UNCHANGED <<cast, item, revs, events, queue, intent, asked,
                       provider, issued, scope, governor>>

\* ... and the item shows it.
ShowFailure(w) ==
    LET dead == At(w, "dead")
    IN  /\ agent[w].pc \in {"dead", "retry"}
        /\ IF agent[w].kind = "delete" THEN DeleteFailed(agent[w].op, dead)
           ELSE item' = IF agent[w].item.status = "active"
                        THEN IndexState(agent[w].m, agent[w].item.rev,
                                        IF dead THEN "dead_letter" ELSE "out_of_sync", 0)
                        ELSE item
        /\ Set(w, Idle)
        /\ UNCHANGED <<cast, revs, events, ops, queue, intent, asked, provider, issued,
                       scope, governor>>

\* "Index operation claim transition lost", or the process ends.
Lost(w) ==
    /\ w \in Worker /\ ~At(w, "idle")
    /\ Set(w, Idle)
    /\ UNCHANGED <<lifeVars, provider, issued, scope, governor>>

-----------------------------------------------------------------------------
(* MemoryIndexRepairService.run_tenant                                     *)

\* _finalize_completed_deletes, for one operation.
FinalizeDelete(o) ==
    /\ \E r \in Repairer \cap cast : At(r, "idle")
    /\ o[1] = "delete" /\ MayCloseDelete(o)
    /\ CloseDelete(o)
    /\ UNCHANGED <<cast, ops, queue, intent, asked, indexVars>>

\* _all_canonical
ListItems(r) ==
    [scope[r] EXCEPT !.canon = {[m |-> m, rev |-> item[m].rev] : m \in {x \in Memory : Indexable(x)}}]

\* Canonical rows are listed, then the external records.
RepairCanonical(r) ==
    /\ r \in Repairer \cap cast /\ At(r, "idle")
    /\ scope' = [scope EXCEPT ![r] = ListItems(r)]
    /\ Goto(r, "list")
    /\ UNCHANGED <<lifeVars, provider, issued, governor>>

RepairRecords(r) ==
    /\ r \in Repairer /\ At(r, "list")
    /\ \/ scope' = [scope EXCEPT ![r].records = provider] /\ (Goto(r, "items") \/ Goto(r, "rebuild"))
       \/ scope' = [scope EXCEPT ![r] = NoScope] /\ Goto(r, "over")     \* the scan failed
    /\ UNCHANGED <<lifeVars, provider, issued, governor>>

\* rebuild: every external record goes before anything is added again.
RepairRebuild(r) ==
    /\ r \in Repairer /\ At(r, "rebuild")
    /\ \/ /\ provider' = provider \ scope[r].records
          /\ scope' = [scope EXCEPT ![r] = [ListItems(r) EXCEPT !.records = {}]]
          /\ Goto(r, "items")
       \/ /\ \E some \in SUBSET scope[r].records : provider' = provider \ some
          /\ scope' = [scope EXCEPT ![r] = NoScope]
          /\ Goto(r, "over")
    /\ UNCHANGED <<lifeVars, issued, governor>>

\* One item, read again; one of its records is kept and updated, or one added.
RepairItem(r, c) ==
    LET mine == {x \in scope[r].records : x.m = c.m}
        keep == Keeper(mine, item[c.m]).ext
    IN  /\ r \in Repairer /\ At(r, "items") /\ c \in scope[r].canon
        /\ scope' = [scope EXCEPT ![r].canon = @ \ {c}]
        /\ IF ~Indexable(c.m) \/ item[c.m].rev # c.rev
           THEN UNCHANGED <<agent, provider>>
           ELSE /\ provider' = IF mine = {} THEN provider
                               ELSE {x \in provider : x.ext \notin Ids(mine) \ {keep}}
                /\ Set(r, [Idle EXCEPT !.m = c.m, !.item = item[c.m],
                                       !.kind = IF mine = {} THEN "add" ELSE "update",
                                       !.ext = IF mine = {} THEN 0 ELSE keep,
                                       !.pc = IF mine = {} THEN "scan" ELSE "apply"])
        /\ UNCHANGED <<lifeVars, issued, governor>>

RepairFailed(r) ==
    /\ r \in Repairer /\ At(r, "fail")
    /\ item' = IndexState(agent[r].m, agent[r].item.rev, "out_of_sync", 0)
    /\ Set(r, [Idle EXCEPT !.pc = "items"])
    /\ UNCHANGED <<cast, revs, events, ops, queue, intent, asked, provider, issued, scope,
                   governor>>

RepairReady(r) ==
    LET m == agent[r].m
        same == Is(m, "active") /\ item[m].rev = agent[r].item.rev
    IN  /\ r \in Repairer /\ At(r, "state")
        /\ item' = IndexState(m, agent[r].item.rev, "ready", agent[r].ext)
        /\ scope' = [scope EXCEPT ![r].retained = IF same THEN @ \cup {agent[r].ext} ELSE @]
        /\ IF same THEN Set(r, [Idle EXCEPT !.pc = "items"]) ELSE Goto(r, "compensate")
        /\ UNCHANGED <<cast, revs, events, ops, queue, intent, asked, provider, issued,
                       governor>>

\* _compensate_lost_cas: a delete operation is stored before the record is
\* deleted directly.
CompensationStored(r) ==
    LET o == <<"compensate", agent[r].m, agent[r].ext>>
    IN  /\ At(r, "compensate")
        /\ IF ops[o].status = "none" THEN Enqueue(o, agent[r].m, agent[r].item.rev, agent[r].ext)
           ELSE UNCHANGED <<ops, queue>>
        /\ Goto(r, "undo")
        /\ UNCHANGED <<cast, item, revs, events, intent, asked, provider, issued, scope,
                       governor>>

CompensationDone(r) ==
    LET m == agent[r].m
    IN  /\ At(r, "undo")
        /\ \/ provider' = {x \in provider : x.ext # agent[r].ext}
           \/ UNCHANGED provider
        /\ item' = IF Indexable(m) THEN [item EXCEPT ![m].index = "out_of_sync"] ELSE item
        /\ Set(r, [Idle EXCEPT !.pc = "items"])
        /\ UNCHANGED <<cast, revs, events, ops, queue, intent, asked, issued, scope, governor>>

\* Records that belong to no indexable item are deleted.
RepairOrphan(r, x) ==
    /\ r \in Repairer /\ At(r, "items") /\ scope[r].canon = {} /\ x \in scope[r].records
    /\ scope' = [scope EXCEPT ![r].records = @ \ {x}]
    /\ IF x.ext \notin scope[r].retained /\ ~Indexable(x.m)
       THEN provider' = {y \in provider : y.ext # x.ext} \/ UNCHANGED provider
       ELSE UNCHANGED provider
    /\ UNCHANGED <<lifeVars, issued, agent, governor>>

RepairEnds(r) ==
    /\ r \in Repairer /\ At(r, "items") /\ scope[r] = [NoScope EXCEPT !.retained = scope[r].retained]
    /\ Set(r, [Idle EXCEPT !.pc = "over"])
    /\ scope' = [scope EXCEPT ![r] = NoScope]
    /\ UNCHANGED <<lifeVars, provider, issued, governor>>

-----------------------------------------------------------------------------
(* MemoryGovernanceService.repair                                          *)

\* The newest delete operation of an item whose deletion is pending; the
\* administrator has seen its status.  An operation that waits for a worker
\* counts as stuck after DELETION_TIMEOUT_SECONDS.
GovernRead(g, o) ==
    /\ g \in cast /\ governor[g].pc = "idle"
    /\ Kind(o) = "delete" /\ ops[o].status # "none"
    /\ Is(ops[o].m, "deletion_pending")
    /\ ~(ops[o].key /\ ops[o].status \in {"pending", "retry", "claimed"})   \* repairing
    /\ governor' = [governor EXCEPT ![g] = [pc |-> "accept", op |-> o, status |-> ops[o].status]]
    /\ UNCHANGED <<lifeVars, provider, issued, agent, scope>>

\* accept_governance_repair: started anew, if its status has not changed.
GovernRequeue(g) ==
    LET o == governor[g].op
    IN  /\ governor[g].pc = "accept" /\ governor[g].status # "completed"
        /\ ops' = IF ops[o].status = governor[g].status
                  THEN [ops EXCEPT ![o] = [@ EXCEPT !.status = "pending", !.attempts = 0,
                                                    !.lease = "none", !.key = TRUE]]
                  ELSE ops
        /\ governor' = [governor EXCEPT ![g].pc = "over"]
        /\ UNCHANGED <<cast, item, revs, events, queue, intent, asked, provider, issued,
                       agent, scope>>

\* canonical_not_closed: the index has been cleared, the rows are still there.
GovernClose(g) ==
    LET o == governor[g].op
    IN  /\ governor[g].pc = "accept" /\ governor[g].status = "completed"
        /\ ops' = IF ops[o].key THEN ops ELSE [ops EXCEPT ![o].key = TRUE]
        /\ IF ~ops[o].key /\ MayCloseDelete(o) THEN CloseDelete(o) ELSE UNCHANGED <<item, revs, events>>
        /\ governor' = [governor EXCEPT ![g].pc = "over"]
        /\ UNCHANGED <<cast, queue, intent, asked, provider, issued, agent, scope>>

-----------------------------------------------------------------------------
WorkerStep(w) ==
    \/ \E o \in OpId : Claim(w, o)
    \/ ClaimNothing(w) \/ ReadItem(w) \/ Scan(w) \/ ApplyAdd(w) \/ ApplyUpdate(w)
    \/ ApplyDelete(w) \/ SetReady(w) \/ Complete(w) \/ Close(w) \/ Fail(w) \/ ShowFailure(w)

RepairStep(r) ==
    \/ RepairCanonical(r) \/ RepairRecords(r) \/ RepairRebuild(r) \/ RepairFailed(r)
    \/ RepairReady(r) \/ CompensationStored(r) \/ CompensationDone(r) \/ RepairEnds(r)
    \/ \E c \in [m : Memory, rev : Revision] : RepairItem(r, c)
    \/ \E x \in scope[r].records : RepairOrphan(r, x)

MemoryNext ==
    \/ LifeNext /\ UNCHANGED indexVars
    \/ \E w \in Agent : WorkerStep(w) \/ CallFails(w) \/ Lost(w)
    \/ \E r \in Repairer : RepairStep(r)
    \/ \E o \in OpId : LeaseLapses(o) \/ FinalizeDelete(o)
    \/ \E g \in Governor : GovernRequeue(g) \/ GovernClose(g) \/ \E o \in OpId : GovernRead(g, o)

MemorySpec == MemoryInit /\ [][MemoryNext]_memoryVars

-----------------------------------------------------------------------------
(* Properties.                                                             *)

\* A memory whose deletion is pending has the operation that will delete it,
\* for the revision it has: whatever updates, repairs and failures came
\* between, the deletion can be carried out, repaired or closed.
DeletionHasOperation ==
    \A m \in Memory : Is(m, "deletion_pending") =>
        \E d \in Deleter : /\ ops[<<"delete", m, d>>].status # "none"
                           /\ ops[<<"delete", m, d>>].rev = item[m].rev

\* An active memory that is waiting to be indexed has an operation that will
\* do it, is a dead letter or has been taken over by a repair.
NothingForgotten ==
    \A m \in Memory : Indexable(m) /\ item[m].index = "pending" =>
        \E o \in OpId : ops[o].rev = item[m].rev /\ ops[o].status \notin {"none", "completed"}

\* Work on the index is never forgotten, be it an update or a deletion.
IndexWorkIsKept == DeletionHasOperation /\ NothingForgotten

\* No update is lost: the current revision is the last one, and every revision
\* was derived from the one before it.
UpdatesBuildOnLast ==
    \A m \in Memory :
        /\ ~Is(m, "none") => revs[m] # <<>> /\ item[m].rev = revs[m][Len(revs[m])]
        /\ \A i \in 2..Len(revs[m]) : intent[revs[m][i]] = [m |-> m, rev |-> revs[m][i - 1]]

\* A deletion is never taken back, by no late worker, update, repair or replay:
\* a pending one keeps its revision until the rows are gone, and after the
\* tombstone neither item nor revisions come back.
DeletionIsFinal ==
    [][\A m \in Memory :
         /\ Is(m, "deletion_pending") => item'[m].status # "active" /\ item'[m].rev \in {item[m].rev, NoRev}
         /\ Deleted(m) => item'[m] = NoItem /\ revs'[m] = <<>>]_memoryVars

\* Claims of the documents that TLC refutes (README, Observations).  After the
\* tombstone the external index holds nothing of the memory.
NothingLeft == \A m \in Memory : Deleted(m) => Records(m) = {}

\* A deletion is refused only if the memory is no longer what was read.
RefusedOnlyIfChanged ==
    [][\A d \in Deleter : DeleteRefused(d) =>
         ~(Is(asked[d].m, "active") /\ item[asked[d].m].rev = asked[d].rev)]_memoryVars

=============================================================================
