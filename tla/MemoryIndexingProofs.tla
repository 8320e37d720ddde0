------------------------- MODULE MemoryIndexingProofs -------------------------
(***************************************************************************)
(* Proofs about the rows of long-term memory and their external index: the *)
(* revisions are one chain, deletions are final, and work on the index is  *)
(* kept, for any number of memories, updates, sources of deletions,        *)
(* workers, repairs and administrators.                                    *)
(***************************************************************************)
EXTENDS MemoryIndexing, NaturalsInduction, WellFoundedInduction, TLAPS

Rev == Revision \cup {NoRev}
ItemRec == [status : {"none", "active", "deletion_pending"}, rev : Rev,
            index : {"none", "pending", "ready", "out_of_sync", "dead_letter", "deletion_pending"},
            ext : Nat, content : BOOLEAN, expired : BOOLEAN]
OpRec == [status : {"none", "pending", "retry", "claimed", "completed", "dead_letter"},
          m : Memory \cup {NoRev}, rev : Rev, ext : Nat, attempts : Nat,
          lease : {"none", "live", "lapsed"}, token : Nat, key : BOOLEAN]
Target == [m : Memory, rev : Rev]
EventId == ({"decision"} \X Revision) \cup ({"delete_requested"} \X Memory) \cup ({"tombstone"} \X OpId)

\* The types of the canonical rows.
LifeTypeOK ==
    /\ item \in [Memory -> ItemRec]
    /\ revs \in [Memory -> Seq(Revision)]
    /\ events \subseteq EventId
    /\ ops \in [OpId -> OpRec]
    /\ intent \in [Update -> {NoTarget} \cup Target]
    /\ asked \in [Deleter -> {NoTarget} \cup Target]

\* The operation that indexes a revision.
OpOf(x) == IF x \in Memory THEN <<"add", x>> ELSE <<"update", x>>

\* Every revision after the first is that of an update.
UpdatesFollow == \A m \in Memory : \A i \in 2..Len(revs[m]) : revs[m][i] \in Update

\* A row has the memory and the revision of decisions on record; a decision and
\* its operation are stored together.
DecisionsNamed ==
    /\ \A m \in Memory : ~Is(m, "none") =>
         /\ <<"decision", m>> \in events
         /\ item[m].rev \in Revision
         /\ <<"decision", item[m].rev>> \in events
         /\ ops[OpOf(item[m].rev)].m = m
    /\ \A x \in Revision :
         /\ <<"decision", x>> \in events <=> ops[OpOf(x)].status # "none"
         /\ ops[OpOf(x)].status # "none" => ops[OpOf(x)].rev = x

\* A stored operation is about a memory, a deletion about the one it is named for.
OpsNamed ==
    \A o \in OpId : ops[o].status # "none" =>
        ops[o].m \in Memory /\ (o[1] = "delete" => ops[o].m = o[2])

\* A memory that waits for the index has an operation that has not completed.
WaitsForOperation ==
    \A m \in Memory : Indexable(m) /\ item[m].index = "pending" =>
        ops[OpOf(item[m].rev)].status # "completed"

\* A tombstone is of an operation on record, and the memory is gone for good.
TombstonesHold ==
    \A e \in events : e[1] = "tombstone" =>
        /\ e[2] \in OpId /\ ops[e[2]].status # "none"
        /\ item[ops[e[2]].m] = NoItem /\ revs[ops[e[2]].m] = <<>>
        /\ <<"decision", ops[e[2]].m>> \in events

LifeInv ==
    /\ LifeTypeOK /\ UpdatesFollow /\ UpdatesBuildOnLast /\ DecisionsNamed /\ OpsNamed
    /\ DeletionHasOperation /\ WaitsForOperation /\ TombstonesHold

\* Operation o has nothing left to do for its memory.
Served(o) ==
    ~(Indexable(ops[o].m) /\ item[ops[o].m].rev = ops[o].rev /\ item[ops[o].m].index = "pending")

\* What no step takes back: names of operations, work that was done, deletions.
Carried ==
    /\ events \subseteq events'
    /\ \A o \in OpId : ops[o].status # "none" =>
         /\ ops'[o].status # "none" /\ ops'[o].m = ops[o].m
         /\ Kind(o) # "delete" => ops'[o].rev = ops[o].rev /\ (Served(o) => Served(o)')
    /\ \A m \in Memory : Is(m, "deletion_pending") =>
         item'[m].status # "active" /\ item'[m].rev \in {item[m].rev, NoRev}

-----------------------------------------------------------------------------

\* The names of operations are told apart.
LEMMA OperationNames ==
    /\ \A x \in Revision : OpOf(x) \in OpId /\ Kind(OpOf(x)) # "delete" /\ OpOf(x)[1] # "delete"
    /\ \A x \in Revision : x \in Memory => OpOf(x) = <<"add", x>>
    /\ \A x \in Revision : x \in Update => OpOf(x) = <<"update", x>>
    /\ \A x, y \in Revision : OpOf(x) = OpOf(y) => x = y
    /\ \A m \in Memory, d \in Deleter : /\ <<"delete", m, d>> \in OpId
                                        /\ <<"delete", m, d>>[1] = "delete"
                                        /\ <<"delete", m, d>>[2] = m
                                        /\ Kind(<<"delete", m, d>>) = "delete"
    /\ \A m, e : Kind(<<"compensate", m, e>>) = "delete" /\ <<"compensate", m, e>>[1] # "delete"
    /\ \A o \in OpId : Kind(o) # "delete" => \E x \in Revision : o = OpOf(x)
    /\ \A o \in OpId : Kind(o) \in {"add", "update", "delete"}
<1>1. \A x \in Revision : (x \in Memory => OpOf(x) = <<"add", x>>)
                          /\ (x \in Update => OpOf(x) = <<"update", x>>)
  BY MemoryAssumption DEF OpOf, Revision
<1>2. \A x \in Revision : OpOf(x) \in OpId
  BY <1>1 DEF OpId, Revision
<1>3. \A x \in Revision : OpOf(x)[1] \in {"add", "update"} /\ OpOf(x)[2] = x
  BY <1>1 DEF Revision
<1>4. \A x \in Revision : Kind(OpOf(x)) # "delete" /\ OpOf(x)[1] # "delete"
  BY <1>3 DEF Kind
<1>5. \A x, y \in Revision : OpOf(x) = OpOf(y) => x = y
  BY <1>3
<1>6. \A m \in Memory, d \in Deleter : /\ <<"delete", m, d>> \in OpId
                                       /\ <<"delete", m, d>>[1] = "delete"
                                       /\ <<"delete", m, d>>[2] = m
                                       /\ Kind(<<"delete", m, d>>) = "delete"
  BY DEF OpId, Kind
<1>7. \A m, e : Kind(<<"compensate", m, e>>) = "delete" /\ <<"compensate", m, e>>[1] # "delete"
  BY DEF Kind
<1>8. ASSUME NEW o \in OpId
      PROVE  /\ Kind(o) \in {"add", "update", "delete"}
             /\ Kind(o) # "delete" => \E x \in Revision : o = OpOf(x)
  <2>1. CASE o \in {"add"} \X Memory
    <3>1. PICK m \in Memory : o = <<"add", m>>
      BY <2>1
    <3>2. m \in Revision
      BY DEF Revision
    <3> QED  BY <1>1, <3>1, <3>2 DEF Kind
  <2>2. CASE o \in {"update"} \X Update
    <3>1. PICK u \in Update : o = <<"update", u>>
      BY <2>2
    <3>2. u \in Revision
      BY DEF Revision
    <3> QED  BY <1>1, <3>1, <3>2 DEF Kind
  <2>3. CASE o \in {"delete"} \X Memory \X Deleter
    BY <2>3 DEF Kind
  <2>4. CASE o \in {"compensate"} \X Memory \X External
    BY <2>4 DEF Kind
  <2> QED  BY <2>1, <2>2, <2>3, <2>4 DEF OpId
<1> QED  BY <1>1, <1>2, <1>4, <1>5, <1>6, <1>7, <1>8

\* The names of events are told apart.
LEMMA EventNames ==
    /\ \A x, y : <<"decision", x>> = <<"decision", y>> => x = y
    /\ \A x, y : <<"decision", x>> # <<"tombstone", y>> /\ <<"delete_requested", x>> # <<"decision", y>>
    /\ \A x : <<"decision", x>>[1] # "tombstone" /\ <<"delete_requested", x>>[1] # "tombstone"
    /\ \A x : <<"tombstone", x>>[2] = x /\ <<"tombstone", x>>[1] = "tombstone"
    /\ NoRev \notin Memory
BY MemoryAssumption

\* The row of a memory: a decision of another memory is about another row.
LEMMA RowsDiffer ==
    ASSUME LifeInv, NEW m \in Memory, NEW x \in Revision, <<"decision", x>> \notin events,
           ~Is(m, "none")
    PROVE  item[m].rev # x /\ OpOf(item[m].rev) # OpOf(x)
BY OperationNames DEF LifeInv, DecisionsNamed

\* In the beginning there are no memories.
LEMMA LifeStart == LifeInit => LifeInv
<1> SUFFICES ASSUME LifeInit PROVE LifeInv
  OBVIOUS
<1>1. NoItem \in ItemRec /\ NoItem.status = "none" /\ NoOp \in OpRec /\ NoOp.status = "none"
  BY DEF NoItem, ItemRec, NoOp, OpRec, Rev
<1>2. LifeTypeOK
  BY <1>1 DEF LifeInit, LifeTypeOK
<1>3. \A x \in Revision : ops[OpOf(x)].status = "none"
  BY <1>1, OperationNames DEF LifeInit
<1> QED
  BY <1>1, <1>2, <1>3
  DEF LifeInit, LifeInv, UpdatesFollow, UpdatesBuildOnLast, DecisionsNamed, OpsNamed,
      DeletionHasOperation, WaitsForOperation, TombstonesHold, Is, Indexable

\* Enqueue stores a new operation that waits.
LEMMA EnqueueStores ==
    ASSUME LifeTypeOK, NEW o \in OpId, NEW m \in Memory, NEW rev \in Rev, NEW ext \in Nat,
           Enqueue(o, m, rev, ext)
    PROVE  /\ ops' \in [OpId -> OpRec]
           /\ ops'[o].status = "pending" /\ ops'[o].m = m /\ ops'[o].rev = rev
           /\ \A p \in OpId : p # o => ops'[p] = ops[p]
<1> DEFINE new == [NoOp EXCEPT !.status = "pending", !.m = m, !.rev = rev, !.ext = ext]
<1>1. new \in OpRec /\ new.status = "pending" /\ new.m = m /\ new.rev = rev
  BY DEF NoOp, OpRec
<1>2. ops' = [ops EXCEPT ![o] = new]
  BY DEF Enqueue
<1> HIDE DEF new
<1> QED  BY <1>1, <1>2 DEF LifeTypeOK

\* The revisions of memory m are one chain of updates.
Chain(m, s) ==
    /\ \A i \in 2..Len(s) : s[i] \in Update /\ intent[s[i]] = [m |-> m, rev |-> s[i - 1]]

\* A new revision x of memory m is stored with its row, event and operation.
LEMMA RevisionStored ==
    ASSUME LifeInv, NEW m \in Memory, NEW x \in Revision, <<"decision", x>> \notin events,
           NEW row \in ItemRec, row.status = "active", row.rev = x, row.index = "pending",
           NEW s \in Seq(Revision), s # <<>>, s[Len(s)] = x, Chain(m, s),
           x = m \/ <<"decision", m>> \in events,
           ~Is(m, "deletion_pending"), item[m] # NoItem \/ x = m,
           item' = [item EXCEPT ![m] = row], revs' = [revs EXCEPT ![m] = s],
           events' = events \cup {<<"decision", x>>},
           Enqueue(OpOf(x), m, x, 0), UNCHANGED <<intent, asked>>
    PROVE  LifeInv' /\ Carried
<1> DEFINE o == OpOf(x)
<1> USE DEF LifeInv
<1>1. x \in Rev /\ o \in OpId /\ 0 \in Nat
  BY OperationNames DEF Rev
<1>2. /\ ops' \in [OpId -> OpRec]
      /\ ops'[o].status = "pending" /\ ops'[o].m = m /\ ops'[o].rev = x
      /\ \A p \in OpId : p # o => ops'[p] = ops[p]
  BY <1>1, EnqueueStores
<1>3. ops[o].status = "none"
  BY DEF DecisionsNamed
<1> HIDE DEF o
<1>4. o = OpOf(x)
  BY DEF o
<1>5. /\ item'[m] = row /\ \A n \in Memory : n # m => item'[n] = item[n]
      /\ revs'[m] = s /\ \A n \in Memory : n # m => revs'[n] = revs[n]
  BY DEF LifeTypeOK
<1>6. LifeTypeOK'
  <2>1. <<"decision", x>> \in EventId
    BY DEF EventId
  <2> QED  BY <1>2, <2>1 DEF LifeTypeOK
<1>7. UpdatesFollow' /\ UpdatesBuildOnLast'
  <2>1. ASSUME NEW n \in Memory
        PROVE  /\ \A i \in 2..Len(revs'[n]) : revs'[n][i] \in Update
               /\ ~Is(n, "none")' => revs'[n] # <<>> /\ item'[n].rev = revs'[n][Len(revs'[n])]
               /\ \A i \in 2..Len(revs'[n]) : intent'[revs'[n][i]] = [m |-> n, rev |-> revs'[n][i - 1]]
    <3>1. CASE n = m
      <4>1. revs'[n] = s /\ item'[n].rev = x /\ intent' = intent
        BY <1>5, <3>1
      <4>2. \A i \in 2..Len(s) : s[i] \in Update /\ intent[s[i]] = [m |-> n, rev |-> s[i - 1]]
        BY <3>1 DEF Chain
      <4> QED  BY <4>1, <4>2
    <3>2. CASE n # m
      <4>1. item'[n] = item[n] /\ revs'[n] = revs[n] /\ intent' = intent
        BY <1>5, <3>2
      <4> QED  BY <4>1 DEF UpdatesFollow, UpdatesBuildOnLast, Is
    <3> QED  BY <3>1, <3>2
  <2> QED  BY <2>1 DEF UpdatesFollow, UpdatesBuildOnLast
<1>8. \A y \in Revision : y # x => OpOf(y) # o /\ OpOf(y) \in OpId /\ ops'[OpOf(y)] = ops[OpOf(y)]
  BY <1>2, <1>4, OperationNames
<1>9. \A n \in Memory : ~Is(n, "none") => item[n].rev # x
  BY RowsDiffer
<1>10. DecisionsNamed'
  <2>1. ASSUME NEW n \in Memory, ~Is(n, "none")'
        PROVE  /\ <<"decision", n>> \in events' /\ item'[n].rev \in Revision
               /\ <<"decision", item'[n].rev>> \in events'
               /\ ops'[OpOf(item'[n].rev)].m = n
    <3>1. CASE n = m
      BY <1>2, <1>4, <1>5, <3>1
    <3>2. CASE n # m
      <4>1. item'[n] = item[n] /\ ~Is(n, "none")
        BY <1>5, <2>1, <3>2 DEF Is
      <4>2. item[n].rev # x /\ item[n].rev \in Revision
        BY <1>9, <4>1 DEF DecisionsNamed
      <4> QED  BY <1>8, <4>1, <4>2 DEF DecisionsNamed
    <3> QED  BY <3>1, <3>2
  <2>2. ASSUME NEW y \in Revision
        PROVE  /\ <<"decision", y>> \in events' <=> ops'[OpOf(y)].status # "none"
               /\ ops'[OpOf(y)].status # "none" => ops'[OpOf(y)].rev = y
    <3>1. CASE y = x
      BY <1>2, <1>4, <3>1
    <3>2. CASE y # x
      <4>1. <<"decision", y>> \in events' <=> <<"decision", y>> \in events
        BY <3>2
      <4> QED  BY <1>8, <3>2, <4>1 DEF DecisionsNamed
    <3> QED  BY <3>1, <3>2
  <2> QED  BY <2>1, <2>2 DEF DecisionsNamed, OpOf
<1>11. OpsNamed'
  BY <1>2, <1>4, OperationNames DEF OpsNamed
<1>12. DeletionHasOperation'
  <2>1. ASSUME NEW n \in Memory, Is(n, "deletion_pending")'
        PROVE  \E d \in Deleter : /\ ops'[<<"delete", n, d>>].status # "none"
                                  /\ ops'[<<"delete", n, d>>].rev = item'[n].rev
    <3>1. n # m
      BY <1>5, <2>1 DEF Is
    <3>2. item'[n] = item[n] /\ Is(n, "deletion_pending")
      BY <1>5, <2>1, <3>1 DEF Is
    <3>3. \A d \in Deleter : ops'[<<"delete", n, d>>] = ops[<<"delete", n, d>>]
      BY <1>2, <1>4, OperationNames
    <3> QED  BY <3>2, <3>3 DEF DeletionHasOperation
  <2> QED  BY <2>1 DEF DeletionHasOperation
<1>13. WaitsForOperation'
  <2>1. ASSUME NEW n \in Memory, Indexable(n)', item'[n].index = "pending"
        PROVE  ops'[OpOf(item'[n].rev)].status # "completed"
    <3>1. CASE n = m
      BY <1>2, <1>4, <1>5, <3>1
    <3>2. CASE n # m
      <4>1. item'[n] = item[n] /\ ~Is(n, "none") /\ Indexable(n)
        BY <1>5, <2>1, <3>2 DEF Is, Indexable
      <4>2. item[n].rev # x /\ item[n].rev \in Revision
        BY <1>9, <4>1 DEF DecisionsNamed
      <4> QED  BY <1>8, <2>1, <4>1, <4>2 DEF WaitsForOperation
    <3> QED  BY <3>1, <3>2
  <2> QED  BY <2>1 DEF WaitsForOperation, OpOf
<1>14. TombstonesHold'
  <2>1. ASSUME NEW e \in events', e[1] = "tombstone"
        PROVE  /\ e[2] \in OpId /\ ops'[e[2]].status # "none"
               /\ item'[ops'[e[2]].m] = NoItem /\ revs'[ops'[e[2]].m] = <<>>
               /\ <<"decision", ops'[e[2]].m>> \in events'
    <3>1. e \in events
      BY <2>1, EventNames
    <3>2. /\ e[2] \in OpId /\ ops[e[2]].status # "none" /\ ops[e[2]].m \in Memory
          /\ <<"decision", ops[e[2]].m>> \in events
          /\ item[ops[e[2]].m] = NoItem /\ revs[ops[e[2]].m] = <<>>
      BY <2>1, <3>1 DEF TombstonesHold, OpsNamed
    <3>3. e[2] # o /\ ops[e[2]].m # m
      BY <1>3, <3>2
    <3> QED  BY <1>2, <1>5, <3>2, <3>3
  <2> QED  BY <2>1 DEF TombstonesHold
<1>15. Carried
  <2>1. ASSUME NEW p \in OpId, ops[p].status # "none"
        PROVE  /\ ops'[p].status # "none" /\ ops'[p].m = ops[p].m
               /\ Kind(p) # "delete" => ops'[p].rev = ops[p].rev /\ (Served(p) => Served(p)')
    <3>1. p # o /\ ops'[p] = ops[p]
      BY <1>2, <1>3, <2>1
    <3>2. ASSUME Kind(p) # "delete" PROVE ops[p].rev # x /\ ops[p].m \in Memory
      <4>1. PICK y \in Revision : p = OpOf(y)
        BY <3>2, OperationNames
      <4>2. y # x
        BY <1>4, <3>1, <4>1
      <4> QED  BY <2>1, <4>1, <4>2 DEF DecisionsNamed, OpsNamed
    <3>3. ASSUME Kind(p) # "delete", Served(p) PROVE Served(p)'
      <4>1. CASE ops[p].m = m
        BY <1>5, <3>1, <3>2, <3>3, <4>1 DEF Served
      <4>2. CASE ops[p].m # m
        BY <1>5, <3>1, <3>2, <3>3, <4>2 DEF Served, Indexable, Is
      <4> QED  BY <4>1, <4>2
    <3> QED  BY <2>1, <3>1, <3>3
  <2>2. ASSUME NEW n \in Memory, Is(n, "deletion_pending")
        PROVE  item'[n].status # "active" /\ item'[n].rev \in {item[n].rev, NoRev}
    BY <1>5, <2>2 DEF Is
  <2> QED  BY <2>1, <2>2 DEF Carried
<1> QED
  BY <1>6, <1>7, <1>10, <1>11, <1>12, <1>13, <1>14, <1>15

\* commit_add: a memory begins once.
LEMMA CommitAddKeeps ==
    ASSUME LifeInv, NEW m \in Memory, CommitAdd(m)
    PROVE  LifeInv' /\ Carried
<1>1. /\ <<"decision", m>> \notin events
      /\ item' = [item EXCEPT ![m] = NewItem(m)]
      /\ revs' = [revs EXCEPT ![m] = <<m>>]
      /\ events' = events \cup {<<"decision", m>>}
      /\ Enqueue(<<"add", m>>, m, m, 0)
      /\ UNCHANGED <<intent, asked>>
  BY DEF CommitAdd
<1>2. m \in Revision /\ m \in Rev /\ OpOf(m) = <<"add", m>>
  BY OperationNames DEF Revision, Rev
<1>3. /\ NewItem(m) \in ItemRec /\ NewItem(m).status = "active" /\ NewItem(m).rev = m
      /\ NewItem(m).index = "pending"
  BY <1>2 DEF NewItem, ItemRec
<1>4. ~Is(m, "deletion_pending")
  BY <1>1 DEF LifeInv, DecisionsNamed, Is
<1>5. <<m>> \in Seq(Revision) /\ Len(<<m>>) = 1 /\ <<m>>[1] = m /\ <<m>> # <<>> /\ 2..1 = {}
  BY <1>2
<1>6. <<m>>[Len(<<m>>)] = m /\ Chain(m, <<m>>)
  BY <1>5 DEF Chain
<1> QED  BY <1>1, <1>2, <1>3, <1>4, <1>5, <1>6, RevisionStored

\* commit_update: an update is based on the last revision.
LEMMA CommitUpdateKeeps ==
    ASSUME LifeInv, NEW u \in Update, CommitUpdate(u)
    PROVE  LifeInv' /\ Carried
<1> DEFINE m == intent[u].m
           s == Append(revs[m], u)
<1>1. /\ intent[u] # NoTarget /\ <<"decision", u>> \notin events
      /\ Is(m, "active") /\ item[m].rev = intent[u].rev
      /\ item' = [item EXCEPT ![m] = Revised(item[m], u)]
      /\ revs' = [revs EXCEPT ![m] = s]
      /\ events' = events \cup {<<"decision", u>>}
      /\ Enqueue(<<"update", u>>, m, u, 0)
      /\ UNCHANGED <<intent, asked>>
  BY DEF CommitUpdate, LifeInv, LifeTypeOK
<1>2. intent[u] \in Target /\ m \in Memory
  BY <1>1 DEF LifeInv, LifeTypeOK, Target
<1>3. intent[u] = [m |-> m, rev |-> item[m].rev]
  BY <1>1, <1>2 DEF Target
<1>4. u \in Revision /\ u \in Rev /\ OpOf(u) = <<"update", u>>
  BY OperationNames DEF Revision, Rev
<1>5. item[m] \in ItemRec
  BY <1>2 DEF LifeInv, LifeTypeOK
<1>6. /\ Revised(item[m], u) \in ItemRec /\ Revised(item[m], u).status = "active"
      /\ Revised(item[m], u).rev = u /\ Revised(item[m], u).index = "pending"
  BY <1>1, <1>4, <1>5 DEF Revised, ItemRec, Is
<1>7. revs[m] \in Seq(Revision) /\ revs[m] # <<>> /\ item[m].rev = revs[m][Len(revs[m])]
  BY <1>1, <1>2 DEF LifeInv, LifeTypeOK, UpdatesBuildOnLast, Is
<1>8. /\ s \in Seq(Revision) /\ s # <<>> /\ Len(s) = Len(revs[m]) + 1 /\ s[Len(s)] = u
      /\ Len(revs[m]) \in Nat /\ \A i \in 1..Len(revs[m]) : s[i] = revs[m][i]
  BY <1>4, <1>7
<1>9. Chain(m, s)
  <2>1. ASSUME NEW i \in 2..Len(s)
        PROVE  s[i] \in Update /\ intent[s[i]] = [m |-> m, rev |-> s[i - 1]]
    <3>1. CASE i = Len(s)
      <4>1. i - 1 = Len(revs[m]) /\ Len(revs[m]) \in 1..Len(revs[m])
        BY <1>8, <2>1, <3>1
      <4>2. s[i - 1] = item[m].rev
        BY <1>7, <1>8, <4>1
      <4> QED  BY <1>3, <1>8, <3>1, <4>2
    <3>2. CASE i # Len(s)
      <4>1. i \in 2..Len(revs[m]) /\ i \in 1..Len(revs[m]) /\ i - 1 \in 1..Len(revs[m])
        BY <1>8, <2>1, <3>2
      <4>2. s[i] = revs[m][i] /\ s[i - 1] = revs[m][i - 1]
        BY <1>8, <4>1
      <4> QED  BY <1>2, <4>1, <4>2 DEF LifeInv, UpdatesFollow, UpdatesBuildOnLast
    <3> QED  BY <3>1, <3>2
  <2> QED  BY <2>1 DEF Chain
<1>10. <<"decision", m>> \in events /\ ~Is(m, "deletion_pending") /\ item[m] # NoItem
  <2>1. item[m].status = "active"
    BY <1>1 DEF Is
  <2> HIDE DEF m
  <2>2. <<"decision", m>> \in events /\ ~Is(m, "deletion_pending")
    BY <1>2, <2>1 DEF LifeInv, DecisionsNamed, Is
  <2>3. NoItem.status = "none"
    BY DEF NoItem
  <2> QED  BY <2>1, <2>2, <2>3
<1> HIDE DEF m, s
<1> QED  BY <1>1, <1>2, <1>4, <1>6, <1>8, <1>9, <1>10, RevisionStored

\* Operations are claimed, lapse, fail and complete; they keep their names, and
\* one that indexes completes when it has nothing left to do.
LEMMA OperationsMove ==
    ASSUME LifeInv, ops' \in [OpId -> OpRec], UNCHANGED <<item, revs, events, intent, asked>>,
           \A o \in OpId : /\ ops'[o].m = ops[o].m /\ ops'[o].rev = ops[o].rev
                           /\ ops'[o].status = "none" <=> ops[o].status = "none"
                           /\ ops'[o].status = "completed" =>
                                ops[o].status = "completed" \/ Kind(o) = "delete" \/ Served(o)
    PROVE  LifeInv' /\ Carried
<1> USE DEF LifeInv
<1>1. LifeTypeOK' /\ UpdatesFollow' /\ UpdatesBuildOnLast'
  BY DEF LifeTypeOK, UpdatesFollow, UpdatesBuildOnLast, Is
<1>2. \A x \in Revision : OpOf(x) \in OpId
  BY OperationNames
<1>3. DecisionsNamed'
  BY <1>2 DEF DecisionsNamed, Is, OpOf
<1>4. OpsNamed'
  BY DEF OpsNamed
<1>5. DeletionHasOperation'
  <2>1. \A n \in Memory, d \in Deleter : <<"delete", n, d>> \in OpId
    BY OperationNames
  <2> QED  BY <2>1 DEF DeletionHasOperation, Is
<1>6. WaitsForOperation'
  <2>1. ASSUME NEW n \in Memory, Indexable(n), item[n].index = "pending"
        PROVE  ops'[OpOf(item[n].rev)].status # "completed"
    <3>1. /\ item[n].rev \in Revision /\ ops[OpOf(item[n].rev)].m = n
          /\ ops[OpOf(item[n].rev)].status # "none" /\ ops[OpOf(item[n].rev)].rev = item[n].rev
      BY <2>1 DEF DecisionsNamed, Indexable, Is
    <3>2. ~Served(OpOf(item[n].rev))
      BY <2>1, <3>1 DEF Served
    <3>3. ops[OpOf(item[n].rev)].status # "completed"
      BY <2>1 DEF WaitsForOperation
    <3> QED  BY <3>1, <3>2, <3>3, OperationNames
  <2> QED  BY <2>1 DEF WaitsForOperation, Indexable, Is, OpOf
<1>7. TombstonesHold'
  BY DEF TombstonesHold
<1>8. Carried
  BY DEF Carried, Served, Indexable, Is, OpsNamed
<1> QED  BY <1>1, <1>3, <1>4, <1>5, <1>6, <1>7, <1>8

\* Rows are marked by the index and expire; memory and revision stay, and
\* nothing waits for the index that did not.
LEMMA ItemsMarked ==
    ASSUME LifeInv, item' \in [Memory -> ItemRec], UNCHANGED <<revs, events, ops, intent, asked>>,
           \A m \in Memory : /\ item'[m].status = item[m].status /\ item'[m].rev = item[m].rev
                             /\ item[m].expired => item'[m].expired
                             /\ item'[m].index = "pending" => item[m].index = "pending"
                             /\ Is(m, "none") => item'[m] = item[m]
    PROVE  LifeInv' /\ Carried
<1> USE DEF LifeInv
<1>1. LifeTypeOK' /\ UpdatesFollow' /\ UpdatesBuildOnLast'
  BY DEF LifeTypeOK, UpdatesFollow, UpdatesBuildOnLast, Is
<1>2. DecisionsNamed'
  BY DEF DecisionsNamed, Is, OpOf
<1>3. OpsNamed' /\ DeletionHasOperation'
  <2>1. OpsNamed'
    BY DEF OpsNamed
  <2>2. \A m \in Memory : Is(m, "deletion_pending")' => Is(m, "deletion_pending") /\ item'[m].rev = item[m].rev
    BY DEF Is
  <2>3. DeletionHasOperation'
    BY <2>2 DEF DeletionHasOperation
  <2> QED  BY <2>1, <2>3
<1>4. \A m \in Memory : item'[m].expired \in BOOLEAN /\ item[m].expired \in BOOLEAN
  BY DEF LifeTypeOK, ItemRec
<1>5. \A m \in Memory : Indexable(m)' => Indexable(m)
  BY <1>4 DEF Indexable, Is
<1>6. WaitsForOperation'
  BY <1>5 DEF WaitsForOperation, OpOf
<1>7. TombstonesHold'
  <2>1. ASSUME NEW m \in Memory, item[m] = NoItem PROVE item'[m] = NoItem
    BY <2>1 DEF Is, NoItem
  <2>2. \A e \in events : e[1] = "tombstone" => ops[e[2]].m \in Memory
    BY DEF TombstonesHold, OpsNamed
  <2> QED  BY <2>1, <2>2 DEF TombstonesHold
<1>8. Carried
  <2>1. ASSUME NEW o \in OpId, ops[o].status # "none", Served(o) PROVE Served(o)'
    <3>1. ops[o].m \in Memory /\ ops' = ops
      BY <2>1 DEF OpsNamed
    <3> QED  BY <1>5, <2>1, <3>1 DEF Served
  <2>2. \A m \in Memory : Is(m, "deletion_pending") =>
          item'[m].status # "active" /\ item'[m].rev \in {item[m].rev, NoRev}
    BY DEF Is
  <2> QED  BY <2>1, <2>2 DEF Carried
<1> QED  BY <1>1, <1>2, <1>3, <1>6, <1>7, <1>8

\* Reading a memory for an update or a deletion changes no row.
LEMMA ReadingKeeps ==
    ASSUME LifeInv, UNCHANGED <<item, revs, events, ops>>,
           intent' \in [Update -> {NoTarget} \cup Target],
           \A u \in Update : intent[u] # NoTarget => intent'[u] = intent[u],
           asked' \in [Deleter -> {NoTarget} \cup Target]
    PROVE  LifeInv' /\ Carried
<1> USE DEF LifeInv
<1>1. LifeTypeOK'
  BY DEF LifeTypeOK
<1>2. UpdatesFollow'
  BY DEF UpdatesFollow
<1>3. UpdatesBuildOnLast'
  <2>1. \A m \in Memory : \A rev : [m |-> m, rev |-> rev] # NoTarget
    BY EventNames DEF NoTarget
  <2>2. ASSUME NEW m \in Memory, NEW i \in 2..Len(revs[m])
        PROVE  intent'[revs[m][i]] = [m |-> m, rev |-> revs[m][i - 1]]
    <3>1. /\ revs[m][i] \in Update
          /\ intent[revs[m][i]] = [m |-> m, rev |-> revs[m][i - 1]]
      BY DEF UpdatesFollow, UpdatesBuildOnLast
    <3> QED  BY <2>1, <3>1
  <2> QED  BY <2>2 DEF UpdatesBuildOnLast, Is
<1>4. DecisionsNamed' /\ OpsNamed' /\ TombstonesHold'
  BY DEF DecisionsNamed, OpsNamed, TombstonesHold, Is, OpOf
<1>5. DeletionHasOperation' /\ WaitsForOperation'
  BY DEF DeletionHasOperation, WaitsForOperation, Is, Indexable, OpOf
<1>6. Carried
  BY DEF Carried, Served, Indexable, Is
<1> QED  BY <1>1, <1>2, <1>3, <1>4, <1>5, <1>6

\* complete_delete_from_index: item and revisions go, the tombstone stays.
LEMMA CloseDeleteKeeps ==
    ASSUME LifeInv, NEW o \in OpId, MayCloseDelete(o), CloseDelete(o),
           ops' \in [OpId -> OpRec], UNCHANGED <<intent, asked>>,
           \A p \in OpId : ops'[p].m = ops[p].m /\ ops'[p].rev = ops[p].rev
                           /\ ops'[p].status = ops[p].status
    PROVE  LifeInv' /\ Carried
<1> DEFINE m == ops[o].m
<1> USE DEF LifeInv
<1>1. /\ ops[o].status = "completed" /\ Is(m, "deletion_pending")
      /\ item' = [item EXCEPT ![m] = NoItem] /\ revs' = [revs EXCEPT ![m] = <<>>]
      /\ events' = events \cup {<<"tombstone", o>>}
  BY DEF MayCloseDelete, CloseDelete, PendingFor
<1>2. m \in Memory
  BY <1>1 DEF OpsNamed
<1>3. <<"decision", m>> \in events
  BY <1>1, <1>2 DEF DecisionsNamed, Is
<1>4. \A p \in OpId : ops'[p].m = ops[p].m
  OBVIOUS
<1> HIDE DEF m
<1>5. /\ item'[m] = NoItem /\ \A n \in Memory : n # m => item'[n] = item[n]
      /\ revs'[m] = <<>> /\ \A n \in Memory : n # m => revs'[n] = revs[n]
  BY <1>1, <1>2 DEF LifeTypeOK
<1>6. NoItem \in ItemRec /\ NoItem.status = "none" /\ NoItem.rev = NoRev
  BY DEF NoItem, ItemRec, Rev
<1>7. LifeTypeOK'
  <2>1. <<"tombstone", o>> \in EventId
    BY DEF EventId
  <2>2. <<>> \in Seq(Revision)
    OBVIOUS
  <2> QED  BY <1>1, <1>6, <2>1, <2>2 DEF LifeTypeOK
<1>8. UpdatesFollow' /\ UpdatesBuildOnLast'
  <2>1. ASSUME NEW n \in Memory
        PROVE  /\ \A i \in 2..Len(revs'[n]) : revs'[n][i] \in Update
               /\ ~Is(n, "none")' => revs'[n] # <<>> /\ item'[n].rev = revs'[n][Len(revs'[n])]
               /\ \A i \in 2..Len(revs'[n]) : intent'[revs'[n][i]] = [m |-> n, rev |-> revs'[n][i - 1]]
    <3>1. CASE n = m
      <4>1. 2..Len(<<>>) = {} /\ revs'[n] = <<>> /\ item'[n].status = "none"
        BY <1>5, <1>6, <3>1
      <4> QED  BY <4>1 DEF Is
    <3>2. CASE n # m
      <4>1. item'[n] = item[n] /\ revs'[n] = revs[n] /\ intent' = intent
        BY <1>5, <3>2
      <4> QED  BY <4>1 DEF UpdatesFollow, UpdatesBuildOnLast, Is
    <3> QED  BY <3>1, <3>2
  <2> QED  BY <2>1 DEF UpdatesFollow, UpdatesBuildOnLast
<1>9. \A n \in Memory : ~Is(n, "none")' => n # m /\ ~Is(n, "none") /\ item'[n] = item[n]
  BY <1>5, <1>6 DEF Is
<1>10. \A x \in Revision : OpOf(x) \in OpId /\ (<<"decision", x>> \in events' <=> <<"decision", x>> \in events)
  BY <1>1, OperationNames, EventNames
<1>11. DecisionsNamed'
  <2>1. ASSUME NEW n \in Memory, ~Is(n, "none")'
        PROVE  /\ <<"decision", n>> \in events' /\ item'[n].rev \in Revision
               /\ <<"decision", item'[n].rev>> \in events'
               /\ ops'[OpOf(item'[n].rev)].m = n
    <3>1. ~Is(n, "none") /\ item'[n] = item[n]
      BY <1>9, <2>1
    <3>2. /\ <<"decision", n>> \in events /\ item[n].rev \in Revision
          /\ <<"decision", item[n].rev>> \in events /\ ops[OpOf(item[n].rev)].m = n
      BY <3>1 DEF DecisionsNamed
    <3> QED  BY <1>1, <1>10, <3>1, <3>2
  <2>2. ASSUME NEW x \in Revision
        PROVE  /\ <<"decision", x>> \in events' <=> ops'[OpOf(x)].status # "none"
               /\ ops'[OpOf(x)].status # "none" => ops'[OpOf(x)].rev = x
    BY <1>10 DEF DecisionsNamed
  <2> QED  BY <2>1, <2>2 DEF DecisionsNamed, OpOf
<1>12. OpsNamed'
  BY DEF OpsNamed
<1>13. DeletionHasOperation'
  <2>1. \A n \in Memory, d \in Deleter : <<"delete", n, d>> \in OpId
    BY OperationNames
  <2>2. \A n \in Memory : Is(n, "deletion_pending")' => Is(n, "deletion_pending") /\ item'[n] = item[n]
    BY <1>9 DEF Is
  <2> QED  BY <2>1, <2>2 DEF DeletionHasOperation
<1>14. WaitsForOperation'
  <2>1. \A n \in Memory : Indexable(n)' => Indexable(n) /\ item'[n] = item[n] /\ item[n].rev \in Revision
    BY <1>9 DEF Is, Indexable, DecisionsNamed
  <2> QED  BY <1>10, <2>1 DEF WaitsForOperation, OpOf
<1>15. TombstonesHold'
  <2>1. ASSUME NEW e \in events', e[1] = "tombstone"
        PROVE  /\ e[2] \in OpId /\ ops'[e[2]].status # "none"
               /\ item'[ops'[e[2]].m] = NoItem /\ revs'[ops'[e[2]].m] = <<>>
               /\ <<"decision", ops'[e[2]].m>> \in events'
    <3>1. CASE e \in events
      <4>1. /\ e[2] \in OpId /\ ops[e[2]].status # "none" /\ ops[e[2]].m \in Memory
            /\ item[ops[e[2]].m] = NoItem /\ revs[ops[e[2]].m] = <<>>
            /\ <<"decision", ops[e[2]].m>> \in events
        BY <2>1, <3>1 DEF TombstonesHold, OpsNamed
      <4> QED  BY <1>1, <1>5, <4>1
    <3>2. CASE e = <<"tombstone", o>>
      <4>1. e[2] = o /\ ops'[o].m = m /\ ops'[o].status = "completed"
        BY <1>1, <3>2, EventNames DEF m
      <4> QED  BY <1>1, <1>3, <1>5, <4>1
    <3> QED  BY <1>1, <2>1, <3>1, <3>2
  <2> QED  BY <2>1 DEF TombstonesHold
<1>16. Carried
  <2>1. ASSUME NEW p \in OpId, ops[p].status # "none", Served(p) PROVE Served(p)'
    <3>1. ops[p].m \in Memory /\ ops'[p].m = ops[p].m /\ ops'[p].rev = ops[p].rev
      BY <2>1 DEF OpsNamed
    <3>2. \A n \in Memory : Indexable(n)' => Indexable(n) /\ item'[n] = item[n]
      BY <1>9 DEF Indexable, Is
    <3> QED  BY <2>1, <3>1, <3>2 DEF Served
  <2>2. ASSUME NEW n \in Memory, Is(n, "deletion_pending")
        PROVE  item'[n].status # "active" /\ item'[n].rev \in {item[n].rev, NoRev}
    BY <1>5, <1>6, <2>2 DEF Is
  <2> QED  BY <1>1, <2>1, <2>2 DEF Carried
<1> QED
  BY <1>7, <1>8, <1>11, <1>12, <1>13, <1>14, <1>15, <1>16

\* Rows that stay as they are keep the invariant and carry everything on.
LEMMA RowsStay ==
    ASSUME LifeInv, UNCHANGED <<item, revs, events, ops, intent, asked>>
    PROVE  LifeInv' /\ Carried
<1>1. /\ intent' \in [Update -> {NoTarget} \cup Target]
      /\ asked' \in [Deleter -> {NoTarget} \cup Target]
  BY DEF LifeInv, LifeTypeOK
<1> QED  BY <1>1, ReadingKeeps

\* request_delete: an active memory becomes pending with its operation.
LEMMA RequestDeleteKeeps ==
    ASSUME LifeInv, NEW d \in Deleter, RequestDelete(d)
    PROVE  LifeInv' /\ Carried
<1> DEFINE m == asked[d].m
           o == <<"delete", m, d>>
           row == [item[m] EXCEPT !.status = "deletion_pending", !.index = "deletion_pending"]
<1> USE DEF LifeInv
<1>1. /\ asked[d] # NoTarget /\ Is(m, "active") /\ item[m].rev = asked[d].rev
      /\ item' = [item EXCEPT ![m].status = "deletion_pending", ![m].index = "deletion_pending"]
      /\ events' = events \cup {<<"delete_requested", m>>}
      /\ Enqueue(o, m, asked[d].rev, item[m].ext)
      /\ asked' = [asked EXCEPT ![d] = NoTarget]
      /\ UNCHANGED <<revs, intent>>
  BY DEF RequestDelete, MayDelete
<1>2. m \in Memory /\ asked[d].rev \in Rev
  BY <1>1 DEF LifeTypeOK, Target
<1>3. item[m] \in ItemRec /\ item[m].ext \in Nat
  BY <1>2 DEF LifeTypeOK, ItemRec
<1>4. row \in ItemRec /\ row.status = "deletion_pending" /\ row.rev = item[m].rev
  BY <1>3 DEF ItemRec
<1>5. item' = [item EXCEPT ![m] = row]
  BY <1>1, <1>2 DEF LifeTypeOK
<1>6. o \in OpId /\ o[1] = "delete" /\ o[2] = m /\ Kind(o) = "delete"
  BY <1>2, OperationNames
<1>7. /\ ops' \in [OpId -> OpRec]
      /\ ops'[o].status = "pending" /\ ops'[o].m = m /\ ops'[o].rev = item[m].rev
      /\ \A p \in OpId : p # o => ops'[p] = ops[p]
  BY <1>1, <1>2, <1>3, <1>6, EnqueueStores
<1>8. /\ <<"decision", m>> \in events
      /\ \A p \in OpId : p = o /\ ops[p].status # "none" => ops[p].m = m
  BY <1>1, <1>2, <1>6 DEF DecisionsNamed, OpsNamed, Is
<1>9. /\ item'[m] = row /\ \A n \in Memory : n # m => item'[n] = item[n]
      /\ item[m].status = "active" /\ item[m] # NoItem
  <2>1. item[m].status = "active"
    BY <1>1 DEF Is
  <2>2. NoItem.status = "none"
    BY DEF NoItem
  <2> QED  BY <1>2, <1>5, <2>1, <2>2 DEF LifeTypeOK
<1>10. \A d2 \in Deleter, n \in Memory : <<"delete", n, d2>> = o => n = m
  OBVIOUS
<1>11. \A e \in Deleter : e = d => <<"delete", m, e>> = o
  OBVIOUS
<1> HIDE DEF m, o, row
<1>12. \A p \in OpId : ops[p].status # "none" => ops'[p].status # "none" /\ ops'[p].m = ops[p].m
  BY <1>7, <1>8
<1>13. LifeTypeOK'
  <2>1. <<"delete_requested", m>> \in EventId
    BY <1>2 DEF EventId
  <2>2. item' \in [Memory -> ItemRec]
    BY <1>4, <1>5 DEF LifeTypeOK
  <2>3. events' \subseteq EventId
    BY <1>1, <2>1 DEF LifeTypeOK
  <2>4. asked' \in [Deleter -> {NoTarget} \cup Target]
    <3>1. asked \in [Deleter -> {NoTarget} \cup Target] /\ NoTarget \in {NoTarget} \cup Target
      BY DEF LifeTypeOK
    <3> QED  BY <1>1, <3>1
  <2> QED  BY <1>1, <1>7, <2>2, <2>3, <2>4 DEF LifeTypeOK
<1>14. UpdatesFollow' /\ UpdatesBuildOnLast'
  <2>1. \A n \in Memory : ~Is(n, "none")' => ~Is(n, "none") /\ item'[n].rev = item[n].rev
    BY <1>4, <1>9 DEF Is
  <2> QED  BY <1>1, <2>1 DEF UpdatesFollow, UpdatesBuildOnLast
<1>15. \A x \in Revision : /\ OpOf(x) \in OpId /\ ops'[OpOf(x)] = ops[OpOf(x)]
                           /\ <<"decision", x>> \in events' <=> <<"decision", x>> \in events
  <2>1. \A x \in Revision : OpOf(x) \in OpId /\ OpOf(x) # o
    BY <1>6, OperationNames
  <2>2. \A x \in Revision : <<"decision", x>> \in events' <=> <<"decision", x>> \in events
    BY <1>1, EventNames
  <2> QED  BY <1>7, <2>1, <2>2
<1>16. DecisionsNamed'
  <2>1. ASSUME NEW n \in Memory, ~Is(n, "none")'
        PROVE  /\ <<"decision", n>> \in events' /\ item'[n].rev \in Revision
               /\ <<"decision", item'[n].rev>> \in events'
               /\ ops'[OpOf(item'[n].rev)].m = n
    <3>1. ~Is(n, "none") /\ item'[n].rev = item[n].rev
      BY <1>4, <1>9, <2>1 DEF Is
    <3>2. /\ <<"decision", n>> \in events /\ item[n].rev \in Revision
          /\ <<"decision", item[n].rev>> \in events /\ ops[OpOf(item[n].rev)].m = n
      BY <3>1 DEF DecisionsNamed
    <3> QED  BY <1>1, <1>15, <3>1, <3>2
  <2>2. ASSUME NEW x \in Revision
        PROVE  /\ <<"decision", x>> \in events' <=> ops'[OpOf(x)].status # "none"
               /\ ops'[OpOf(x)].status # "none" => ops'[OpOf(x)].rev = x
    BY <1>15 DEF DecisionsNamed
  <2> QED  BY <2>1, <2>2 DEF DecisionsNamed, OpOf
<1>17. OpsNamed'
  BY <1>2, <1>6, <1>7 DEF OpsNamed
<1>18. DeletionHasOperation'
  <2>1. ASSUME NEW n \in Memory, Is(n, "deletion_pending")'
        PROVE  \E e \in Deleter : /\ ops'[<<"delete", n, e>>].status # "none"
                                  /\ ops'[<<"delete", n, e>>].rev = item'[n].rev
    <3>1. CASE n = m
      BY <1>4, <1>7, <1>9, <1>11, <3>1
    <3>2. CASE n # m
      <4>1. item'[n] = item[n] /\ Is(n, "deletion_pending")
        BY <1>9, <2>1, <3>2 DEF Is
      <4>2. \A e \in Deleter : ops'[<<"delete", n, e>>] = ops[<<"delete", n, e>>]
        BY <1>7, <1>10, <3>2, OperationNames
      <4> QED  BY <4>1, <4>2 DEF DeletionHasOperation
    <3> QED  BY <3>1, <3>2
  <2> QED  BY <2>1 DEF DeletionHasOperation
<1>19. \A n \in Memory : Indexable(n)' => n # m /\ Indexable(n) /\ item'[n] = item[n]
  BY <1>4, <1>9 DEF Indexable, Is
<1>20. WaitsForOperation'
  <2>1. \A n \in Memory : Indexable(n)' => Indexable(n) /\ item'[n] = item[n] /\ item[n].rev \in Revision
    BY <1>19 DEF Is, Indexable, DecisionsNamed
  <2> QED  BY <1>15, <2>1 DEF WaitsForOperation, OpOf
<1>21. TombstonesHold'
  <2>1. ASSUME NEW e \in events', e[1] = "tombstone"
        PROVE  /\ e[2] \in OpId /\ ops'[e[2]].status # "none"
               /\ item'[ops'[e[2]].m] = NoItem /\ revs'[ops'[e[2]].m] = <<>>
               /\ <<"decision", ops'[e[2]].m>> \in events'
    <3>1. e \in events
      BY <1>1, <2>1, EventNames
    <3>2. /\ e[2] \in OpId /\ ops[e[2]].status # "none" /\ ops[e[2]].m \in Memory
          /\ item[ops[e[2]].m] = NoItem /\ revs[ops[e[2]].m] = <<>>
          /\ <<"decision", ops[e[2]].m>> \in events
      BY <2>1, <3>1 DEF TombstonesHold, OpsNamed
    <3>3. ops[e[2]].m # m
      BY <1>9, <3>2
    <3> QED  BY <1>1, <1>9, <1>12, <3>2, <3>3
  <2> QED  BY <2>1 DEF TombstonesHold
<1>22. Carried
  <2>1. ASSUME NEW p \in OpId, ops[p].status # "none", Kind(p) # "delete"
        PROVE  ops'[p].rev = ops[p].rev /\ (Served(p) => Served(p)')
    <3>1. ops'[p] = ops[p] /\ ops[p].m \in Memory
      BY <1>6, <1>7, <2>1 DEF OpsNamed
    <3> QED  BY <1>19, <3>1 DEF Served
  <2>2. ASSUME NEW n \in Memory, Is(n, "deletion_pending")
        PROVE  item'[n].status # "active" /\ item'[n].rev \in {item[n].rev, NoRev}
    BY <1>9, <2>2 DEF Is
  <2> QED  BY <1>1, <1>12, <2>1, <2>2 DEF Carried
<1> QED
  BY <1>13, <1>14, <1>16, <1>17, <1>18, <1>20, <1>21, <1>22

\* A repair that lost its row stores a deletion of the record it wrote.
LEMMA CompensationKeeps ==
    ASSUME LifeInv, NEW o \in OpId, Kind(o) = "delete", o[1] # "delete", ops[o].status = "none",
           NEW m \in Memory, NEW rev \in Rev, NEW ext \in Nat, Enqueue(o, m, rev, ext),
           UNCHANGED <<item, revs, events, intent, asked>>
    PROVE  LifeInv' /\ Carried
<1> USE DEF LifeInv
<1>1. /\ ops' \in [OpId -> OpRec]
      /\ ops'[o].status = "pending" /\ ops'[o].m = m /\ ops'[o].rev = rev
      /\ \A p \in OpId : p # o => ops'[p] = ops[p]
  BY EnqueueStores
<1>2. \A x \in Revision : OpOf(x) \in OpId /\ OpOf(x) # o /\ ops'[OpOf(x)] = ops[OpOf(x)]
  BY <1>1, OperationNames
<1>3. ASSUME NEW n \in Memory, NEW d \in Deleter
      PROVE  ops'[<<"delete", n, d>>] = ops[<<"delete", n, d>>]
  <2>1. <<"delete", n, d>> \in OpId /\ <<"delete", n, d>>[1] = "delete"
    BY OperationNames
  <2>2. <<"delete", n, d>> # o
    BY <2>1
  <2> QED  BY <1>1, <2>1, <2>2
<1>4. \A p \in OpId : ops[p].status # "none" => ops'[p] = ops[p]
  BY <1>1
<1>5. LifeTypeOK' /\ UpdatesFollow' /\ UpdatesBuildOnLast'
  BY <1>1 DEF LifeTypeOK, UpdatesFollow, UpdatesBuildOnLast, Is
<1>6. DecisionsNamed'
  BY <1>2 DEF DecisionsNamed, Is, OpOf
<1>7. OpsNamed'
  BY <1>1 DEF OpsNamed
<1>8. DeletionHasOperation'
  BY <1>3 DEF DeletionHasOperation, Is
<1>9. WaitsForOperation'
  <2>1. \A n \in Memory : Indexable(n) => item[n].rev \in Revision
    BY DEF Indexable, Is, DecisionsNamed
  <2> QED  BY <1>2, <2>1 DEF WaitsForOperation, Indexable, Is, OpOf
<1>10. TombstonesHold'
  BY <1>4 DEF TombstonesHold
<1>11. Carried
  BY <1>4 DEF Carried, Served, Indexable, Is
<1> QED  BY <1>5, <1>6, <1>7, <1>8, <1>9, <1>10, <1>11

\* set_index_state marks an active row, if at all.
LEMMA IndexStateMarks ==
    ASSUME LifeInv, NEW m, NEW rev, NEW ext \in Nat,
           NEW status \in {"ready", "dead_letter", "out_of_sync"},
           item' = IndexState(m, rev, status, ext), UNCHANGED <<revs, events, ops, intent, asked>>
    PROVE  LifeInv' /\ Carried
<1>1. CASE item' = item
  BY <1>1, RowsStay
<1>2. CASE item' # item
  <2> DEFINE row == [item[m] EXCEPT !.index = status, !.ext = IF ext = 0 THEN item[m].ext ELSE ext]
  <2>1. /\ Is(m, "active")
        /\ item' = [item EXCEPT ![m].index = status, ![m].ext = IF ext = 0 THEN @ ELSE ext]
    BY <1>2 DEF IndexState
  <2>2. m \in Memory
    BY <1>2, <2>1 DEF LifeInv, LifeTypeOK
  <2>3. item[m] \in ItemRec
    BY <2>2 DEF LifeInv, LifeTypeOK
  <2>4. /\ row \in ItemRec /\ row.status = item[m].status /\ row.rev = item[m].rev
        /\ row.expired = item[m].expired /\ row.index # "pending"
    BY <2>3 DEF ItemRec
  <2>5. item' = [item EXCEPT ![m] = row]
    BY <2>1, <2>2 DEF LifeInv, LifeTypeOK
  <2> HIDE DEF row
  <2>6. /\ item' \in [Memory -> ItemRec]
        /\ \A n \in Memory : /\ item'[n].status = item[n].status /\ item'[n].rev = item[n].rev
                             /\ item[n].expired => item'[n].expired
                             /\ item'[n].index = "pending" => item[n].index = "pending"
                             /\ Is(n, "none") => item'[n] = item[n]
    BY <2>1, <2>2, <2>4, <2>5 DEF LifeInv, LifeTypeOK, Is
  <2> QED  BY <2>6, ItemsMarked
<1> QED  BY <1>1, <1>2

\* Every step of formation and of deletions keeps the rows in order.
LEMMA LifeStep == ASSUME LifeInv, LifeNext PROVE LifeInv' /\ Carried
<1>1. ASSUME NEW m \in Memory, CommitAdd(m) PROVE LifeInv' /\ Carried
  BY <1>1, CommitAddKeeps
<1>2. ASSUME NEW m \in Memory, Expire(m) PROVE LifeInv' /\ Carried
  <2> DEFINE row == [item[m] EXCEPT !.expired = TRUE]
  <2>1. /\ Is(m, "active") /\ item' = [item EXCEPT ![m] = row]
        /\ UNCHANGED <<revs, events, ops, intent, asked>>
    BY <1>2 DEF Expire
  <2>2. item[m] \in ItemRec
    BY DEF LifeInv, LifeTypeOK
  <2>3. /\ row \in ItemRec /\ row.status = item[m].status /\ row.rev = item[m].rev
        /\ row.expired = TRUE /\ row.index = item[m].index
    BY <2>2 DEF ItemRec
  <2> HIDE DEF row
  <2>4. /\ item' \in [Memory -> ItemRec]
        /\ \A n \in Memory : /\ item'[n].status = item[n].status /\ item'[n].rev = item[n].rev
                             /\ item[n].expired => item'[n].expired
                             /\ item'[n].index = "pending" => item[n].index = "pending"
                             /\ Is(n, "none") => item'[n] = item[n]
    BY <2>1, <2>3 DEF LifeInv, LifeTypeOK, Is
  <2> QED  BY <2>1, <2>4, ItemsMarked
<1>3. ASSUME NEW u \in Update, CommitUpdate(u) PROVE LifeInv' /\ Carried
  BY <1>3, CommitUpdateKeeps
<1>4. ASSUME NEW u \in Update, NEW m \in Memory, Evaluate(u, m) PROVE LifeInv' /\ Carried
  <2>1. /\ intent[u] = NoTarget /\ Indexable(m)
        /\ intent' = [intent EXCEPT ![u] = [m |-> m, rev |-> item[m].rev]]
        /\ UNCHANGED <<item, revs, events, ops, asked>>
    BY <1>4 DEF Evaluate
  <2>2. [m |-> m, rev |-> item[m].rev] \in Target
    BY DEF LifeInv, LifeTypeOK, ItemRec, Target
  <2>3. /\ intent' \in [Update -> {NoTarget} \cup Target]
        /\ \A v \in Update : intent[v] # NoTarget => intent'[v] = intent[v]
        /\ asked' \in [Deleter -> {NoTarget} \cup Target]
    BY <2>1, <2>2 DEF LifeInv, LifeTypeOK
  <2> QED  BY <2>1, <2>3, ReadingKeeps
<1>5. ASSUME NEW d \in Deleter, RequestDelete(d) PROVE LifeInv' /\ Carried
  BY <1>5, RequestDeleteKeeps
<1>6. ASSUME NEW d \in Deleter, DeleteRefused(d) PROVE LifeInv' /\ Carried
  <2>1. /\ asked' = [asked EXCEPT ![d] = NoTarget]
        /\ UNCHANGED <<item, revs, events, ops, intent>>
    BY <1>6 DEF DeleteRefused
  <2>2. /\ intent' \in [Update -> {NoTarget} \cup Target]
        /\ asked' \in [Deleter -> {NoTarget} \cup Target]
    BY <2>1 DEF LifeInv, LifeTypeOK
  <2> QED  BY <2>1, <2>2, ReadingKeeps
<1>7. ASSUME NEW d \in Deleter, NEW m \in Memory, AskDelete(d, m) PROVE LifeInv' /\ Carried
  <2>1. /\ asked' = [asked EXCEPT ![d] = [m |-> m, rev |-> item[m].rev]]
        /\ UNCHANGED <<item, revs, events, ops, intent>>
    BY <1>7 DEF AskDelete
  <2>2. [m |-> m, rev |-> item[m].rev] \in Target
    BY DEF LifeInv, LifeTypeOK, ItemRec, Target
  <2>3. /\ intent' \in [Update -> {NoTarget} \cup Target]
        /\ asked' \in [Deleter -> {NoTarget} \cup Target]
    BY <2>1, <2>2 DEF LifeInv, LifeTypeOK
  <2> QED  BY <2>1, <2>3, ReadingKeeps
<1> QED  BY <1>1, <1>2, <1>3, <1>4, <1>5, <1>6, <1>7 DEF LifeNext

-----------------------------------------------------------------------------

ExtRec == [ext : External, m : Memory \cup {NoRev}, rev : Rev]
AgentRec == [pc : {"idle", "read", "scan", "apply", "state", "complete", "close", "fail", "dead",
                   "retry", "list", "items", "rebuild", "over", "compensate", "undo"},
             kind : {"none", "add", "update", "delete", "superseded"}, m : Memory \cup {NoRev},
             op : OpId \cup {<<>>}, token : Nat, item : ItemRec, found : SUBSET Nat, ext : Nat]
ScopeRec == [canon : SUBSET [m : Memory, rev : Rev], records : SUBSET ExtRec, retained : SUBSET Nat]
GovRec == [pc : {"idle", "accept", "over"}, op : OpId \cup {<<>>},
           status : {"none", "pending", "retry", "claimed", "completed", "dead_letter"}]

\* The types of the index and of everyone who works on it.
IndexTypeOK ==
    /\ provider \subseteq ExtRec
    /\ issued \in Nat
    /\ agent \in [Agent -> AgentRec]
    /\ scope \in [Repairer -> ScopeRec]
    /\ governor \in [Governor -> GovRec]

\* A worker has a stored operation and works for its memory; it completes an
\* addition or an update only when nothing is left to do.
WorkerOK(a) ==
    /\ a.pc # "idle" => a.op \in OpId /\ ops[a.op].status # "none"
    /\ a.pc \in {"read", "scan", "apply", "state"} => a.m = ops[a.op].m /\ a.kind = Kind(a.op)
    /\ a.pc = "complete" => Kind(a.op) = "delete" \/ Served(a.op)

\* A repair works on one memory at a time; what it may have to undo is a record
\* the index has handed out.
RepairerOK(a) ==
    /\ a.pc \notin {"read", "complete", "close", "dead", "retry"}
    /\ a.kind # "delete"
    /\ a.pc \in {"scan", "apply", "state", "compensate", "undo", "fail"} => a.m \in Memory
    /\ a.pc \in {"state", "compensate"} => a.ext \in External

\* An administrator has read the deletion of a memory.
GovernorOK(g) == g.pc = "accept" => g.op \in OpId /\ Kind(g.op) = "delete" /\ ops[g.op].status # "none"

IndexInv ==
    /\ LifeInv /\ IndexTypeOK
    /\ \A w \in Worker : WorkerOK(agent[w])
    /\ \A r \in Repairer : RepairerOK(agent[r])
    /\ \A g \in Governor : GovernorOK(governor[g])

-----------------------------------------------------------------------------

\* What a worker or an administrator knows of its operation stays true.
LEMMA KnowledgeCarried ==
    ASSUME Carried
    PROVE  /\ \A a \in AgentRec : WorkerOK(a) => WorkerOK(a)'
           /\ \A g \in GovRec : GovernorOK(g) => GovernorOK(g)'
<1>1. ASSUME NEW a \in AgentRec, WorkerOK(a) PROVE WorkerOK(a)'
  <2>1. a.pc # "idle" => a.op \in OpId /\ ops'[a.op].status # "none" /\ ops'[a.op].m = ops[a.op].m
    BY <1>1 DEF WorkerOK, Carried
  <2>2. ASSUME a.pc = "complete", Kind(a.op) # "delete" PROVE Served(a.op)'
    <3>1. a.op \in OpId /\ ops[a.op].status # "none" /\ Served(a.op)
      BY <1>1, <2>2 DEF WorkerOK
    <3> QED  BY <2>2, <3>1 DEF Carried
  <2> QED  BY <1>1, <2>1, <2>2 DEF WorkerOK
<1>2. ASSUME NEW g \in GovRec, GovernorOK(g) PROVE GovernorOK(g)'
  BY <1>2 DEF GovernorOK, Carried
<1> QED  BY <1>1, <1>2

\* The rows change, agents and administrators stay as they are.
LEMMA OthersStay ==
    ASSUME IndexInv, LifeInv', Carried, UNCHANGED <<agent, governor>>,
           provider' \subseteq ExtRec, issued' \in Nat, scope' \in [Repairer -> ScopeRec]
    PROVE  IndexInv'
<1>1. IndexTypeOK'
  BY DEF IndexInv, IndexTypeOK
<1>2. ASSUME NEW w \in Worker PROVE WorkerOK(agent[w])'
  <2>1. PICK a \in AgentRec : a = agent[w]
    BY DEF IndexInv, IndexTypeOK, Agent
  <2>2. WorkerOK(a)' /\ a = agent'[w]
    BY <2>1, KnowledgeCarried DEF IndexInv
  <2> QED  BY <2>2
<1>3. ASSUME NEW g \in Governor PROVE GovernorOK(governor[g])'
  <2>1. PICK a \in GovRec : a = governor[g]
    BY DEF IndexInv, IndexTypeOK
  <2>2. GovernorOK(a)' /\ a = governor'[g]
    BY <2>1, KnowledgeCarried DEF IndexInv
  <2> QED  BY <2>2
<1>4. \A r \in Repairer : RepairerOK(agent[r])'
  BY DEF IndexInv
<1> QED  BY <1>1, <1>2, <1>3, <1>4 DEF IndexInv

\* One agent moves on to a, and what it does to the index is typed.
LEMMA AgentMoves ==
    ASSUME IndexInv, LifeInv', Carried, NEW w \in Agent, NEW a \in AgentRec,
           agent' = [agent EXCEPT ![w] = a], w \in Worker => WorkerOK(a)',
           w \in Repairer => RepairerOK(a), governor' = governor,
           provider' \subseteq ExtRec, issued' \in Nat, scope' \in [Repairer -> ScopeRec]
    PROVE  IndexInv'
<1>1. agent'[w] = a /\ \A v \in Agent : v # w => agent'[v] = agent[v]
  BY DEF IndexInv, IndexTypeOK
<1>2. IndexTypeOK'
  BY DEF IndexInv, IndexTypeOK
<1>3. ASSUME NEW v \in Worker PROVE WorkerOK(agent[v])'
  <2>1. v \in Agent
    BY DEF Agent
  <2>2. CASE v = w
    <3>1. \A x : x = agent'[v] => x = a
      BY <1>1, <2>2
    <3> QED  BY <1>1, <2>2
  <2>3. CASE v # w
    <3>1. PICK b \in AgentRec : b = agent[v]
      BY <2>1 DEF IndexInv, IndexTypeOK
    <3>2. WorkerOK(b)' /\ b = agent'[v]
      BY <1>1, <2>1, <2>3, <3>1, KnowledgeCarried DEF IndexInv
    <3> QED  BY <3>2
  <2> QED  BY <2>2, <2>3
<1>4. ASSUME NEW g \in Governor PROVE GovernorOK(governor[g])'
  <2>1. PICK b \in GovRec : b = governor[g]
    BY DEF IndexInv, IndexTypeOK
  <2>2. GovernorOK(b)' /\ b = governor'[g]
    BY <2>1, KnowledgeCarried DEF IndexInv
  <2> QED  BY <2>2
<1>5. \A r \in Repairer : RepairerOK(agent[r])'
  BY <1>1 DEF IndexInv, Agent
<1> QED  BY <1>2, <1>3, <1>4, <1>5 DEF IndexInv

\* An administrator moves on to b.
LEMMA GovernorMoves ==
    ASSUME IndexInv, LifeInv', Carried, NEW g \in Governor, NEW b \in GovRec,
           governor' = [governor EXCEPT ![g] = b], GovernorOK(b)',
           UNCHANGED <<provider, issued, agent, scope>>
    PROVE  IndexInv'
<1>1. governor'[g] = b /\ \A h \in Governor : h # g => governor'[h] = governor[h]
  BY DEF IndexInv, IndexTypeOK
<1>2. IndexTypeOK'
  BY DEF IndexInv, IndexTypeOK
<1>3. ASSUME NEW v \in Worker PROVE WorkerOK(agent[v])'
  <2>1. PICK a \in AgentRec : a = agent[v]
    BY DEF IndexInv, IndexTypeOK, Agent
  <2>2. WorkerOK(a)' /\ a = agent'[v]
    BY <2>1, KnowledgeCarried DEF IndexInv
  <2> QED  BY <2>2
<1>4. ASSUME NEW h \in Governor PROVE GovernorOK(governor[h])'
  <2>1. CASE h = g
    BY <1>1, <2>1
  <2>2. CASE h # g
    <3>1. PICK c \in GovRec : c = governor[h]
      BY DEF IndexInv, IndexTypeOK
    <3>2. GovernorOK(c)' /\ c = governor'[h]
      BY <1>1, <2>2, <3>1, KnowledgeCarried DEF IndexInv
    <3> QED  BY <3>2
  <2> QED  BY <2>1, <2>2
<1>5. \A r \in Repairer : RepairerOK(agent[r])'
  BY DEF IndexInv
<1> QED  BY <1>2, <1>3, <1>4, <1>5 DEF IndexInv

\* The record a memory keeps is one of the records found.
LEMMA KeeperFound ==
    ASSUME NEW S \in SUBSET ExtRec, S # {}, NEW it
    PROVE  Keeper(S, it) \in S
<1>1. ASSUME NEW T \in SUBSET ExtRec, T # {}
      PROVE  (CHOOSE r \in T : \A t \in T : r.ext <= t.ext) \in T
  <2> DEFINE R == OpToRel(<, Nat)
             E == Ids(T)
  <2>1. E \subseteq Nat /\ E # {} /\ \A r \in T : r.ext \in E
    BY <1>1 DEF Ids, ExtRec, External
  <2>2. PICK e \in E : \A y \in E : ~(<<y, e>> \in R)
    <3> HIDE DEF E
    <3>1. IsWellFoundedOn(R, Nat)
      BY NatLessThanWellFounded
    <3>2. \E e \in E : \A y \in E : ~(<<y, e>> \in R)
      BY <2>1, <3>1, WFMin
    <3> QED  BY <3>2
  <2>3. \A y \in E : e <= y
    <3>1. \A y \in E : ~(y < e)
      BY <2>1, <2>2 DEF OpToRel
    <3> QED  BY <2>1, <3>1
  <2>4. PICK r \in T : r.ext = e
    BY DEF Ids
  <2>5. \A t \in T : r.ext <= t.ext
    BY <2>1, <2>3, <2>4
  <2> QED  BY <2>5
<1>2. {r \in S : r.rev = it.rev} \in SUBSET ExtRec
  OBVIOUS
<1>3. it.ext \in Ids(S) => (CHOOSE r \in S : r.ext = it.ext) \in S
  BY DEF Ids
<1> QED  BY <1>1, <1>2, <1>3 DEF Keeper
-----------------------------------------------------------------------------
(* The outbox.                                                             *)

\* Operations that were given up keep their names and are not completed.
LEMMA GivenUpKept ==
    ASSUME LifeTypeOK
    PROVE  /\ GivenUp \in [OpId -> OpRec]
           /\ \A o \in OpId : /\ GivenUp[o].m = ops[o].m /\ GivenUp[o].rev = ops[o].rev
                              /\ GivenUp[o].status = "none" <=> ops[o].status = "none"
                              /\ GivenUp[o].status = "completed" <=> ops[o].status = "completed"
                              /\ o \notin Exhausted => GivenUp[o] = ops[o]
<1>1. ASSUME NEW o \in OpId, o \in Exhausted
      PROVE  /\ [ops[o] EXCEPT !.status = "dead_letter", !.lease = "none"] \in OpRec
             /\ GivenUp[o] = [ops[o] EXCEPT !.status = "dead_letter", !.lease = "none"]
             /\ ops[o].status = "claimed" /\ ops[o] \in OpRec
  <2>1. ops[o] \in OpRec /\ ops[o].status = "claimed"
    BY <1>1 DEF LifeTypeOK, Exhausted, Lapsed
  <2>2. [ops[o] EXCEPT !.status = "dead_letter", !.lease = "none"] \in OpRec
    BY <2>1 DEF OpRec
  <2> QED  BY <1>1, <2>1, <2>2 DEF GivenUp
<1>2. ASSUME NEW o \in OpId, o \notin Exhausted PROVE GivenUp[o] = ops[o] /\ ops[o] \in OpRec
  BY <1>2 DEF GivenUp, LifeTypeOK
<1>3. GivenUp \in [OpId -> OpRec]
  <2>1. \A o \in OpId : (IF o \in Exhausted
           THEN [ops[o] EXCEPT !.status = "dead_letter", !.lease = "none"] ELSE ops[o]) \in OpRec
    BY <1>1, <1>2
  <2> QED  BY <2>1 DEF GivenUp
<1>4. ASSUME NEW o \in OpId
      PROVE  /\ GivenUp[o].m = ops[o].m /\ GivenUp[o].rev = ops[o].rev
             /\ GivenUp[o].status = "none" <=> ops[o].status = "none"
             /\ GivenUp[o].status = "completed" <=> ops[o].status = "completed"
             /\ o \notin Exhausted => GivenUp[o] = ops[o]
  BY <1>1, <1>2 DEF OpRec
<1> QED  BY <1>3, <1>4

\* A worker claims an operation.
LEMMA ClaimKeeps ==
    ASSUME IndexInv, NEW w \in Agent, NEW o \in OpId, Claim(w, o)
    PROVE  IndexInv' /\ Carried
<1> DEFINE claimed == [ops[o] EXCEPT !.status = "claimed", !.lease = "live",
                                     !.attempts = ops[o].attempts + 1, !.token = ops[o].token + 1]
           b == [Idle EXCEPT !.pc = "read", !.kind = Kind(o), !.op = o, !.m = ops[o].m,
                             !.token = ops[o].token + 1]
<1>1. /\ w \in Worker /\ Claimable(o)
      /\ ops' = [GivenUp EXCEPT ![o] = claimed]
      /\ agent' = [agent EXCEPT ![w] = b]
      /\ UNCHANGED <<item, revs, events, intent, asked, provider, issued, scope, governor>>
  <2>1. w \in Worker /\ Claimable(o) /\ agent' = [agent EXCEPT ![w] = b]
    BY DEF Claim, Oldest, Set
  <2>2. ops' = [GivenUp EXCEPT ![o] = claimed]
    BY Zenon DEF Claim
  <2> QED  BY <2>1, <2>2 DEF Claim
<1>2. LifeInv /\ LifeTypeOK
  BY DEF IndexInv, LifeInv
<1>3. ops[o] \in OpRec
  BY <1>2 DEF LifeTypeOK
<1>4. /\ claimed \in OpRec /\ claimed.status = "claimed"
      /\ claimed.m = ops[o].m /\ claimed.rev = ops[o].rev
  <2>1. /\ claimed = [ops[o] EXCEPT !.status = "claimed", !.lease = "live",
                                    !.attempts = claimed.attempts, !.token = claimed.token]
        /\ claimed.attempts \in Nat /\ claimed.token \in Nat
    BY <1>3 DEF OpRec
  <2> QED  BY <1>3, <2>1 DEF OpRec
<1>5. ops[o].status # "none"
  BY <1>1 DEF Claimable, Lapsed
<1>6. ops[o].m \in Memory
  BY <1>2, <1>5 DEF LifeInv, OpsNamed
<1>7. /\ b \in AgentRec /\ b.pc = "read" /\ b.op = o /\ b.m = ops[o].m /\ b.kind = Kind(o)
  <2>1. Idle \in AgentRec
    BY DEF Idle, AgentRec, ItemRec, NoItem, Rev
  <2>2. Kind(o) \in {"add", "update", "delete"}
    BY OperationNames
  <2>3. ops[o].token + 1 \in Nat
    BY <1>3 DEF OpRec
  <2> QED  BY <1>6, <2>1, <2>2, <2>3 DEF AgentRec
<1> HIDE DEF claimed, b
<1>8. /\ ops' \in [OpId -> OpRec]
      /\ \A p \in OpId : /\ ops'[p].m = ops[p].m /\ ops'[p].rev = ops[p].rev
                         /\ ops'[p].status = "none" <=> ops[p].status = "none"
                         /\ ops'[p].status = "completed" =>
                              ops[p].status = "completed" \/ Kind(p) = "delete" \/ Served(p)
  <2>1. ops' \in [OpId -> OpRec] /\ ops'[o] = claimed /\ \A p \in OpId : p # o => ops'[p] = GivenUp[p]
    BY <1>1, <1>2, <1>4, GivenUpKept
  <2>2. ASSUME NEW p \in OpId
        PROVE  /\ ops'[p].m = ops[p].m /\ ops'[p].rev = ops[p].rev
               /\ ops'[p].status = "none" <=> ops[p].status = "none"
               /\ ops'[p].status = "completed" => ops[p].status = "completed"
    <3>1. CASE p = o
      BY <1>2, <1>4, <1>5, <2>1, <3>1, GivenUpKept
    <3>2. CASE p # o
      BY <1>2, <2>1, <3>2, GivenUpKept
    <3> QED  BY <3>1, <3>2
  <2> QED  BY <2>1, <2>2
<1>9. LifeInv' /\ Carried
  BY <1>1, <1>2, <1>8, OperationsMove
<1>10. PICK a \in AgentRec : a = b
  BY <1>7
<1>11. WorkerOK(a)'
  BY <1>5, <1>7, <1>8, <1>10 DEF WorkerOK
<1>12. w \notin Repairer /\ provider' \subseteq ExtRec /\ issued' \in Nat /\ scope' \in [Repairer -> ScopeRec]
  BY <1>1, IndexingAssumption DEF IndexInv, IndexTypeOK
<1> QED  BY <1>1, <1>9, <1>10, <1>11, <1>12, AgentMoves

\* Operations change, agents do not.
LEMMA OperationsOnly ==
    ASSUME IndexInv, ops' \in [OpId -> OpRec], UNCHANGED <<item, revs, events, intent, asked, indexVars>>,
           \A o \in OpId : /\ ops'[o].m = ops[o].m /\ ops'[o].rev = ops[o].rev
                           /\ ops'[o].status = "none" <=> ops[o].status = "none"
                           /\ ops'[o].status = "completed" => ops[o].status = "completed"
    PROVE  IndexInv' /\ Carried
<1>1. LifeInv' /\ Carried
  BY OperationsMove DEF IndexInv
<1>2. /\ UNCHANGED <<agent, governor>>
      /\ provider' \subseteq ExtRec /\ issued' \in Nat /\ scope' \in [Repairer -> ScopeRec]
  BY DEF IndexInv, IndexTypeOK, indexVars
<1> QED  BY <1>1, <1>2, OthersStay

\* Nothing is left to claim; exhausted operations are given up.
LEMMA ClaimNothingKeeps ==
    ASSUME IndexInv, NEW w \in Agent, ClaimNothing(w)
    PROVE  IndexInv' /\ Carried
<1>1. ops' = GivenUp /\ UNCHANGED <<item, revs, events, intent, asked, indexVars>>
  BY DEF ClaimNothing
<1>2. LifeTypeOK
  BY DEF IndexInv, LifeInv
<1> QED  BY <1>1, <1>2, GivenUpKept, OperationsOnly

\* A lease lapses.
LEMMA LapseKeeps ==
    ASSUME IndexInv, NEW o \in OpId, LeaseLapses(o)
    PROVE  IndexInv' /\ Carried
<1> DEFINE x == [ops[o] EXCEPT !.lease = "lapsed"]
<1>1. ops' = [ops EXCEPT ![o] = x] /\ UNCHANGED <<item, revs, events, intent, asked, indexVars>>
  BY DEF LeaseLapses
<1>2. ops \in [OpId -> OpRec]
  BY DEF IndexInv, LifeInv, LifeTypeOK
<1>3. x \in OpRec /\ x.m = ops[o].m /\ x.rev = ops[o].rev /\ x.status = ops[o].status
  BY <1>2 DEF OpRec
<1> HIDE DEF x
<1>4. /\ ops' \in [OpId -> OpRec]
      /\ \A p \in OpId : /\ ops'[p].m = ops[p].m /\ ops'[p].rev = ops[p].rev
                         /\ ops'[p].status = ops[p].status
  BY <1>1, <1>2, <1>3
<1> QED  BY <1>1, <1>4, OperationsOnly

\* An agent works on the index; the rows stay as they are.
LEMMA AgentWorks ==
    ASSUME IndexInv, UNCHANGED lifeVars, NEW w \in Agent, NEW a \in AgentRec,
           agent' = [agent EXCEPT ![w] = a], w \in Worker => WorkerOK(a),
           w \in Repairer => RepairerOK(a), governor' = governor,
           provider' \subseteq ExtRec, issued' \in Nat, scope' \in [Repairer -> ScopeRec]
    PROVE  IndexInv' /\ Carried
<1>1. LifeInv' /\ Carried
  BY RowsStay DEF lifeVars, IndexInv
<1>2. w \in Worker => WorkerOK(a)'
  BY <1>1, KnowledgeCarried
<1> QED  BY <1>1, <1>2, AgentMoves

\* What is known of an agent by its invariant.
LEMMA AgentKnown ==
    ASSUME IndexInv, NEW w \in Agent
    PROVE  /\ agent[w] \in AgentRec
           /\ w \in Worker => WorkerOK(agent[w]) /\ w \notin Repairer
           /\ w \in Repairer => RepairerOK(agent[w]) /\ w \notin Worker
           /\ LifeInv /\ LifeTypeOK /\ IndexTypeOK
BY IndexingAssumption DEF IndexInv, IndexTypeOK, Agent, LifeInv

-----------------------------------------------------------------------------
(* Workers.                                                                *)

\* A worker reads the item of its operation.
LEMMA ReadItemKeeps ==
    ASSUME IndexInv, NEW w \in Agent, ReadItem(w)
    PROVE  IndexInv' /\ Carried
<1> DEFINE o == agent[w].op
           m == ops[o].m
           stale == ~Indexable(m) \/ item[m].rev # ops[o].rev
           mapped == IF ops[o].ext # 0 THEN ops[o].ext ELSE item[m].ext
           b == [agent[w] EXCEPT !.item = item[m], !.ext = mapped,
                                 !.pc = CASE Kind(o) # "delete" /\ stale -> "complete"
                                          [] Kind(o) = "update" /\ ~stale /\ mapped # 0 -> "apply"
                                          [] OTHER -> "scan",
                                 !.kind = IF Kind(o) # "delete" /\ stale THEN "superseded"
                                          ELSE agent[w].kind]
<1>1. /\ agent[w].pc = "read" /\ agent' = [agent EXCEPT ![w] = b]
      /\ UNCHANGED <<lifeVars, provider, issued, scope, governor>>
  BY DEF ReadItem, At, Set
<1>2. /\ agent[w] \in AgentRec /\ w \in Worker /\ WorkerOK(agent[w]) /\ w \notin Repairer
      /\ LifeInv /\ LifeTypeOK /\ IndexTypeOK
  BY <1>1, AgentKnown DEF RepairerOK, Agent
<1>3. o \in OpId /\ ops[o].status # "none" /\ agent[w].m = m /\ agent[w].kind = Kind(o)
  BY <1>1, <1>2 DEF WorkerOK
<1>4. m \in Memory
  BY <1>2, <1>3 DEF LifeInv, OpsNamed
<1>5. item[m] \in ItemRec /\ mapped \in Nat
  <2>1. item[m] \in ItemRec /\ ops[o] \in OpRec
    BY <1>2, <1>3, <1>4 DEF LifeTypeOK
  <2> QED  BY <2>1 DEF ItemRec, OpRec
<1>6. stale => Served(o)
  BY DEF Served
<1>7. o = agent[w].op
  OBVIOUS
<1> HIDE DEF o, m, stale, mapped
<1>8. b \in AgentRec
  BY <1>2, <1>5 DEF AgentRec
<1>9. /\ b.op = o /\ b.m = m /\ b.pc \in {"complete", "apply", "scan"}
      /\ b.pc = "complete" => Kind(o) # "delete" /\ stale
      /\ b.pc # "complete" => b.kind = Kind(o)
  <2>1. b.op = o /\ b.m = m
    BY <1>2, <1>3, <1>7 DEF AgentRec
  <2>2. /\ b.pc = CASE Kind(o) # "delete" /\ stale -> "complete"
                    [] Kind(o) = "update" /\ ~stale /\ mapped # 0 -> "apply"
                    [] OTHER -> "scan"
        /\ b.kind = IF Kind(o) # "delete" /\ stale THEN "superseded" ELSE Kind(o)
    BY <1>2, <1>3 DEF AgentRec
  <2> QED  BY <2>1, <2>2
<1> HIDE DEF b
<1>10. WorkerOK(b)
  BY <1>3, <1>6, <1>9 DEF WorkerOK, m
<1>11. /\ governor' = governor
       /\ provider' \subseteq ExtRec /\ issued' \in Nat /\ scope' \in [Repairer -> ScopeRec]
  BY <1>1, <1>2 DEF IndexTypeOK
<1> QED  BY <1>1, <1>2, <1>8, <1>10, <1>11, AgentWorks

\* An agent scans the records of its memory.
LEMMA ScanKeeps ==
    ASSUME IndexInv, NEW w \in Agent, Scan(w)
    PROVE  IndexInv' /\ Carried
<1> DEFINE S == Records(agent[w].m)
           found == Ids(S)
           ext == IF agent[w].kind = "delete" \/ found = {} THEN agent[w].ext
                  ELSE Keeper(S, agent[w].item).ext
           pc == IF agent[w].kind = "update" /\ found = {} THEN "fail" ELSE "apply"
           b == [agent[w] EXCEPT !.found = found, !.ext = ext, !.pc = pc]
<1>1. /\ agent[w].pc = "scan" /\ agent' = [agent EXCEPT ![w] = b]
      /\ UNCHANGED <<lifeVars, provider, issued, scope, governor>>
  BY DEF Scan, At, Set
<1>2. /\ agent[w] \in AgentRec /\ LifeInv /\ LifeTypeOK /\ IndexTypeOK
      /\ w \in Worker => WorkerOK(agent[w]) /\ w \notin Repairer
      /\ w \in Repairer => RepairerOK(agent[w]) /\ w \notin Worker
  BY AgentKnown
<1>3. S \in SUBSET ExtRec /\ found \in SUBSET Nat /\ (found # {} => S # {})
  BY <1>2 DEF Records, Ids, IndexTypeOK, ExtRec, External
<1>4. ext \in Nat
  <2>1. S # {} => Keeper(S, agent[w].item) \in ExtRec
    BY <1>3, KeeperFound
  <2>2. agent[w].ext \in Nat
    BY <1>2 DEF AgentRec
  <2> QED  BY <1>3, <2>1, <2>2 DEF ExtRec, External
<1>5. pc \in {"fail", "apply"}
  OBVIOUS
<1> HIDE DEF S, found, ext, pc
<1>6. /\ b \in AgentRec /\ b.op = agent[w].op /\ b.m = agent[w].m /\ b.kind = agent[w].kind
      /\ b.pc \in {"fail", "apply"}
  BY <1>2, <1>3, <1>4, <1>5 DEF AgentRec
<1> HIDE DEF b
<1>7. /\ w \in Worker => WorkerOK(b)
      /\ w \in Repairer => RepairerOK(b)
  BY <1>1, <1>2, <1>6 DEF WorkerOK, RepairerOK
<1>8. /\ governor' = governor
      /\ provider' \subseteq ExtRec /\ issued' \in Nat /\ scope' \in [Repairer -> ScopeRec]
  BY <1>1, <1>2 DEF IndexTypeOK
<1> QED  BY <1>1, <1>6, <1>7, <1>8, AgentWorks

\* An agent goes on with what it has, and does something to the index.
LEMMA AgentGoes ==
    ASSUME IndexInv, UNCHANGED lifeVars, NEW w \in Agent,
           NEW pc \in {"state", "complete", "fail"}, Goto(w, pc), agent[w].pc \in {"scan", "apply"},
           pc = "complete" => agent[w].kind = "delete",
           pc = "state" => agent[w].ext \in External,
           UNCHANGED <<governor, scope, issued>>, provider' \subseteq ExtRec
    PROVE  IndexInv' /\ Carried
<1> DEFINE b == [agent[w] EXCEPT !.pc = pc]
<1>1. /\ agent[w] \in AgentRec /\ IndexTypeOK
      /\ w \in Worker => WorkerOK(agent[w]) /\ w \notin Repairer
      /\ w \in Repairer => RepairerOK(agent[w]) /\ w \notin Worker
  BY AgentKnown
<1>2. agent' = [agent EXCEPT ![w] = b]
  BY DEF Goto
<1>3. /\ b \in AgentRec /\ b.op = agent[w].op /\ b.m = agent[w].m /\ b.kind = agent[w].kind
      /\ b.pc = pc /\ b.ext = agent[w].ext
  BY <1>1 DEF AgentRec
<1> HIDE DEF b
<1>4. /\ w \in Worker => WorkerOK(b)
      /\ w \in Repairer => RepairerOK(b)
  BY <1>1, <1>3 DEF WorkerOK, RepairerOK
<1>5. issued' \in Nat /\ scope' \in [Repairer -> ScopeRec]
  BY <1>1 DEF IndexTypeOK
<1> QED  BY <1>2, <1>3, <1>4, <1>5, AgentWorks

\* A failed call, an update and a deletion of records.
LEMMA CallsKeep ==
    ASSUME IndexInv, NEW w \in Agent, CallFails(w) \/ ApplyUpdate(w) \/ ApplyDelete(w)
    PROVE  IndexInv' /\ Carried
<1>1. agent[w] \in AgentRec /\ IndexTypeOK /\ \A s : {r \in provider : r.ext \notin s} \subseteq ExtRec
  BY AgentKnown DEF IndexTypeOK
<1>2. CASE CallFails(w)
  <2>1. /\ agent[w].pc \in {"scan", "apply"} /\ Goto(w, "fail") /\ UNCHANGED lifeVars
        /\ UNCHANGED <<governor, scope, issued>> /\ provider' \subseteq ExtRec
    BY <1>1, <1>2 DEF CallFails, IndexTypeOK
  <2> QED  BY <2>1, AgentGoes
<1>3. CASE ApplyUpdate(w)
  <2>1. /\ agent[w].pc = "apply" /\ UNCHANGED lifeVars /\ UNCHANGED <<governor, scope, issued>>
        /\ \/ /\ agent[w].ext \in Ids(provider) /\ provider' = Keep(w)
              /\ Goto(w, "state") \/ Goto(w, "fail")
           \/ provider' = provider /\ Goto(w, "fail")
    BY <1>3 DEF ApplyUpdate, At
  <2>2. agent[w].ext \in Ids(provider) => agent[w].ext \in External
    BY <1>1 DEF Ids, IndexTypeOK, ExtRec
  <2>3. agent[w].ext \in External => Keep(w) \subseteq ExtRec
    <3>1. agent[w].m \in Memory \cup {NoRev} /\ agent[w].item.rev \in Rev
      BY <1>1 DEF AgentRec, ItemRec
    <3> QED  BY <1>1, <3>1 DEF Keep, ExtRec
  <2>4. provider' \subseteq ExtRec
    BY <1>1, <2>1, <2>2, <2>3 DEF IndexTypeOK
  <2>5. CASE Goto(w, "fail")
    BY <2>1, <2>4, <2>5, AgentGoes
  <2>6. CASE Goto(w, "state") /\ agent[w].ext \in Ids(provider)
    BY <2>1, <2>2, <2>4, <2>6, AgentGoes
  <2> QED  BY <2>1, <2>5, <2>6
<1>4. CASE ApplyDelete(w)
  <2>1. /\ agent[w].pc = "apply" /\ agent[w].kind = "delete" /\ UNCHANGED lifeVars
        /\ UNCHANGED <<governor, scope, issued>> /\ provider' \subseteq ExtRec
        /\ Goto(w, "complete") \/ Goto(w, "fail")
    BY <1>1, <1>4 DEF ApplyDelete, At
  <2>2. CASE Goto(w, "complete")
    BY <2>1, <2>2, AgentGoes
  <2>3. CASE Goto(w, "fail")
    BY <2>1, <2>3, AgentGoes
  <2> QED  BY <2>1, <2>2, <2>3
<1> QED  BY <1>2, <1>3, <1>4

\* A record is added; the answer may be lost.
LEMMA ApplyAddKeeps ==
    ASSUME IndexInv, NEW w \in Agent, ApplyAdd(w)
    PROVE  IndexInv' /\ Carried
<1> DEFINE rec == [ext |-> issued + 1, m |-> agent[w].m, rev |-> agent[w].item.rev]
           b == [agent[w] EXCEPT !.pc = "state", !.ext = issued + 1]
<1>1. /\ agent[w].pc = "apply" /\ issued < MaxExternal /\ issued' = issued + 1
      /\ provider' = provider \cup {rec} /\ UNCHANGED lifeVars /\ UNCHANGED <<governor, scope>>
      /\ agent' = [agent EXCEPT ![w] = b] \/ Goto(w, "fail")
  BY DEF ApplyAdd, At, Set
<1>2. /\ agent[w] \in AgentRec /\ IndexTypeOK
      /\ w \in Worker => WorkerOK(agent[w]) /\ w \notin Repairer
      /\ w \in Repairer => RepairerOK(agent[w]) /\ w \notin Worker
  BY AgentKnown
<1>3. issued + 1 \in External /\ issued + 1 \in Nat
  BY <1>1, <1>2, MemoryAssumption DEF External, IndexTypeOK
<1>4. rec \in ExtRec
  BY <1>2, <1>3 DEF AgentRec, ItemRec, ExtRec
<1>5. provider' \subseteq ExtRec /\ issued' \in Nat /\ scope' \in [Repairer -> ScopeRec]
  BY <1>1, <1>2, <1>3, <1>4 DEF IndexTypeOK
<1>6. CASE agent' = [agent EXCEPT ![w] = b]
  <2>1. /\ b \in AgentRec /\ b.op = agent[w].op /\ b.m = agent[w].m /\ b.kind = agent[w].kind
        /\ b.pc = "state" /\ b.ext \in External
    BY <1>2, <1>3 DEF AgentRec
  <2> HIDE DEF b
  <2>2. /\ w \in Worker => WorkerOK(b)
        /\ w \in Repairer => RepairerOK(b)
    BY <1>1, <1>2, <2>1 DEF WorkerOK, RepairerOK
  <2> QED  BY <1>1, <1>5, <1>6, <2>1, <2>2, AgentWorks
<1>7. CASE Goto(w, "fail")
  <2> DEFINE c == [agent[w] EXCEPT !.pc = "fail"]
  <2>1. /\ c \in AgentRec /\ c.op = agent[w].op /\ c.m = agent[w].m /\ c.kind = agent[w].kind
        /\ c.pc = "fail"
    BY <1>2 DEF AgentRec
  <2>2. agent' = [agent EXCEPT ![w] = c]
    BY <1>7 DEF Goto
  <2> HIDE DEF c
  <2>3. /\ w \in Worker => WorkerOK(c)
        /\ w \in Repairer => RepairerOK(c)
    BY <1>1, <1>2, <2>1 DEF WorkerOK, RepairerOK
  <2> QED  BY <1>1, <1>5, <2>1, <2>2, <2>3, AgentWorks
<1> QED  BY <1>1, <1>6, <1>7

\* An agent is idle when it has nothing to do.
LEMMA IdleKnown ==
    /\ Idle \in AgentRec /\ Idle.pc = "idle" /\ Idle.kind = "none" /\ Idle.m = NoRev
    /\ \A pc \in {"items", "over"} :
         /\ [Idle EXCEPT !.pc = pc] \in AgentRec
         /\ [Idle EXCEPT !.pc = pc].pc = pc /\ [Idle EXCEPT !.pc = pc].kind = "none"
<1>1. Idle \in AgentRec
  BY DEF Idle, AgentRec, ItemRec, NoItem, Rev
<1> QED  BY <1>1 DEF Idle, AgentRec

\* A worker leaves its operation; the rows may have changed.
LEMMA WorkerRests ==
    ASSUME IndexInv, LifeInv', Carried, NEW w \in Worker, Set(w, Idle),
           UNCHANGED <<provider, issued, scope, governor>>
    PROVE  IndexInv'
<1>1. PICK a \in AgentRec : a = Idle
  BY IdleKnown
<1>2. a.pc = "idle" /\ agent' = [agent EXCEPT ![w] = a]
  BY <1>1, IdleKnown DEF Set
<1>3. WorkerOK(a)'
  BY <1>2 DEF WorkerOK
<1>4. /\ w \in Agent /\ w \notin Repairer
      /\ provider' \subseteq ExtRec /\ issued' \in Nat /\ scope' \in [Repairer -> ScopeRec]
  BY IndexingAssumption DEF IndexInv, IndexTypeOK, Agent
<1> QED  BY <1>2, <1>3, <1>4, AgentMoves

\* A worker is lost, or its process ends.
LEMMA LostKeeps ==
    ASSUME IndexInv, NEW w \in Agent, Lost(w)
    PROVE  IndexInv' /\ Carried
<1>1. w \in Worker /\ Set(w, Idle) /\ UNCHANGED lifeVars /\ UNCHANGED <<provider, issued, scope, governor>>
  BY DEF Lost
<1>2. LifeInv' /\ Carried
  BY <1>1, RowsStay DEF lifeVars, IndexInv
<1> QED  BY <1>1, <1>2, WorkerRests

\* A worker marks the item, and completes only if the item is the one it read.
LEMMA SetReadyKeeps ==
    ASSUME IndexInv, NEW w \in Agent, SetReady(w)
    PROVE  IndexInv' /\ Carried
<1> DEFINE m == agent[w].m
           same == Is(m, "active") /\ item[m].rev = agent[w].item.rev
           b == [agent[w] EXCEPT !.pc = IF same THEN "complete" ELSE "fail"]
<1>1. /\ w \in Worker /\ agent[w].pc = "state"
      /\ item' = IndexState(m, agent[w].item.rev, "ready", agent[w].ext)
      /\ agent' = [agent EXCEPT ![w] = b]
      /\ UNCHANGED <<revs, events, ops, intent, asked, provider, issued, scope, governor>>
  BY DEF SetReady, At, Goto
<1>2. /\ agent[w] \in AgentRec /\ WorkerOK(agent[w]) /\ w \notin Repairer
      /\ LifeInv /\ LifeTypeOK /\ IndexTypeOK
  BY <1>1, AgentKnown
<1>3. agent[w].ext \in Nat
  BY <1>2 DEF AgentRec
<1>4. LifeInv' /\ Carried
  BY <1>1, <1>2, <1>3, IndexStateMarks
<1>5. /\ agent[w].op \in OpId /\ ops[agent[w].op].status # "none"
      /\ m = ops[agent[w].op].m /\ agent[w].kind = Kind(agent[w].op)
  BY <1>1, <1>2 DEF WorkerOK
<1>6. m \in Memory
  BY <1>2, <1>5 DEF LifeInv, OpsNamed
<1>7. /\ b \in AgentRec /\ b.op = agent[w].op /\ b.pc \in {"complete", "fail"}
      /\ b.pc = "complete" => same
  BY <1>2 DEF AgentRec
<1> HIDE DEF b
<1>8. same => item'[m].index = "ready"
  <2>1. item[m] \in ItemRec
    BY <1>2, <1>6 DEF LifeTypeOK
  <2>2. ASSUME same
        PROVE  item' = [item EXCEPT ![m].index = "ready",
                                    ![m].ext = IF agent[w].ext = 0 THEN @ ELSE agent[w].ext]
    BY <1>1, <2>2 DEF IndexState
  <2> QED  BY <1>2, <1>6, <2>1, <2>2 DEF LifeTypeOK, ItemRec
<1>9. PICK a \in AgentRec : a = b
  BY <1>7
<1>10. WorkerOK(a)'
  <2>1. /\ a.pc \in {"complete", "fail"} /\ a.op \in OpId /\ ops'[a.op].status # "none"
        /\ ops'[a.op].m = m
    BY <1>1, <1>5, <1>7, <1>9
  <2>2. ASSUME a.pc = "complete" PROVE Served(a.op)'
    <3>1. item'[ops'[a.op].m].index = "ready"
      BY <1>7, <1>8, <1>9, <2>1, <2>2
    <3> QED  BY <3>1 DEF Served
  <2> QED  BY <2>1, <2>2 DEF WorkerOK
<1>11. /\ governor' = governor
       /\ provider' \subseteq ExtRec /\ issued' \in Nat /\ scope' \in [Repairer -> ScopeRec]
  BY <1>1, <1>2 DEF IndexTypeOK
<1> QED  BY <1>1, <1>2, <1>4, <1>7, <1>9, <1>10, <1>11, AgentMoves

\* A worker completes its operation.
LEMMA CompleteKeeps ==
    ASSUME IndexInv, NEW w \in Agent, Complete(w)
    PROVE  IndexInv' /\ Carried
<1> DEFINE o == agent[w].op
           done == [ops[o] EXCEPT !.status = "completed", !.lease = "none"]
           x == [done EXCEPT !.ext = IF agent[w].ext = 0 THEN done.ext ELSE agent[w].ext]
           b == IF agent[w].kind = "delete" /\ o[1] = "delete"
                THEN [Idle EXCEPT !.pc = "close", !.op = o] ELSE Idle
<1>1. /\ agent[w].pc = "complete"
      /\ agent' = [agent EXCEPT ![w] = b]
      /\ UNCHANGED <<item, revs, events, intent, asked, provider, issued, scope, governor>>
  BY DEF Complete, At, Set
<1>2. /\ agent[w] \in AgentRec /\ w \in Worker /\ WorkerOK(agent[w]) /\ w \notin Repairer
      /\ LifeInv /\ LifeTypeOK /\ IndexTypeOK
  BY <1>1, AgentKnown DEF RepairerOK, Agent
<1>3. o \in OpId /\ ops[o].status # "none" /\ (Kind(o) = "delete" \/ Served(o))
  BY <1>1, <1>2 DEF WorkerOK
<1>4. ops[o] \in OpRec /\ ops \in [OpId -> OpRec]
  BY <1>2, <1>3 DEF LifeTypeOK
<1>5. done \in OpRec /\ done.m = ops[o].m /\ done.rev = ops[o].rev /\ done.status = "completed"
  BY <1>4 DEF OpRec
<1>6. ops' = [ops EXCEPT ![o] = x]
  <2>1. ops' = [[ops EXCEPT ![o] = done] EXCEPT ![o].ext =
                  IF agent[w].ext = 0 THEN [ops EXCEPT ![o] = done][o].ext ELSE agent[w].ext]
    BY DEF Complete, Finish
  <2>2. [ops EXCEPT ![o] = done][o] = done
    BY <1>3, <1>4
  <2> HIDE DEF done
  <2> QED  BY <1>3, <1>4, <2>1, <2>2
<1>7. agent[w].ext \in Nat
  BY <1>2 DEF AgentRec
<1> HIDE DEF done
<1>8. x \in OpRec /\ x.m = ops[o].m /\ x.rev = ops[o].rev /\ x.status = "completed"
  BY <1>5, <1>7 DEF OpRec
<1>9. b \in AgentRec /\ b.pc \in {"idle", "close"} /\ (b.pc = "close" => b.op = o)
  <2>1. Idle \in AgentRec /\ Idle.pc = "idle"
    BY IdleKnown
  <2> QED  BY <1>3, <2>1 DEF AgentRec
<1>10. o = agent[w].op
  OBVIOUS
<1> HIDE DEF o, x, b
<1>11. /\ ops' \in [OpId -> OpRec]
       /\ \A p \in OpId : /\ ops'[p].m = ops[p].m /\ ops'[p].rev = ops[p].rev
                          /\ ops'[p].status = "none" <=> ops[p].status = "none"
                          /\ ops'[p].status = "completed" =>
                               ops[p].status = "completed" \/ Kind(p) = "delete" \/ Served(p)
  <2>1. /\ ops' \in [OpId -> OpRec] /\ ops'[o] = x
        /\ \A p \in OpId : p # o => ops'[p] = ops[p]
    BY <1>3, <1>4, <1>6, <1>8
  <2>2. ASSUME NEW p \in OpId, p # o
        PROVE  ops'[p] = ops[p]
    BY <2>1, <2>2
  <2> QED  BY <1>3, <1>8, <2>1, <2>2
<1>12. LifeInv' /\ Carried
  BY <1>1, <1>2, <1>11, OperationsMove
<1>13. PICK a \in AgentRec : a = b
  BY <1>9
<1>14. WorkerOK(a)'
  <2>1. a.pc # "idle" => a.pc = "close" /\ a.op \in OpId /\ ops'[a.op].status # "none"
    BY <1>3, <1>9, <1>11, <1>13
  <2> QED  BY <2>1 DEF WorkerOK
<1>15. /\ governor' = governor
       /\ provider' \subseteq ExtRec /\ issued' \in Nat /\ scope' \in [Repairer -> ScopeRec]
  BY <1>1, <1>2 DEF IndexTypeOK
<1> QED  BY <1>1, <1>2, <1>9, <1>12, <1>13, <1>14, <1>15, AgentMoves

\* The second transaction of a deletion.
LEMMA CloseKeeps ==
    ASSUME IndexInv, NEW w \in Agent, Close(w)
    PROVE  IndexInv' /\ Carried
<1> DEFINE o == agent[w].op
<1>1. /\ agent[w].pc = "close" /\ Set(w, Idle)
      /\ IF MayCloseDelete(o) THEN CloseDelete(o) ELSE UNCHANGED <<item, revs, events>>
      /\ UNCHANGED <<ops, intent, asked, provider, issued, scope, governor>>
  BY DEF Close, At
<1>2. w \in Worker /\ WorkerOK(agent[w]) /\ LifeInv /\ LifeTypeOK
  BY <1>1, AgentKnown DEF RepairerOK, Agent
<1>3. o \in OpId
  BY <1>1, <1>2 DEF WorkerOK
<1> HIDE DEF o
<1>4. LifeInv' /\ Carried
  <2>1. CASE MayCloseDelete(o)
    <3>1. ops' \in [OpId -> OpRec] /\ CloseDelete(o)
      BY <1>1, <1>2, <2>1 DEF LifeTypeOK
    <3> QED  BY <1>1, <1>2, <1>3, <2>1, <3>1, CloseDeleteKeeps
  <2>2. CASE ~MayCloseDelete(o)
    BY <1>1, <1>2, <2>2, RowsStay
  <2> QED  BY <2>1, <2>2
<1> QED  BY <1>1, <1>2, <1>4, WorkerRests

\* A worker reports a failure: another attempt, or a dead letter.
LEMMA FailKeeps ==
    ASSUME IndexInv, NEW w \in Agent, Fail(w)
    PROVE  IndexInv' /\ Carried
<1> DEFINE o == agent[w].op
           dead == ops[o].attempts >= MaxAttempts
           x == [ops[o] EXCEPT !.status = IF dead THEN "dead_letter" ELSE "retry", !.lease = "none"]
           b == IF agent[w].item.status = "none" THEN Idle
                ELSE [agent[w] EXCEPT !.pc = IF dead THEN "dead" ELSE "retry"]
<1>1. /\ w \in Worker /\ agent[w].pc = "fail"
      /\ ops' = [ops EXCEPT ![o] = x]
      /\ agent' = [agent EXCEPT ![w] = b]
      /\ UNCHANGED <<item, revs, events, intent, asked, provider, issued, scope, governor>>
  BY DEF Fail, At, Set, Finish
<1>2. /\ agent[w] \in AgentRec /\ WorkerOK(agent[w]) /\ w \notin Repairer
      /\ LifeInv /\ LifeTypeOK /\ IndexTypeOK
  BY <1>1, AgentKnown
<1>3. o \in OpId /\ ops[o].status # "none"
  BY <1>1, <1>2 DEF WorkerOK
<1>4. ops[o] \in OpRec /\ ops \in [OpId -> OpRec]
  BY <1>2, <1>3 DEF LifeTypeOK
<1>5. x \in OpRec /\ x.m = ops[o].m /\ x.rev = ops[o].rev /\ x.status \in {"dead_letter", "retry"}
  BY <1>4 DEF OpRec
<1>6. b \in AgentRec /\ b.pc \in {"idle", "dead", "retry"} /\ (b.pc # "idle" => b.op = o)
  BY <1>2, IdleKnown DEF AgentRec
<1> HIDE DEF o, dead, x, b
<1>7. /\ ops' \in [OpId -> OpRec] /\ ops'[o] = x
      /\ \A p \in OpId : p # o => ops'[p] = ops[p]
  BY <1>1, <1>3, <1>4, <1>5
<1>8. \A p \in OpId : /\ ops'[p].m = ops[p].m /\ ops'[p].rev = ops[p].rev
                      /\ ops'[p].status = "none" <=> ops[p].status = "none"
                      /\ ops'[p].status = "completed" => ops[p].status = "completed"
  <2>1. ASSUME NEW p \in OpId, p # o
        PROVE  ops'[p] = ops[p]
    BY <1>7, <2>1
  <2> QED  BY <1>3, <1>5, <1>7, <2>1
<1>9. LifeInv' /\ Carried
  BY <1>1, <1>2, <1>7, <1>8, OperationsMove
<1>10. PICK a \in AgentRec : a = b
  BY <1>6
<1>11. WorkerOK(a)'
  <2>1. a.pc \in {"idle", "dead", "retry"} /\ (a.pc # "idle" => a.op \in OpId /\ ops'[a.op].status # "none")
    BY <1>3, <1>6, <1>8, <1>10
  <2> QED  BY <2>1 DEF WorkerOK
<1>12. /\ w \in Agent /\ governor' = governor
       /\ provider' \subseteq ExtRec /\ issued' \in Nat /\ scope' \in [Repairer -> ScopeRec]
  BY <1>1, <1>2 DEF IndexTypeOK
<1> QED  BY <1>1, <1>2, <1>6, <1>9, <1>10, <1>11, <1>12, AgentMoves

\* The item shows a failed deletion, if it is still pending.
LEMMA DeleteFailedKeeps ==
    ASSUME LifeInv, NEW o \in OpId, ops[o].status # "none", NEW dead \in BOOLEAN, DeleteFailed(o, dead),
           UNCHANGED <<revs, events, ops, intent, asked>>
    PROVE  LifeInv' /\ Carried
<1> DEFINE m == ops[o].m
           x == [item[m] EXCEPT !.index = IF dead THEN "dead_letter" ELSE "deletion_pending",
                                !.content = item[m].content /\ ~dead]
<1>1. CASE item' = item
  BY <1>1, RowsStay
<1>2. CASE item' # item
  <2>1. m \in Memory
    BY DEF LifeInv, OpsNamed
  <2>2. item[m] \in ItemRec /\ item \in [Memory -> ItemRec]
    BY <2>1 DEF LifeInv, LifeTypeOK
  <2>3. /\ Is(m, "deletion_pending")
        /\ item' = [item EXCEPT ![m].index = IF dead THEN "dead_letter" ELSE "deletion_pending",
                                ![m].content = @ /\ ~dead]
    BY <1>2 DEF DeleteFailed, PendingFor
  <2>4. (item[m].content /\ ~dead) \in BOOLEAN
    OBVIOUS
  <2>5. /\ x \in ItemRec /\ x.status = item[m].status /\ x.rev = item[m].rev
        /\ x.expired = item[m].expired /\ x.index # "pending"
    BY <2>2, <2>4 DEF ItemRec
  <2>6. item' = [item EXCEPT ![m] = x]
    BY <2>1, <2>2, <2>3
  <2> HIDE DEF m, x
  <2>7. /\ item' \in [Memory -> ItemRec]
        /\ \A n \in Memory : /\ item'[n].status = item[n].status /\ item'[n].rev = item[n].rev
                             /\ item[n].expired => item'[n].expired
                             /\ item'[n].index = "pending" => item[n].index = "pending"
                             /\ Is(n, "none") => item'[n] = item[n]
    BY <2>1, <2>2, <2>3, <2>5, <2>6 DEF Is
  <2> QED  BY <2>7, ItemsMarked
<1> QED  BY <1>1, <1>2

\* A worker shows the failure in the row.
LEMMA ShowFailureKeeps ==
    ASSUME IndexInv, NEW w \in Agent, ShowFailure(w)
    PROVE  IndexInv' /\ Carried
<1> DEFINE dead == At(w, "dead")
<1>1. /\ agent[w].pc \in {"dead", "retry"} /\ Set(w, Idle) /\ dead \in BOOLEAN
      /\ UNCHANGED <<revs, events, ops, intent, asked, provider, issued, scope, governor>>
      /\ \/ DeleteFailed(agent[w].op, dead)
         \/ item' = IndexState(agent[w].m, agent[w].item.rev,
                               IF dead THEN "dead_letter" ELSE "out_of_sync", 0)
         \/ item' = item
  BY DEF ShowFailure, At
<1>2. w \in Worker /\ WorkerOK(agent[w]) /\ LifeInv
  BY <1>1, AgentKnown DEF RepairerOK, Agent
<1>3. agent[w].op \in OpId /\ ops[agent[w].op].status # "none"
  BY <1>1, <1>2 DEF WorkerOK
<1> HIDE DEF dead
<1>4. CASE DeleteFailed(agent[w].op, dead)
  <2>1. LifeInv' /\ Carried
    BY <1>1, <1>2, <1>3, <1>4, DeleteFailedKeeps
  <2> QED  BY <1>1, <1>2, <2>1, WorkerRests
<1>5. CASE item' = IndexState(agent[w].m, agent[w].item.rev,
                              IF dead THEN "dead_letter" ELSE "out_of_sync", 0)
  <2>1. (IF dead THEN "dead_letter" ELSE "out_of_sync") \in {"ready", "dead_letter", "out_of_sync"} /\ 0 \in Nat
    OBVIOUS
  <2>2. LifeInv' /\ Carried
    BY <1>1, <1>2, <1>5, <2>1, IndexStateMarks
  <2> QED  BY <1>1, <1>2, <2>2, WorkerRests
<1>6. CASE item' = item
  <2>1. LifeInv' /\ Carried
    BY <1>1, <1>2, <1>6, RowsStay
  <2> QED  BY <1>1, <1>2, <2>1, WorkerRests
<1> QED  BY <1>1, <1>4, <1>5, <1>6

\* Whatever a worker does keeps the invariant.
LEMMA WorkersKeep ==
    ASSUME IndexInv, NEW w \in Agent, WorkerStep(w) \/ CallFails(w) \/ Lost(w)
    PROVE  IndexInv' /\ Carried
BY ClaimKeeps, ClaimNothingKeeps, ReadItemKeeps, ScanKeeps, ApplyAddKeeps, CallsKeep, SetReadyKeeps,
   CompleteKeeps, CloseKeeps, FailKeeps, ShowFailureKeeps, LostKeeps
DEF WorkerStep

-----------------------------------------------------------------------------
(* Repairs.                                                                *)

\* A repair moves on; the rows may have changed.
LEMMA RepairMoves ==
    ASSUME IndexInv, LifeInv', Carried, NEW r \in Repairer, NEW a \in AgentRec, RepairerOK(a),
           agent' = [agent EXCEPT ![r] = a], UNCHANGED <<issued, governor>>,
           provider' \subseteq ExtRec, scope' \in [Repairer -> ScopeRec]
    PROVE  IndexInv'
<1>1. r \in Agent /\ r \notin Worker /\ issued' \in Nat
  BY IndexingAssumption DEF IndexInv, IndexTypeOK, Agent
<1> QED  BY <1>1, AgentMoves

\* What is known of a repair by its invariant.
LEMMA RepairKnown ==
    ASSUME IndexInv, NEW r \in Repairer
    PROVE  /\ agent[r] \in AgentRec /\ RepairerOK(agent[r]) /\ LifeInv /\ LifeTypeOK /\ IndexTypeOK
           /\ scope[r] \in ScopeRec /\ provider \subseteq ExtRec /\ NoScope \in ScopeRec
           /\ ListItems(r) \in ScopeRec
<1>1. /\ agent[r] \in AgentRec /\ RepairerOK(agent[r]) /\ LifeInv /\ LifeTypeOK /\ IndexTypeOK
      /\ scope[r] \in ScopeRec /\ provider \subseteq ExtRec
  BY AgentKnown DEF Agent, IndexTypeOK
<1>2. NoScope \in ScopeRec
  BY DEF NoScope, ScopeRec
<1>3. {[m |-> m, rev |-> item[m].rev] : m \in {x \in Memory : Indexable(x)}}
        \in SUBSET [m : Memory, rev : Rev]
  BY <1>1 DEF LifeTypeOK, ItemRec
<1>4. ListItems(r) \in ScopeRec
  BY <1>1, <1>3 DEF ListItems, ScopeRec
<1> QED  BY <1>1, <1>2, <1>4

\* A repair goes to a place where it has no memory at hand.
LEMMA RepairGoes ==
    ASSUME IndexInv, NEW r \in Repairer, NEW pc \in {"list", "items", "rebuild", "over"}, Goto(r, pc),
           NEW s \in ScopeRec, scope' = [scope EXCEPT ![r] = s],
           UNCHANGED <<lifeVars, issued, governor>>, provider' \subseteq ExtRec
    PROVE  IndexInv' /\ Carried
<1> DEFINE b == [agent[r] EXCEPT !.pc = pc]
<1>1. agent[r] \in AgentRec /\ RepairerOK(agent[r]) /\ LifeInv /\ IndexTypeOK
  BY RepairKnown
<1>2. /\ b \in AgentRec /\ RepairerOK(b) /\ agent' = [agent EXCEPT ![r] = b]
  <2>1. b \in AgentRec /\ b.pc = pc /\ b.kind = agent[r].kind
    BY <1>1 DEF AgentRec
  <2>2. RepairerOK(b)
    BY <1>1, <2>1 DEF RepairerOK
  <2> QED  BY <2>1, <2>2 DEF Goto
<1> HIDE DEF b
<1>3. LifeInv' /\ Carried
  BY <1>1, RowsStay DEF lifeVars
<1>4. scope' \in [Repairer -> ScopeRec]
  BY <1>1 DEF IndexTypeOK
<1> QED  BY <1>2, <1>3, <1>4, RepairMoves

\* Canonical rows and external records are listed; a rebuild clears the index.
LEMMA ListingKeeps ==
    ASSUME IndexInv, NEW r \in Repairer, RepairCanonical(r) \/ RepairRecords(r) \/ RepairRebuild(r)
    PROVE  IndexInv' /\ Carried
<1>1. /\ scope[r] \in ScopeRec /\ provider \subseteq ExtRec /\ NoScope \in ScopeRec
      /\ ListItems(r) \in ScopeRec
  BY RepairKnown
<1>2. [scope[r] EXCEPT !.records = provider] \in ScopeRec /\ [ListItems(r) EXCEPT !.records = {}] \in ScopeRec
  BY <1>1 DEF ScopeRec
<1>3. CASE RepairCanonical(r)
  BY <1>1, <1>3, RepairGoes DEF RepairCanonical
<1>4. CASE RepairRecords(r)
  <2>1. /\ UNCHANGED <<lifeVars, provider, issued, governor>>
        /\ \/ /\ scope' = [scope EXCEPT ![r] = [scope[r] EXCEPT !.records = provider]]
              /\ Goto(r, "items") \/ Goto(r, "rebuild")
           \/ scope' = [scope EXCEPT ![r] = NoScope] /\ Goto(r, "over")
    BY <1>4 DEF RepairRecords
  <2> QED  BY <1>1, <1>2, <2>1, RepairGoes
<1>5. CASE RepairRebuild(r)
  <2>1. /\ UNCHANGED <<lifeVars, issued, governor>> /\ provider' \subseteq ExtRec
        /\ \/ scope' = [scope EXCEPT ![r] = [ListItems(r) EXCEPT !.records = {}]] /\ Goto(r, "items")
           \/ scope' = [scope EXCEPT ![r] = NoScope] /\ Goto(r, "over")
    BY <1>1, <1>5 DEF RepairRebuild
  <2> QED  BY <1>1, <1>2, <2>1, RepairGoes
<1> QED  BY <1>3, <1>4, <1>5

\* One item is read again, and its records are put in order.
LEMMA RepairItemKeeps ==
    ASSUME IndexInv, NEW r \in Repairer, NEW c \in [m : Memory, rev : Revision], RepairItem(r, c)
    PROVE  IndexInv' /\ Carried
<1> DEFINE mine == {x \in scope[r].records : x.m = c.m}
           keep == Keeper(mine, item[c.m]).ext
           s == [scope[r] EXCEPT !.canon = scope[r].canon \ {c}]
           b == [Idle EXCEPT !.m = c.m, !.item = item[c.m],
                             !.kind = IF mine = {} THEN "add" ELSE "update",
                             !.ext = IF mine = {} THEN 0 ELSE keep,
                             !.pc = IF mine = {} THEN "scan" ELSE "apply"]
<1>1. /\ UNCHANGED <<lifeVars, issued, governor>>
      /\ scope' = [scope EXCEPT ![r] = s]
      /\ \/ UNCHANGED <<agent, provider>>
         \/ /\ provider' = IF mine = {} THEN provider
                           ELSE {x \in provider : x.ext \notin Ids(mine) \ {keep}}
            /\ agent' = [agent EXCEPT ![r] = b]
  BY DEF RepairItem, Set
<1>2. /\ scope[r] \in ScopeRec /\ provider \subseteq ExtRec /\ LifeInv /\ LifeTypeOK /\ IndexTypeOK
  BY RepairKnown
<1>3. s \in ScopeRec
  BY <1>2 DEF ScopeRec
<1>4. mine \in SUBSET ExtRec
  BY <1>2 DEF ScopeRec
<1>5. mine # {} => keep \in External
  <2>1. mine # {} => Keeper(mine, item[c.m]) \in ExtRec
    BY <1>4, KeeperFound
  <2> QED  BY <2>1 DEF ExtRec
<1>6. provider' \subseteq ExtRec
  BY <1>1, <1>2
<1>7. c.m \in Memory /\ item[c.m] \in ItemRec
  BY <1>2 DEF LifeTypeOK
<1> HIDE DEF mine, keep, s
<1>8. b \in AgentRec /\ b.kind \in {"add", "update"} /\ b.m = c.m /\ b.pc \in {"scan", "apply"}
  <2>1. External \subseteq Nat
    BY DEF External
  <2> QED  BY <1>5, <1>7, <2>1, IdleKnown DEF AgentRec
<1> HIDE DEF b
<1>9. RepairerOK(b)
  BY <1>7, <1>8 DEF RepairerOK
<1>10. scope' \in [Repairer -> ScopeRec]
  BY <1>1, <1>2, <1>3 DEF IndexTypeOK
<1>11. LifeInv' /\ Carried
  BY <1>1, <1>2, RowsStay DEF lifeVars
<1>12. CASE agent' = [agent EXCEPT ![r] = b]
  BY <1>1, <1>6, <1>8, <1>9, <1>10, <1>11, <1>12, RepairMoves
<1>13. CASE agent' = agent
  BY <1>1, <1>2, <1>6, <1>10, <1>11, <1>13, OthersStay DEF IndexTypeOK
<1> QED  BY <1>1, <1>12, <1>13

\* A repair of one item failed, or the item became searchable.
LEMMA RepairMarksKeep ==
    ASSUME IndexInv, NEW r \in Repairer, RepairFailed(r) \/ RepairReady(r)
    PROVE  IndexInv' /\ Carried
<1> DEFINE m == agent[r].m
           idle == [Idle EXCEPT !.pc = "items"]
<1>1. /\ agent[r] \in AgentRec /\ RepairerOK(agent[r]) /\ LifeInv /\ LifeTypeOK /\ IndexTypeOK
      /\ scope[r] \in ScopeRec
  BY RepairKnown
<1>2. idle \in AgentRec /\ RepairerOK(idle)
  BY IdleKnown DEF RepairerOK
<1>3. CASE RepairFailed(r)
  <2>1. /\ item' = IndexState(m, agent[r].item.rev, "out_of_sync", 0)
        /\ agent' = [agent EXCEPT ![r] = idle]
        /\ UNCHANGED <<revs, events, ops, intent, asked, provider, issued, scope, governor>>
    BY <1>3 DEF RepairFailed, Set
  <2>2. LifeInv' /\ Carried
    BY <1>1, <2>1, IndexStateMarks
  <2> QED  BY <1>1, <1>2, <2>1, <2>2, RepairMoves DEF IndexTypeOK
<1>4. CASE RepairReady(r)
  <2> DEFINE same == Is(m, "active") /\ item[m].rev = agent[r].item.rev
             s == [scope[r] EXCEPT !.retained = IF same THEN scope[r].retained \cup {agent[r].ext}
                                                ELSE scope[r].retained]
             b == [agent[r] EXCEPT !.pc = "compensate"]
  <2>1. /\ agent[r].pc = "state"
        /\ item' = IndexState(m, agent[r].item.rev, "ready", agent[r].ext)
        /\ scope' = [scope EXCEPT ![r] = s]
        /\ agent' = [agent EXCEPT ![r] = idle] \/ agent' = [agent EXCEPT ![r] = b]
        /\ UNCHANGED <<revs, events, ops, intent, asked, provider, issued, governor>>
    BY <1>4 DEF RepairReady, Set, Goto, At
  <2>2. agent[r].ext \in Nat
    BY <1>1 DEF AgentRec
  <2>3. LifeInv' /\ Carried
    BY <1>1, <2>1, <2>2, IndexStateMarks
  <2>4. s \in ScopeRec
    BY <1>1, <2>2 DEF ScopeRec
  <2>5. b \in AgentRec /\ RepairerOK(b)
    <3>1. b \in AgentRec /\ b.pc = "compensate" /\ b.m = m /\ b.ext = agent[r].ext /\ b.kind = agent[r].kind
      BY <1>1 DEF AgentRec
    <3> QED  BY <1>1, <2>1, <3>1 DEF RepairerOK
  <2> HIDE DEF same, s, b, idle
  <2>6. provider' \subseteq ExtRec /\ scope' \in [Repairer -> ScopeRec]
    BY <1>1, <2>1, <2>4 DEF IndexTypeOK
  <2>7. CASE agent' = [agent EXCEPT ![r] = idle]
    BY <1>2, <2>1, <2>3, <2>6, <2>7, RepairMoves
  <2>8. CASE agent' = [agent EXCEPT ![r] = b]
    BY <2>1, <2>3, <2>5, <2>6, <2>8, RepairMoves
  <2> QED  BY <2>1, <2>7, <2>8
<1> QED  BY <1>3, <1>4

\* What a repair wrote for a row it has lost is taken back.
LEMMA CompensationKept ==
    ASSUME IndexInv, NEW r \in Repairer, CompensationStored(r) \/ CompensationDone(r)
    PROVE  IndexInv' /\ Carried
<1> DEFINE m == agent[r].m
           ext == agent[r].ext
<1>1. /\ agent[r] \in AgentRec /\ RepairerOK(agent[r]) /\ LifeInv /\ LifeTypeOK /\ IndexTypeOK
      /\ provider \subseteq ExtRec
  BY RepairKnown
<1>2. CASE CompensationStored(r)
  <2> DEFINE o == <<"compensate", m, ext>>
             b == [agent[r] EXCEPT !.pc = "undo"]
  <2>1. /\ agent[r].pc = "compensate"
        /\ IF ops[o].status = "none" THEN Enqueue(o, m, agent[r].item.rev, ext) ELSE ops' = ops
        /\ agent' = [agent EXCEPT ![r] = b]
        /\ UNCHANGED <<item, revs, events, intent, asked, provider, issued, scope, governor>>
    BY <1>2 DEF CompensationStored, At, Goto
  <2>2. m \in Memory /\ ext \in External /\ ext \in Nat
    BY <1>1, <2>1 DEF RepairerOK, External
  <2>3. agent[r].item.rev \in Rev
    BY <1>1 DEF AgentRec, ItemRec
  <2>4. o \in OpId /\ Kind(o) = "delete" /\ o[1] # "delete"
    BY <2>2, OperationNames DEF OpId
  <2>5. b \in AgentRec /\ RepairerOK(b)
    <3>1. b \in AgentRec /\ b.pc = "undo" /\ b.m = m /\ b.kind = agent[r].kind
      BY <1>1 DEF AgentRec
    <3> QED  BY <1>1, <2>2, <3>1 DEF RepairerOK
  <2> HIDE DEF o, b, m, ext
  <2>6. LifeInv' /\ Carried
    <3>1. CASE ops[o].status = "none"
      BY <1>1, <2>1, <2>2, <2>3, <2>4, <3>1, CompensationKeeps
    <3>2. CASE ops[o].status # "none"
      BY <1>1, <2>1, <3>2, RowsStay
    <3> QED  BY <3>1, <3>2
  <2> QED  BY <1>1, <2>1, <2>5, <2>6, RepairMoves DEF IndexTypeOK
<1>3. CASE CompensationDone(r)
  <2> DEFINE x == [item[m] EXCEPT !.index = "out_of_sync"]
             idle == [Idle EXCEPT !.pc = "items"]
  <2>1. /\ agent[r].pc = "undo" /\ provider' \subseteq provider
        /\ item' = IF Indexable(m) THEN [item EXCEPT ![m] = x] ELSE item
        /\ agent' = [agent EXCEPT ![r] = idle]
        /\ UNCHANGED <<revs, events, ops, intent, asked, issued, scope, governor>>
    BY <1>3 DEF CompensationDone, At, Set
  <2>2. idle \in AgentRec /\ RepairerOK(idle)
    BY IdleKnown DEF RepairerOK
  <2>3. m \in Memory /\ item[m] \in ItemRec /\ item \in [Memory -> ItemRec]
    BY <1>1, <2>1 DEF RepairerOK, LifeTypeOK
  <2>4. /\ x \in ItemRec /\ x.status = item[m].status /\ x.rev = item[m].rev
        /\ x.expired = item[m].expired /\ x.index # "pending"
    BY <2>3 DEF ItemRec
  <2> HIDE DEF x, m, idle
  <2>5. LifeInv' /\ Carried
    <3>1. CASE Indexable(m)
      <4>1. /\ item' \in [Memory -> ItemRec]
            /\ \A n \in Memory : /\ item'[n].status = item[n].status /\ item'[n].rev = item[n].rev
                                 /\ item[n].expired => item'[n].expired
                                 /\ item'[n].index = "pending" => item[n].index = "pending"
                                 /\ Is(n, "none") => item'[n] = item[n]
        BY <2>1, <2>3, <2>4, <3>1 DEF Is, Indexable
      <4> QED  BY <1>1, <2>1, <4>1, ItemsMarked
    <3>2. CASE ~Indexable(m)
      BY <1>1, <2>1, <3>2, RowsStay
    <3> QED  BY <3>1, <3>2
  <2>6. provider' \subseteq ExtRec /\ scope' \in [Repairer -> ScopeRec]
    BY <1>1, <2>1 DEF IndexTypeOK
  <2> QED  BY <2>1, <2>2, <2>5, <2>6, RepairMoves
<1> QED  BY <1>2, <1>3

\* Records of no memory are deleted, and the repair ends.
LEMMA OrphansKeep ==
    ASSUME IndexInv, NEW r \in Repairer, RepairEnds(r) \/ \E x \in scope[r].records : RepairOrphan(r, x)
    PROVE  IndexInv' /\ Carried
<1>1. /\ LifeInv /\ IndexTypeOK /\ scope[r] \in ScopeRec /\ provider \subseteq ExtRec /\ NoScope \in ScopeRec
  BY RepairKnown
<1>2. CASE RepairEnds(r)
  <2> DEFINE over == [Idle EXCEPT !.pc = "over"]
  <2>1. /\ UNCHANGED <<lifeVars, provider, issued, governor>>
        /\ scope' = [scope EXCEPT ![r] = NoScope] /\ agent' = [agent EXCEPT ![r] = over]
    BY <1>2 DEF RepairEnds, Set
  <2>2. over \in AgentRec /\ RepairerOK(over)
    BY IdleKnown DEF RepairerOK
  <2> HIDE DEF over
  <2>3. LifeInv' /\ Carried
    BY <1>1, <2>1, RowsStay DEF lifeVars
  <2>4. provider' \subseteq ExtRec /\ scope' \in [Repairer -> ScopeRec]
    BY <1>1, <2>1 DEF IndexTypeOK
  <2> QED  BY <2>1, <2>2, <2>3, <2>4, RepairMoves
<1>3. ASSUME NEW x \in scope[r].records, RepairOrphan(r, x) PROVE IndexInv' /\ Carried
  <2> DEFINE s == [scope[r] EXCEPT !.records = scope[r].records \ {x}]
  <2>1. /\ UNCHANGED <<lifeVars, issued, agent, governor>> /\ provider' \subseteq provider
        /\ scope' = [scope EXCEPT ![r] = s]
    BY <1>3 DEF RepairOrphan
  <2>2. s \in ScopeRec
    BY <1>1 DEF ScopeRec
  <2> HIDE DEF s
  <2>3. /\ provider' \subseteq ExtRec /\ scope' \in [Repairer -> ScopeRec] /\ issued' \in Nat
    BY <1>1, <2>1, <2>2 DEF IndexTypeOK
  <2>4. LifeInv' /\ Carried
    BY <1>1, <2>1, RowsStay DEF lifeVars
  <2> QED  BY <2>1, <2>3, <2>4, OthersStay
<1> QED  BY <1>2, <1>3

\* Whatever a repair does keeps the invariant.
LEMMA RepairsKeep ==
    ASSUME IndexInv, NEW r \in Repairer, RepairStep(r)
    PROVE  IndexInv' /\ Carried
BY ListingKeeps, RepairItemKeeps, RepairMarksKeep, CompensationKept, OrphansKeep DEF RepairStep

-----------------------------------------------------------------------------
(* Administrators, and all together.                                       *)

\* A deletion that had completed is closed by a repair run.
LEMMA FinalizeKeeps ==
    ASSUME IndexInv, NEW o \in OpId, FinalizeDelete(o)
    PROVE  IndexInv' /\ Carried
<1>1. /\ MayCloseDelete(o) /\ CloseDelete(o) /\ UNCHANGED <<ops, intent, asked, indexVars>>
  BY DEF FinalizeDelete
<1>2. LifeInv /\ ops' \in [OpId -> OpRec]
  BY <1>1 DEF IndexInv, LifeInv, LifeTypeOK
<1>3. LifeInv' /\ Carried
  BY <1>1, <1>2, CloseDeleteKeeps
<1>4. /\ UNCHANGED <<agent, governor>>
      /\ provider' \subseteq ExtRec /\ issued' \in Nat /\ scope' \in [Repairer -> ScopeRec]
  BY <1>1 DEF IndexInv, IndexTypeOK, indexVars
<1> QED  BY <1>3, <1>4, OthersStay

\* An administrator reads a deletion, restarts it or closes it.
LEMMA GovernorsKeep ==
    ASSUME IndexInv, NEW g \in Governor,
           GovernRequeue(g) \/ GovernClose(g) \/ \E o \in OpId : GovernRead(g, o)
    PROVE  IndexInv' /\ Carried
<1>1. /\ LifeInv /\ LifeTypeOK /\ IndexTypeOK /\ governor[g] \in GovRec /\ GovernorOK(governor[g])
      /\ ops \in [OpId -> OpRec]
  BY DEF IndexInv, IndexTypeOK, LifeInv, LifeTypeOK
<1> DEFINE over == [governor[g] EXCEPT !.pc = "over"]
<1>2. over \in GovRec /\ over.pc = "over"
  BY <1>1 DEF GovRec
<1>3. PICK z \in GovRec : z = over
  BY <1>2
<1>4. GovernorOK(z)'
  BY <1>2, <1>3 DEF GovernorOK
<1>5. ASSUME NEW o \in OpId, GovernRead(g, o) PROVE IndexInv' /\ Carried
  <2> DEFINE b == [pc |-> "accept", op |-> o, status |-> ops[o].status]
  <2>1. /\ Kind(o) = "delete" /\ ops[o].status # "none"
        /\ governor' = [governor EXCEPT ![g] = b]
        /\ UNCHANGED <<lifeVars, provider, issued, agent, scope>>
    BY <1>5 DEF GovernRead
  <2>2. b \in GovRec /\ b.op = o
    BY <1>1 DEF GovRec, OpRec
  <2> HIDE DEF b
  <2>3. LifeInv' /\ Carried
    BY <1>1, <2>1, RowsStay DEF lifeVars
  <2>4. PICK a \in GovRec : a = b
    BY <2>2
  <2>5. GovernorOK(a)'
    BY <2>1, <2>2, <2>4 DEF GovernorOK, lifeVars
  <2> QED  BY <2>1, <2>3, <2>4, <2>5, GovernorMoves
<1> HIDE DEF over
<1>6. CASE GovernRequeue(g)
  <2> DEFINE o == governor[g].op
             x == [ops[o] EXCEPT !.status = "pending", !.attempts = 0, !.lease = "none", !.key = TRUE]
  <2>1. /\ governor[g].pc = "accept"
        /\ ops' = [ops EXCEPT ![o] = x] \/ ops' = ops
        /\ governor' = [governor EXCEPT ![g] = over]
        /\ UNCHANGED <<item, revs, events, intent, asked, provider, issued, agent, scope>>
    BY <1>6 DEF GovernRequeue, over
  <2>2. o \in OpId /\ ops[o].status # "none" /\ ops[o] \in OpRec
    BY <1>1, <2>1 DEF GovernorOK
  <2>3. x \in OpRec /\ x.m = ops[o].m /\ x.rev = ops[o].rev /\ x.status = "pending"
    BY <2>2 DEF OpRec
  <2> HIDE DEF o, x
  <2>4. /\ ops' \in [OpId -> OpRec]
        /\ \A p \in OpId : /\ ops'[p].m = ops[p].m /\ ops'[p].rev = ops[p].rev
                           /\ ops'[p].status = "none" <=> ops[p].status = "none"
                           /\ ops'[p].status = "completed" => ops[p].status = "completed"
    BY <1>1, <2>1, <2>2, <2>3
  <2>5. LifeInv' /\ Carried
    BY <1>1, <2>1, <2>4, OperationsMove
  <2> QED  BY <1>3, <1>4, <2>1, <2>5, GovernorMoves
<1>7. CASE GovernClose(g)
  <2> DEFINE o == governor[g].op
             x == [ops[o] EXCEPT !.key = TRUE]
  <2>1. /\ governor[g].pc = "accept"
        /\ ops' = [ops EXCEPT ![o] = x] \/ ops' = ops
        /\ \/ MayCloseDelete(o) /\ CloseDelete(o)
           \/ UNCHANGED <<item, revs, events>>
        /\ governor' = [governor EXCEPT ![g] = over]
        /\ UNCHANGED <<intent, asked, provider, issued, agent, scope>>
    BY <1>7 DEF GovernClose, over
  <2>2. o \in OpId /\ ops[o].status # "none" /\ ops[o] \in OpRec
    BY <1>1, <2>1 DEF GovernorOK
  <2>3. x \in OpRec /\ x.m = ops[o].m /\ x.rev = ops[o].rev /\ x.status = ops[o].status
    BY <2>2 DEF OpRec
  <2> HIDE DEF o, x
  <2>4. /\ ops' \in [OpId -> OpRec]
        /\ \A p \in OpId : /\ ops'[p].m = ops[p].m /\ ops'[p].rev = ops[p].rev
                           /\ ops'[p].status = ops[p].status
    BY <1>1, <2>1, <2>2, <2>3
  <2>5. LifeInv' /\ Carried
    <3>1. CASE MayCloseDelete(o) /\ CloseDelete(o)
      BY <1>1, <2>1, <2>2, <2>4, <3>1, CloseDeleteKeeps
    <3>2. CASE UNCHANGED <<item, revs, events>>
      BY <1>1, <2>1, <2>4, <3>2, OperationsMove
    <3> QED  BY <2>1, <3>1, <3>2
  <2> QED  BY <1>3, <1>4, <2>1, <2>5, GovernorMoves
<1> QED  BY <1>5, <1>6, <1>7

\* In the beginning the index is empty and everyone is idle.
LEMMA MemoryStart == MemoryInit => IndexInv
<1> SUFFICES ASSUME MemoryInit PROVE IndexInv
  OBVIOUS
<1>1. LifeInv
  BY LifeStart DEF MemoryInit
<1>2. IndexTypeOK
  <2>1. NoScope \in ScopeRec
    BY DEF NoScope, ScopeRec
  <2>2. [pc |-> "idle", op |-> <<>>, status |-> "none"] \in GovRec
    BY DEF GovRec
  <2> QED  BY <2>1, <2>2, IdleKnown DEF MemoryInit, IndexTypeOK
<1>3. \A w \in Worker : WorkerOK(agent[w])
  BY IdleKnown DEF MemoryInit, WorkerOK, Agent
<1>4. \A r \in Repairer : RepairerOK(agent[r])
  BY IdleKnown DEF MemoryInit, RepairerOK, Agent
<1>5. \A g \in Governor : GovernorOK(governor[g])
  BY DEF MemoryInit, GovernorOK
<1> QED  BY <1>1, <1>2, <1>3, <1>4, <1>5 DEF IndexInv

\* Every step keeps the invariant and carries everything on.
LEMMA MemoryStep ==
    ASSUME IndexInv, [MemoryNext]_memoryVars
    PROVE  IndexInv' /\ Carried
<1>1. ASSUME LifeNext, UNCHANGED indexVars PROVE IndexInv' /\ Carried
  <2>1. LifeInv' /\ Carried
    BY <1>1, LifeStep DEF IndexInv
  <2>2. /\ UNCHANGED <<agent, governor>>
        /\ provider' \subseteq ExtRec /\ issued' \in Nat /\ scope' \in [Repairer -> ScopeRec]
    BY <1>1 DEF IndexInv, IndexTypeOK, indexVars
  <2> QED  BY <2>1, <2>2, OthersStay
<1>2. ASSUME UNCHANGED memoryVars PROVE IndexInv' /\ Carried
  <2>1. LifeInv' /\ Carried
    BY <1>2, RowsStay DEF IndexInv, memoryVars, lifeVars
  <2>2. /\ UNCHANGED <<agent, governor>>
        /\ provider' \subseteq ExtRec /\ issued' \in Nat /\ scope' \in [Repairer -> ScopeRec]
    BY <1>2 DEF IndexInv, IndexTypeOK, indexVars, memoryVars
  <2> QED  BY <2>1, <2>2, OthersStay
<1> QED
  BY <1>1, <1>2, WorkersKeep, RepairsKeep, LapseKeeps, FinalizeKeeps, GovernorsKeep DEF MemoryNext

\* The inductive invariant of the rows of long-term memory, the outbox, workers,
\* repairs and administrators (memory_lifecycle_store.py, memory_index_worker.py,
\* memory_index_repair.py and memory_governance_service.py).
THEOREM IndexInvariant == MemorySpec => []IndexInv
<1>1. MemoryInit => IndexInv
  BY MemoryStart
<1>2. IndexInv /\ [MemoryNext]_memoryVars => IndexInv'
  BY MemoryStep
<1> QED  BY <1>1, <1>2, PTL DEF MemorySpec

\* No update is lost: every revision was derived from the one before it, and the
\* current one is the last (commit_update compares the revision it expects).
THEOREM UpdatesAlwaysBuildOnLast == MemorySpec => []UpdatesBuildOnLast
<1>1. IndexInv => UpdatesBuildOnLast
  BY DEF IndexInv, LifeInv
<1> QED  BY <1>1, IndexInvariant, PTL

\* Work on the external index is kept until it is done: a pending deletion has its
\* operation, and so has an active memory that waits to be indexed.
THEOREM IndexWorkAlwaysKept == MemorySpec => []IndexWorkIsKept
<1>1. IndexInv => IndexWorkIsKept
  <2> SUFFICES ASSUME IndexInv PROVE IndexWorkIsKept
    OBVIOUS
  <2>1. ASSUME NEW m \in Memory, Indexable(m), item[m].index = "pending"
        PROVE  \E o \in OpId : ops[o].rev = item[m].rev /\ ops[o].status \notin {"none", "completed"}
    <3>1. /\ item[m].rev \in Revision /\ <<"decision", item[m].rev>> \in events
          /\ ops[OpOf(item[m].rev)].status # "completed"
      BY <2>1 DEF IndexInv, LifeInv, DecisionsNamed, WaitsForOperation, Indexable, Is
    <3>2. /\ OpOf(item[m].rev) \in OpId
          /\ ops[OpOf(item[m].rev)].status # "none" /\ ops[OpOf(item[m].rev)].rev = item[m].rev
      BY <3>1, OperationNames DEF IndexInv, LifeInv, DecisionsNamed
    <3> QED  BY <3>1, <3>2
  <2> QED  BY <2>1 DEF IndexWorkIsKept, NothingForgotten, IndexInv, LifeInv
<1> QED  BY <1>1, IndexInvariant, PTL

\* A deletion is never taken back: a pending one keeps its revision until the rows
\* are gone, and after the tombstone nothing comes back
\* (complete_delete_from_index, and the event check of commit_add).
THEOREM DeletionsAreFinal == MemorySpec => DeletionIsFinal
<1> DEFINE Final == \A m \in Memory :
              /\ Is(m, "deletion_pending") =>
                   item'[m].status # "active" /\ item'[m].rev \in {item[m].rev, NoRev}
              /\ Deleted(m) => item'[m] = NoItem /\ revs'[m] = <<>>
<1>1. IndexInv /\ [MemoryNext]_memoryVars => [Final]_memoryVars
  <2> SUFFICES ASSUME IndexInv, [MemoryNext]_memoryVars PROVE Final
    OBVIOUS
  <2>1. IndexInv' /\ Carried
    BY MemoryStep
  <2>2. ASSUME NEW m \in Memory, Deleted(m) PROVE item'[m] = NoItem /\ revs'[m] = <<>>
    <3>1. PICK e \in events : e[1] = "tombstone" /\ ops[e[2]].m = m
      BY <2>2 DEF Deleted
    <3>2. e \in events' /\ e[2] \in OpId /\ ops[e[2]].status # "none"
      BY <2>1, <3>1 DEF IndexInv, LifeInv, TombstonesHold, Carried
    <3>3. ops'[e[2]].m = m
      BY <2>1, <3>1, <3>2 DEF Carried
    <3> QED  BY <2>1, <3>1, <3>2, <3>3 DEF IndexInv, LifeInv, TombstonesHold
  <2> QED  BY <2>1, <2>2 DEF Carried
<1> QED  BY <1>1, IndexInvariant, PTL DEF MemorySpec, DeletionIsFinal

=============================================================================
