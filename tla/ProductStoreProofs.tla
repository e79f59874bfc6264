------------------------- MODULE ProductStoreProofs -------------------------
(***************************************************************************)
(* Proofs about the product's store: TaskEffects, its effects and its room,*)
(* for any tasks, effects, tabs and capacities, and TaskProjection, how it *)
(* follows the journal, for any projectors and tasks.                      *)
(*                                                                         *)
(* Every write of the store is compacted, so that what a write keeps is    *)
(* what its compaction keeps.  Shrinks says what that is, and is the only  *)
(* thing the proofs of the operations know of compaction.                  *)
(***************************************************************************)
EXTENDS TaskEffects, TaskProjection, TLAPS, FiniteSetTheorems

InboxRow == [state : {"none", "pending", "completed", "released"},
             fence : Nat, token : 0..MaxClaims, lapsed : BOOLEAN]

\* What compaction leaves of d.
KeepsTask(d, x, t) ==
    \/ x.task[t] = d.task[t]
    \/ x.task[t] = "none" /\ d.task[t] = "deleted"

\* A row is kept with its task, or it is dropped, which an effect that is being
\* done is not, nor one that was done for a task which is still there.
KeepsRow(d, x, k) ==
    \/ /\ x.inbox[k] = d.inbox[k]
       /\ d.inbox[k].state # "none" => x.task[TaskOf[k]] = d.task[TaskOf[k]]
    \/ /\ x.inbox[k] = NoRow
       /\ d.inbox[k].state # "pending"
       /\ d.inbox[k].state = "completed" => d.task[TaskOf[k]] = "deleted"

Shrinks(d, x) ==
    /\ x \in Disk
    /\ \A t \in StoreTask : KeepsTask(d, x, t)
    /\ \A r \in x.projections : r \in d.projections /\ x.task[r[1]] = d.task[r[1]]
    /\ \A k \in x.products : k \in d.products /\ x.task[TaskOf[k]] = d.task[TaskOf[k]]
    /\ \A k \in EffectKey : KeepsRow(d, x, k)

-----------------------------------------------------------------------------
(* Compaction.                                                             *)

LEMMA PicksAreSubsets ==
    ASSUME NEW S, NEW n, NEW s \in Picks(S, n)
    PROVE  s \subseteq S
  BY DEF Picks

LEMMA DiskIsRecord ==
    ASSUME NEW d \in Disk
    PROVE  /\ d.task \in [StoreTask -> Visibility]
           /\ d.projections \subseteq StoreTask \X (1..MaxProjections)
           /\ d.products \subseteq EffectKey
           /\ d.inbox \in [EffectKey -> InboxRow]
           /\ \A k \in EffectKey : TaskOf[k] \in StoreTask
           /\ \A r \in d.projections : r[1] \in StoreTask
  BY TaskEffectsAssumption DEF Disk, InboxRow

LEMMA NoRowIsTyped == NoRow \in InboxRow /\ NoRow.state = "none"
  BY TaskEffectsAssumption DEF NoRow, InboxRow

LEMMA ShrinksItself ==
    ASSUME NEW d \in Disk
    PROVE  Shrinks(d, d)
  BY DEF Shrinks, KeepsTask, KeepsRow

LEMMA ShrinksOn ==
    ASSUME NEW d \in Disk, NEW x, NEW y, Shrinks(d, x), Shrinks(x, y)
    PROVE  Shrinks(d, y)
<1>1. x \in Disk /\ y \in Disk
  BY DEF Shrinks
<1>2. \A t \in StoreTask : KeepsTask(d, y, t)
  BY DEF Shrinks, KeepsTask
<1>3. \A r \in y.projections : r \in d.projections /\ y.task[r[1]] = d.task[r[1]]
  BY DEF Shrinks
<1>4. \A k \in y.products : k \in d.products /\ y.task[TaskOf[k]] = d.task[TaskOf[k]]
  BY DEF Shrinks
<1>5. ASSUME NEW k \in EffectKey PROVE KeepsRow(d, y, k)
  <2>1. KeepsRow(d, x, k) /\ KeepsRow(x, y, k) /\ KeepsTask(d, x, TaskOf[k])
    BY <1>1, DiskIsRecord DEF Shrinks
  <2>2. CASE x.inbox[k] = NoRow
    BY <2>1, <2>2, NoRowIsTyped DEF KeepsRow
  <2>3. CASE x.inbox[k] = d.inbox[k] /\ d.inbox[k].state # "none"
    BY <2>1, <2>3 DEF KeepsRow, KeepsTask
  <2>4. CASE x.inbox[k] = d.inbox[k] /\ d.inbox[k].state = "none"
    BY <2>1, <2>4 DEF KeepsRow
  <2>5. QED
    BY <2>1, <2>2, <2>3, <2>4 DEF KeepsRow
<1>6. QED
  BY <1>1, <1>2, <1>3, <1>4, <1>5 DEF Shrinks

LEMMA TasksShrink ==
    ASSUME NEW d \in Disk, NEW x \in TasksCompacted(d)
    PROVE  Shrinks(d, x)
<1>1. PICK ts \in SUBSET DroppableTasks(d) : x = WithoutTasks(d, ts)
  BY PicksAreSubsets DEF TasksCompacted
<1>2. \A t \in ts : /\ t \in StoreTask /\ d.task[t] = "deleted"
                    /\ \A k \in EffectKey : TaskOf[k] = t => d.inbox[k].state # "pending"
  BY <1>1 DEF DroppableTasks, Rows
<1>3. /\ x.task = [t \in StoreTask |-> IF t \in ts THEN "none" ELSE d.task[t]]
      /\ x.projections = {r \in d.projections : r[1] \notin ts}
      /\ x.products = {k \in d.products : TaskOf[k] \notin ts}
      /\ x.inbox = [k \in EffectKey |-> IF TaskOf[k] \in ts THEN NoRow ELSE d.inbox[k]]
  BY <1>1 DEF WithoutTasks
<1>4. x \in Disk
  <2>1. /\ x.task \in [StoreTask -> Visibility]
        /\ x.projections \in SUBSET (StoreTask \X (1..MaxProjections))
        /\ x.products \in SUBSET EffectKey
        /\ x.inbox \in [EffectKey -> InboxRow]
    BY <1>3, DiskIsRecord, NoRowIsTyped DEF Visibility
  <2>2. QED
    BY <1>1, <2>1 DEF Disk, WithoutTasks, InboxRow
<1>5. \A t \in StoreTask : KeepsTask(d, x, t)
  BY <1>2, <1>3 DEF KeepsTask
<1>6. \A r \in x.projections : r \in d.projections /\ x.task[r[1]] = d.task[r[1]]
  BY <1>3, DiskIsRecord
<1>7. \A k \in x.products : k \in d.products /\ x.task[TaskOf[k]] = d.task[TaskOf[k]]
  BY <1>3, DiskIsRecord
<1>8. \A k \in EffectKey : KeepsRow(d, x, k)
  BY <1>2, <1>3, DiskIsRecord DEF KeepsRow
<1>9. QED
  BY <1>4, <1>5, <1>6, <1>7, <1>8 DEF Shrinks

LEMMA OutboxShrinks ==
    ASSUME NEW d \in Disk, NEW x \in OutboxCompacted(d)
    PROVE  Shrinks(d, x)
<1>1. PICK ks : x = [d EXCEPT !.products = @ \ ks]
  BY DEF OutboxCompacted
<1>2. /\ x.task = d.task /\ x.projections = d.projections /\ x.inbox = d.inbox
      /\ x.products = d.products \ ks /\ x \in Disk
  BY <1>1 DEF Disk
<1>3. QED
  BY <1>2 DEF Shrinks, KeepsTask, KeepsRow

LEMMA InboxShrinks ==
    ASSUME NEW d \in Disk, NEW x \in InboxCompacted(d)
    PROVE  Shrinks(d, x)
<1>1. PICK ks \in DroppableRows(d) :
        x = [d EXCEPT !.products = @ \ ks,
                      !.inbox = [k \in EffectKey |-> IF k \in ks THEN NoRow ELSE d.inbox[k]]]
  BY DEF InboxCompacted
<1>2. \A k \in ks : \/ d.inbox[k].state = "released"
                    \/ d.inbox[k].state = "completed" /\ d.task[TaskOf[k]] = "deleted"
  BY <1>1, PicksAreSubsets DEF DroppableRows, ReleasedRows, SpentRows
<1> DEFINE i == [k \in EffectKey |-> IF k \in ks THEN NoRow ELSE d.inbox[k]]
           z == [d EXCEPT !.products = @ \ ks]
<1>3. i \in [EffectKey -> InboxRow]
  BY DiskIsRecord, NoRowIsTyped
<1>4. z \in Disk /\ z.task = d.task /\ z.projections = d.projections /\ z.products = d.products \ ks
  BY DEF Disk
<1>5. x = [z EXCEPT !.inbox = i]
  BY <1>1
<1> HIDE DEF i, z
<1>6. x \in Disk /\ x.task = d.task /\ x.projections = d.projections
      /\ x.products = d.products \ ks /\ x.inbox = i
  BY <1>3, <1>4, <1>5 DEF Disk, InboxRow
<1>7. \A k \in EffectKey : KeepsRow(d, x, k)
  BY <1>2, <1>6 DEF KeepsRow, i
<1>8. QED
  BY <1>6, <1>7 DEF Shrinks, KeepsTask

\* What is written fits, and is what compaction keeps.
LEMMA CompactionShrinks ==
    ASSUME NEW d \in Disk, NEW x \in Compacted(d)
    PROVE  Shrinks(d, x) /\ Fits(x)
<1>1. PICK a \in TasksCompacted(d) : \E b \in OutboxCompacted(a) : \E c \in InboxCompacted(b) :
        x \in OutboxCompacted(c)
  BY DEF Compacted
<1>2. PICK b \in OutboxCompacted(a) : \E c \in InboxCompacted(b) : x \in OutboxCompacted(c)
  BY <1>1
<1>3. PICK c \in InboxCompacted(b) : x \in OutboxCompacted(c)
  BY <1>2
<1>4. Shrinks(d, a) /\ a \in Disk
  BY TasksShrink DEF Shrinks
<1>5. Shrinks(a, b) /\ b \in Disk
  BY <1>4, OutboxShrinks DEF Shrinks
<1>6. Shrinks(b, c) /\ c \in Disk
  BY <1>5, InboxShrinks DEF Shrinks
<1>7. Shrinks(c, x)
  BY <1>3, <1>6, OutboxShrinks
<1>8. Shrinks(d, c)
  BY <1>4, <1>5, <1>6, ShrinksOn
<1>9. QED
  BY <1>7, <1>8, ShrinksOn DEF Compacted

-----------------------------------------------------------------------------
(* The invariant of the store.                                             *)

\* A reader finds the task of every row.
Refers(d) ==
    /\ \A r \in d.projections : d.task[r[1]] # "none"
    /\ \A k \in Rows(d) \cup d.products : d.task[TaskOf[k]] # "none"

\* A task that was deleted once is never shown again.
DeletedStays ==
    \A t \in StoreTask : disk.task[t] # "none" => (disk.task[t] = "deleted") = projected[t].deleted

\* What a tab may still hold of the effects.
ClaimsKnown ==
    /\ \A c \in Client : client[c] # NoClaim =>
         client[c].key \in EffectKey /\ client[c].token \in 1..claims
    /\ \A c \in Client, k \in EffectKey :
         client[c].key = k /\ disk.inbox[k].state = "pending" => client[c].token <= disk.inbox[k].token

\* A completed effect stays so for as long as its task is shown; later its row
\* may be dropped, but the effect cannot be claimed again.
FinishedStays ==
    /\ \A f \in finished :
         /\ disk.inbox[f.key].state \in {"completed", "none"}
         /\ \/ projected[TaskOf[f.key]].deleted
            \/ disk.task[TaskOf[f.key]] = "visible" /\ disk.inbox[f.key].state = "completed"
    /\ \A f, g \in finished : f.key = g.key => f = g
    /\ \A f \in finished, c \in Client : client[c].key = f.key => client[c].token <= f.by

StoreInv ==
    /\ TaskEffectsTypeOK
    /\ Fits(disk) /\ Refers(disk)
    /\ DeletedStays /\ ClaimsKnown /\ FinishedStays

LEMMA StoreInvInit == TaskEffectsInit => StoreInv
<1> SUFFICES ASSUME TaskEffectsInit PROVE StoreInv
  OBVIOUS
<1> USE TaskEffectsAssumption DEF TaskEffectsInit
<1>1. TaskEffectsTypeOK
  <2>1. disk \in Disk
    BY NoRowIsTyped DEF Disk, Visibility, InboxRow
  <2>2. NoClaim \in [key : EffectKey \cup {"none"}, token : 0..MaxClaims, fence : Nat]
    BY DEF NoClaim
  <2>3. projected \in [StoreTask -> [count : 0..MaxProjections, deleted : BOOLEAN]]
    OBVIOUS
  <2>4. claims \in 0..MaxClaims /\ \A f \in finished : f.key \in EffectKey /\ f.by \in 1..claims
    OBVIOUS
  <2>5. client \in [Client -> [key : EffectKey \cup {"none"}, token : 0..MaxClaims, fence : Nat]]
    BY <2>2
  <2>6. QED
    BY <2>1, <2>3, <2>4, <2>5 DEF TaskEffectsTypeOK
<1>2. Fits(disk) /\ Refers(disk)
  <2>1. StoredTasks(disk) = {} /\ Rows(disk) = {}
    BY NoRowIsTyped DEF StoredTasks, Rows
  <2>2. disk.projections = {} /\ disk.products = {}
    OBVIOUS
  <2>3. Cardinality({}) = 0
    BY FS_EmptySet
  <2>4. MaxTasks \in Nat \ {0} /\ MaxEffects \in Nat \ {0}
    OBVIOUS
  <2>5. OutboxSize(disk) = 0
    BY <2>2, <2>3 DEF OutboxSize
  <2>6. Fits(disk)
    <3>1. Cardinality(StoredTasks(disk)) = 0 /\ Cardinality(Rows(disk)) = 0
      BY <2>1, <2>3
    <3>2. 0 <= MaxTasks /\ 0 <= MaxEffects
      BY <2>4
    <3>3. QED
      BY <2>5, <3>1, <3>2 DEF Fits
  <2>7. Refers(disk)
    BY <2>1, <2>2 DEF Refers
  <2>8. QED
    BY <2>6, <2>7
<1>3. DeletedStays /\ ClaimsKnown /\ FinishedStays
  BY NoRowIsTyped DEF DeletedStays, ClaimsKnown, FinishedStays, NoClaim, NoRow
<1>4. QED
  BY <1>1, <1>2, <1>3 DEF StoreInv

\* A write d of rows that refer to their tasks is still readable when compacted.
LEMMA WritesRefer ==
    ASSUME NEW d \in Disk, NEW x, Shrinks(d, x), Refers(d)
    PROVE  Refers(x)
<1>1. x \in Disk
  BY DEF Shrinks
<1>2. ASSUME NEW k \in Rows(x) PROVE x.task[TaskOf[k]] # "none"
  <2>1. k \in EffectKey /\ x.inbox[k].state # "none" /\ KeepsRow(d, x, k)
    BY DEF Rows, Shrinks
  <2>2. d.inbox[k].state # "none" /\ x.task[TaskOf[k]] = d.task[TaskOf[k]]
    BY <2>1, NoRowIsTyped DEF KeepsRow
  <2>3. QED
    BY <2>1, <2>2 DEF Refers, Rows
<1>3. QED
  BY <1>2 DEF Refers, Shrinks

LEMMA StoreIsTyped ==
    ASSUME StoreInv
    PROVE  /\ disk \in Disk
           /\ projected \in [StoreTask -> [count : 0..MaxProjections, deleted : BOOLEAN]]
           /\ client \in [Client -> [key : EffectKey \cup {"none"}, token : 0..MaxClaims, fence : Nat]]
           /\ claims \in 0..MaxClaims
           /\ \A f \in finished : f.key \in EffectKey /\ f.by \in 1..claims
           /\ disk.task \in [StoreTask -> Visibility]
           /\ disk.projections \subseteq StoreTask \X (1..MaxProjections)
           /\ disk.products \subseteq EffectKey
           /\ disk.inbox \in [EffectKey -> InboxRow]
           /\ \A k \in EffectKey : TaskOf[k] \in StoreTask
  BY DiskIsRecord DEF StoreInv, TaskEffectsTypeOK

LEMMA ProjectKeeps ==
    ASSUME StoreInv, NEW t \in StoreTask, NEW v \in Visibility, ProjectTask(t, v)
    PROVE  StoreInv'
<1> DEFINE d == [disk EXCEPT !.task[t] = v, !.projections = @ \cup {<<t, projected'[t].count>>}]
<1>0. v \in {"visible", "deleted"} /\ (projected[t].deleted => v = "deleted")
  BY DEF ProjectTask
<1>1. /\ projected' \in [StoreTask -> [count : 0..MaxProjections, deleted : BOOLEAN]]
      /\ \A u \in StoreTask : u # t => projected'[u] = projected[u]
      /\ projected'[t].deleted = (v = "deleted")
      /\ projected'[t].count \in 1..MaxProjections
  BY StoreIsTyped, TaskEffectsAssumption DEF ProjectTask
<1>2. /\ d \in Disk /\ d.inbox = disk.inbox /\ d.products = disk.products
      /\ d.projections = disk.projections \cup {<<t, projected'[t].count>>}
      /\ \A u \in StoreTask : d.task[u] = IF u = t THEN v ELSE disk.task[u]
  <2> DEFINE z == [disk EXCEPT !.task[t] = v]
             r == <<t, projected'[t].count>>
  <2>1. /\ z \in Disk /\ z.inbox = disk.inbox /\ z.products = disk.products
        /\ z.projections = disk.projections
        /\ \A u \in StoreTask : z.task[u] = IF u = t THEN v ELSE disk.task[u]
    BY StoreIsTyped DEF Disk
  <2>2. r \in StoreTask \X (1..MaxProjections)
    BY <1>1
  <2>3. d = [z EXCEPT !.projections = @ \cup {r}]
    OBVIOUS
  <2> HIDE DEF z, r, d
  <2>4. /\ d \in Disk /\ d.inbox = disk.inbox /\ d.products = disk.products
        /\ d.projections = disk.projections \cup {r}
        /\ \A u \in StoreTask : d.task[u] = IF u = t THEN v ELSE disk.task[u]
    BY <2>1, <2>2, <2>3 DEF Disk
  <2>5. QED
    BY <2>4 DEF r
<1>3. disk' \in Compacted(d) /\ UNCHANGED <<client, claims, finished>>
  BY DEF ProjectTask, Stores
<1> HIDE DEF d
<1>4. Shrinks(d, disk') /\ Fits(disk')
  BY <1>2, <1>3, CompactionShrinks
<1>5. Refers(d)
  <2>1. \A u \in StoreTask : disk.task[u] # "none" => d.task[u] # "none"
    BY <1>0, <1>2
  <2>2. d.task[t] # "none" /\ <<t, projected'[t].count>>[1] = t
    BY <1>0, <1>2
  <2>3. \A r \in d.projections : d.task[r[1]] # "none"
    BY <1>2, <2>1, <2>2, StoreIsTyped, DiskIsRecord DEF StoreInv, Refers
  <2>4. Rows(d) = Rows(disk)
    BY <1>2 DEF Rows
  <2>5. \A k \in Rows(d) \cup d.products : d.task[TaskOf[k]] # "none"
    BY <1>2, <2>1, <2>4, StoreIsTyped DEF StoreInv, Refers, Rows
  <2>6. QED
    BY <2>3, <2>5 DEF Refers
<1>6. Refers(disk')
  BY <1>2, <1>4, <1>5, WritesRefer
<1>7. TaskEffectsTypeOK'
  BY <1>1, <1>3, <1>4, StoreIsTyped DEF TaskEffectsTypeOK, Shrinks
<1>8. DeletedStays'
  BY <1>0, <1>1, <1>2, <1>4 DEF StoreInv, DeletedStays, Shrinks, KeepsTask
<1>9. ClaimsKnown'
  BY <1>2, <1>3, <1>4, NoRowIsTyped DEF StoreInv, ClaimsKnown, Shrinks, KeepsRow
<1>10. FinishedStays'
  <2> SUFFICES ASSUME NEW f \in finished
               PROVE  /\ disk'.inbox[f.key].state \in {"completed", "none"}
                      /\ \/ projected'[TaskOf[f.key]].deleted
                         \/ /\ disk'.task[TaskOf[f.key]] = "visible"
                            /\ disk'.inbox[f.key].state = "completed"
    BY <1>3 DEF StoreInv, FinishedStays
  <2>1. /\ f.key \in EffectKey /\ TaskOf[f.key] \in StoreTask
        /\ KeepsRow(d, disk', f.key) /\ KeepsTask(d, disk', TaskOf[f.key])
    BY <1>4, StoreIsTyped DEF Shrinks
  <2>2. /\ disk.inbox[f.key].state \in {"completed", "none"}
        /\ \/ projected[TaskOf[f.key]].deleted
           \/ disk.task[TaskOf[f.key]] = "visible" /\ disk.inbox[f.key].state = "completed"
    BY DEF StoreInv, FinishedStays
  <2>3. disk'.inbox[f.key].state \in {"completed", "none"}
    BY <1>2, <2>1, <2>2, NoRowIsTyped DEF KeepsRow
  <2>4. projected[TaskOf[f.key]].deleted => projected'[TaskOf[f.key]].deleted
    BY <1>0, <1>1, <2>1
  <2>5. CASE ~projected'[TaskOf[f.key]].deleted
    <3>1. d.task[TaskOf[f.key]] = "visible" /\ d.inbox[f.key].state = "completed"
      BY <1>0, <1>1, <1>2, <2>1, <2>2, <2>4, <2>5
    <3>2. QED
      BY <2>1, <3>1, NoRowIsTyped DEF KeepsRow, KeepsTask
  <2>6. QED
    BY <2>3, <2>5
<1>11. QED
  BY <1>4, <1>6, <1>7, <1>8, <1>9, <1>10 DEF StoreInv

\* What the writes of a tab, which leave the tasks alone, keep in any case.
LEMMA TabWriteKeeps ==
    ASSUME StoreInv, NEW d \in Disk, Stores(d), UNCHANGED projected,
           d.task = disk.task, d.projections = disk.projections,
           \A k \in Rows(d) \cup d.products : disk.task[TaskOf[k]] # "none"
    PROVE  Shrinks(d, disk') /\ disk' \in Disk /\ Fits(disk') /\ Refers(disk') /\ DeletedStays'
<1>1. Shrinks(d, disk') /\ Fits(disk')
  BY CompactionShrinks DEF Stores
<1>2. Refers(d)
  BY DEF StoreInv, Refers
<1>3. Refers(disk')
  BY <1>1, <1>2, WritesRefer
<1>4. DeletedStays'
  BY <1>1 DEF StoreInv, DeletedStays, Shrinks, KeepsTask
<1>5. QED
  BY <1>1, <1>3, <1>4 DEF Shrinks

LEMMA ClaimEffectKeeps ==
    ASSUME StoreInv, NEW c \in Client, NEW k \in EffectKey, ClaimEffect(c, k)
    PROVE  StoreInv'
<1> DEFINE row == [state |-> "pending", fence |-> disk.inbox[k].fence + 1,
                   token |-> claims + 1, lapsed |-> FALSE]
           d == [disk EXCEPT !.products = @ \cup {k}, !.inbox[k] = row]
<1>1. /\ claims < MaxClaims /\ disk.task[TaskOf[k]] = "visible" /\ CanClaim(k)
      /\ Stores(d)
      /\ client' = [client EXCEPT ![c] = [key |-> k, token |-> row.token, fence |-> row.fence]]
      /\ claims' = claims + 1
      /\ UNCHANGED <<projected, finished>>
  BY DEF ClaimEffect
<1>2. claims \in Nat /\ claims + 1 \in 1..MaxClaims /\ claims + 1 \in 0..MaxClaims
  BY <1>1, StoreIsTyped, TaskEffectsAssumption
<1>3. row \in InboxRow /\ row.state = "pending" /\ row.token = claims + 1 /\ row.fence \in Nat
  BY <1>2, StoreIsTyped DEF InboxRow
<1> HIDE DEF row
<1>4. /\ d \in Disk /\ d.task = disk.task /\ d.projections = disk.projections
      /\ d.products = disk.products \cup {k} /\ d.inbox = [disk.inbox EXCEPT ![k] = row]
  <2> DEFINE z == [disk EXCEPT !.products = @ \cup {k}]
  <2>1. /\ z \in Disk /\ z.inbox = disk.inbox /\ z.task = disk.task
        /\ z.projections = disk.projections /\ z.products = disk.products \cup {k}
    BY StoreIsTyped DEF Disk
  <2>2. d = [z EXCEPT !.inbox[k] = row]
    OBVIOUS
  <2>3. [disk.inbox EXCEPT ![k] = row] \in [EffectKey -> InboxRow]
    BY <1>3, StoreIsTyped
  <2> HIDE DEF z, d
  <2>4. QED
    BY <2>1, <2>2, <2>3 DEF Disk, InboxRow
<1> HIDE DEF d
<1>5. /\ d.inbox[k] = row
      /\ \A j \in EffectKey : j # k => d.inbox[j] = disk.inbox[j]
  BY <1>4, StoreIsTyped
<1>6. \A j \in Rows(d) \cup d.products : disk.task[TaskOf[j]] # "none"
  BY <1>1, <1>4, <1>5 DEF StoreInv, Refers, Rows
<1>7. Shrinks(d, disk') /\ disk' \in Disk /\ Fits(disk') /\ Refers(disk') /\ DeletedStays'
  BY <1>1, <1>4, <1>6, TabWriteKeeps
<1>8. /\ client' \in [Client -> [key : EffectKey \cup {"none"}, token : 0..MaxClaims, fence : Nat]]
      /\ client'[c].key = k /\ client'[c].token = claims + 1
      /\ \A e \in Client : e # c => client'[e] = client[e]
  BY <1>1, <1>2, <1>3, StoreIsTyped
<1>9. TaskEffectsTypeOK'
  BY <1>1, <1>2, <1>7, <1>8, StoreIsTyped DEF TaskEffectsTypeOK
<1>10. \A f \in finished : f.key # k
  <2> SUFFICES ASSUME NEW f \in finished, f.key = k PROVE FALSE
    OBVIOUS
  <2>1. ~projected[TaskOf[k]].deleted
    BY <1>1, StoreIsTyped DEF StoreInv, DeletedStays
  <2>2. disk.inbox[k].state = "completed"
    BY <2>1 DEF StoreInv, FinishedStays
  <2>3. QED
    BY <1>1, <2>2 DEF CanClaim
<1>11. ASSUME NEW j \in EffectKey, j # k PROVE KeepsRow(disk, disk', j)
  BY <1>4, <1>5, <1>7, <1>11, StoreIsTyped DEF Shrinks, KeepsRow
<1>12. disk'.inbox[k].state = "pending" => disk'.inbox[k].token = claims + 1
  BY <1>3, <1>5, <1>7, NoRowIsTyped DEF Shrinks, KeepsRow
<1>13. ClaimsKnown'
  <2>1. ASSUME NEW e \in Client, client'[e] # NoClaim
        PROVE  client'[e].key \in EffectKey /\ client'[e].token \in 1..claims'
    BY <1>1, <1>2, <1>8, <2>1 DEF StoreInv, ClaimsKnown
  <2>2. ASSUME NEW e \in Client, NEW j \in EffectKey,
               client'[e].key = j, disk'.inbox[j].state = "pending"
        PROVE  client'[e].token <= disk'.inbox[j].token
    <3>1. CASE j = k
      <4>1. client'[e].token <= claims + 1
        BY <1>2, <1>8, StoreIsTyped DEF StoreInv, ClaimsKnown, NoClaim
      <4>2. QED
        BY <1>12, <2>2, <3>1, <4>1
    <3>2. CASE j # k
      BY <1>8, <1>11, <2>2, <3>2, NoRowIsTyped DEF StoreInv, ClaimsKnown, KeepsRow
    <3>3. QED
      BY <3>1, <3>2
  <2>3. QED
    BY <2>1, <2>2 DEF ClaimsKnown
<1>14. FinishedStays'
  <2>1. ASSUME NEW f \in finished
        PROVE  /\ disk'.inbox[f.key].state \in {"completed", "none"}
               /\ \/ projected[TaskOf[f.key]].deleted
                  \/ disk'.task[TaskOf[f.key]] = "visible" /\ disk'.inbox[f.key].state = "completed"
    <3>1. f.key \in EffectKey /\ f.key # k /\ TaskOf[f.key] \in StoreTask
      BY <1>10, StoreIsTyped
    <3>2. KeepsRow(disk, disk', f.key) /\ KeepsTask(disk, disk', TaskOf[f.key])
      BY <1>4, <1>7, <1>11, <3>1 DEF Shrinks, KeepsTask
    <3>3. QED
      BY <3>1, <3>2, NoRowIsTyped DEF StoreInv, FinishedStays, KeepsRow, KeepsTask
  <2>2. ASSUME NEW f \in finished, NEW e \in Client, client'[e].key = f.key
        PROVE  client'[e].token <= f.by
    BY <1>8, <1>10, <2>2 DEF StoreInv, FinishedStays
  <2>3. \A f, g \in finished : f.key = g.key => f = g
    BY DEF StoreInv, FinishedStays
  <2> QED
    BY <1>1, <2>1, <2>2, <2>3 DEF FinishedStays
<1>15. QED
  BY <1>7, <1>9, <1>13, <1>14 DEF StoreInv

LEMMA FinishKeeps ==
    ASSUME StoreInv, NEW c \in Client, NEW s \in {"completed", "released"}, FinishEffect(c, s)
    PROVE  StoreInv'
<1> DEFINE k == client[c].key
           d == [disk EXCEPT !.inbox[k].state = s, !.inbox[k].token = 0]
           done == [key |-> k, by |-> client[c].token]
<1>1. /\ client[c] # NoClaim /\ client' = [client EXCEPT ![c] = NoClaim]
      /\ UNCHANGED <<projected, claims>>
  BY DEF FinishEffect
<1>2. k \in EffectKey /\ client[c].token \in 1..claims
  BY <1>1 DEF StoreInv, ClaimsKnown
<1>3. /\ client'[c] = NoClaim /\ \A e \in Client : e # c => client'[e] = client[e]
      /\ client' \in [Client -> [key : EffectKey \cup {"none"}, token : 0..MaxClaims, fence : Nat]]
  BY <1>1, StoreIsTyped, TaskEffectsAssumption DEF NoClaim
<1>4. \A e \in Client : client'[e].key \in EffectKey => client'[e] = client[e] \/ client'[e].token = 0
  BY <1>3 DEF NoClaim
<1>5. CASE ~HoldsLease(c)
  <2>1. UNCHANGED <<disk, finished>>
    BY <1>5 DEF FinishEffect
  <2>2. TaskEffectsTypeOK'
    BY <1>1, <1>3, <2>1 DEF StoreInv, TaskEffectsTypeOK
  <2>3. ClaimsKnown'
    BY <1>1, <1>3, <1>4, <2>1, StoreIsTyped DEF StoreInv, ClaimsKnown, InboxRow
  <2>4. FinishedStays'
    BY <1>1, <1>4, <2>1, StoreIsTyped DEF StoreInv, FinishedStays
  <2>5. (Fits(disk) /\ Refers(disk) /\ DeletedStays)'
    BY <1>1, <2>1 DEF StoreInv, Fits, Refers, DeletedStays, StoredTasks, Rows, OutboxSize
  <2>6. QED
    BY <2>2, <2>3, <2>4, <2>5 DEF StoreInv
<1>6. CASE HoldsLease(c)
  <2>1. /\ Stores(d)
        /\ finished' = IF s = "completed" THEN finished \cup {done} ELSE finished
    BY <1>6 DEF FinishEffect
  <2>2. disk.inbox[k].state = "pending" /\ disk.inbox[k].token = client[c].token
    BY <1>6 DEF HoldsLease
  <2>3. done.key = k /\ done.by = client[c].token
    OBVIOUS
  <2> HIDE DEF k, done
  <2>4. /\ d \in Disk /\ d.task = disk.task /\ d.projections = disk.projections
        /\ d.products = disk.products /\ d.inbox[k].state = s
        /\ \A j \in EffectKey : j # k => d.inbox[j] = disk.inbox[j]
    <3> DEFINE r == [disk.inbox[k] EXCEPT !.state = s, !.token = 0]
               i == [disk.inbox EXCEPT ![k] = r]
    <3> DEFINE q == [disk.inbox[k] EXCEPT !.state = s]
    <3>a. q \in InboxRow /\ q.state = s
      BY <1>2, StoreIsTyped DEF InboxRow
    <3>b. r = [q EXCEPT !.token = 0] /\ 0 \in 0..MaxClaims
      BY TaskEffectsAssumption
    <3> HIDE DEF q
    <3>1. r \in InboxRow /\ r.state = s
      <4> HIDE DEF r
      <4> QED
        BY <3>a, <3>b DEF InboxRow
    <3> HIDE DEF r
    <3>2. /\ i \in [EffectKey -> InboxRow] /\ i[k] = r
          /\ \A j \in EffectKey : j # k => i[j] = disk.inbox[j]
      BY <1>2, <3>1, StoreIsTyped
    <3>3. d = [disk EXCEPT !.inbox = i]
      BY <1>2, StoreIsTyped DEF Disk, InboxRow, r
    <3> HIDE DEF i, d
    <3>4. /\ d \in Disk /\ d.task = disk.task /\ d.projections = disk.projections
          /\ d.products = disk.products /\ d.inbox = i
      BY <3>2, <3>3, StoreIsTyped DEF Disk, InboxRow
    <3>5. QED
      BY <3>1, <3>2, <3>4
  <2> HIDE DEF d
  <2>5. Rows(d) \subseteq Rows(disk)
    BY <2>2, <2>4 DEF Rows
  <2>6. \A j \in Rows(d) \cup d.products : disk.task[TaskOf[j]] # "none"
    BY <2>4, <2>5 DEF StoreInv, Refers
  <2>7. Shrinks(d, disk') /\ disk' \in Disk /\ Fits(disk') /\ Refers(disk') /\ DeletedStays'
    BY <1>1, <2>1, <2>4, <2>6, TabWriteKeeps
  <2>8. TaskEffectsTypeOK'
    BY <1>1, <1>2, <1>3, <2>1, <2>3, <2>7, StoreIsTyped DEF TaskEffectsTypeOK
  <2>9. ASSUME NEW j \in EffectKey, j # k PROVE KeepsRow(disk, disk', j)
    BY <2>4, <2>7, <2>9, StoreIsTyped DEF Shrinks, KeepsRow
  <2>10. disk'.inbox[k].state \in {s, "none"}
    BY <1>2, <2>4, <2>7, NoRowIsTyped DEF Shrinks, KeepsRow
  <2>11. ClaimsKnown'
    <3>1. ASSUME NEW e \in Client, NEW j \in EffectKey,
                 client'[e].key = j, disk'.inbox[j].state = "pending"
          PROVE  client'[e].token <= disk'.inbox[j].token
      <4>1. j # k
        BY <2>10, <3>1
      <4>2. disk'.inbox[j] = disk.inbox[j]
        BY <2>9, <3>1, <4>1, NoRowIsTyped DEF KeepsRow
      <4>3. client'[e] = client[e] \/ client'[e].token = 0
        BY <1>4, <3>1
      <4>4. CASE client'[e] = client[e]
        BY <3>1, <4>2, <4>4 DEF StoreInv, ClaimsKnown
      <4>5. CASE client'[e].token = 0
        BY <4>2, <4>5, StoreIsTyped DEF InboxRow
      <4>6. QED
        BY <4>3, <4>4, <4>5
    <3>2. QED
      BY <1>1, <1>3, <3>1 DEF StoreInv, ClaimsKnown
  <2>12. \A f \in finished : f.key # k
    BY <2>2 DEF StoreInv, FinishedStays
  <2>13. finished' \subseteq finished \cup {done} /\ (s # "completed" => finished' = finished)
    BY <2>1
  <2>14. ASSUME NEW f \in finished'
         PROVE  /\ disk'.inbox[f.key].state \in {"completed", "none"}
                /\ \/ projected[TaskOf[f.key]].deleted
                   \/ disk'.task[TaskOf[f.key]] = "visible" /\ disk'.inbox[f.key].state = "completed"
    <3>1. CASE f \in finished
      <4>1. f.key \in EffectKey /\ f.key # k /\ TaskOf[f.key] \in StoreTask
        BY <2>12, <3>1, StoreIsTyped
      <4>2. KeepsRow(disk, disk', f.key) /\ KeepsTask(disk, disk', TaskOf[f.key])
        BY <2>4, <2>7, <2>9, <4>1 DEF Shrinks, KeepsTask
      <4>3. QED
        BY <3>1, <4>1, <4>2, NoRowIsTyped DEF StoreInv, FinishedStays, KeepsRow, KeepsTask
    <3>2. CASE f = done /\ s = "completed"
      <4>1. f.key = k /\ TaskOf[k] \in StoreTask
        BY <1>2, <2>3, <3>2, StoreIsTyped
      <4>2. disk.task[TaskOf[k]] # "none"
        BY <1>2, <2>2 DEF StoreInv, Refers, Rows
      <4>3. ~projected[TaskOf[k]].deleted => disk.task[TaskOf[k]] = "visible"
        BY <4>1, <4>2, StoreIsTyped DEF StoreInv, DeletedStays, Visibility
      <4>4. KeepsRow(d, disk', k) /\ KeepsTask(d, disk', TaskOf[k])
        BY <1>2, <2>7, <4>1 DEF Shrinks
      <4>5. QED
        BY <2>4, <3>2, <4>1, <4>3, <4>4, NoRowIsTyped DEF KeepsRow, KeepsTask
    <3>3. QED
      BY <2>13, <3>1, <3>2
  <2>15. \A f, g \in finished' : f.key = g.key => f = g
    BY <2>3, <2>12, <2>13 DEF StoreInv, FinishedStays
  <2>16. ASSUME NEW f \in finished', NEW e \in Client, client'[e].key = f.key
         PROVE  client'[e].token <= f.by
    <3>1. f.key \in EffectKey /\ f.by \in Nat
      BY <1>2, <2>3, <2>13, StoreIsTyped
    <3>2. CASE client'[e].token = 0
      BY <3>1, <3>2
    <3>3. CASE client'[e] = client[e] /\ f \in finished
      BY <2>16, <3>3 DEF StoreInv, FinishedStays
    <3>4. CASE client'[e] = client[e] /\ f = done
      BY <1>2, <2>2, <2>3, <2>16, <3>4 DEF StoreInv, ClaimsKnown
    <3>5. QED
      BY <1>4, <2>13, <2>16, <3>1, <3>2, <3>3, <3>4
  <2>17. FinishedStays'
    BY <1>1, <2>14, <2>15, <2>16 DEF FinishedStays
  <2>18. QED
    BY <2>7, <2>8, <2>11, <2>17 DEF StoreInv
<1>7. QED
  BY <1>5, <1>6

LEMMA ForgetKeeps ==
    ASSUME StoreInv, NEW c \in Client, ForgetClaim(c)
    PROVE  StoreInv'
<1>1. client' = [client EXCEPT ![c] = NoClaim] /\ UNCHANGED <<disk, projected, claims, finished>>
  BY DEF ForgetClaim
<1>2. /\ client'[c] = NoClaim /\ \A e \in Client : e # c => client'[e] = client[e]
      /\ client' \in [Client -> [key : EffectKey \cup {"none"}, token : 0..MaxClaims, fence : Nat]]
  BY <1>1, StoreIsTyped, TaskEffectsAssumption DEF NoClaim
<1>3. \A e \in Client : client'[e] = client[e] \/ client'[e].token = 0
  BY <1>2 DEF NoClaim
<1>4. TaskEffectsTypeOK'
  BY <1>1, <1>2 DEF StoreInv, TaskEffectsTypeOK
<1>5. ClaimsKnown'
  BY <1>1, <1>2, <1>3, StoreIsTyped DEF StoreInv, ClaimsKnown, InboxRow, NoClaim
<1>6. FinishedStays'
  BY <1>1, <1>3, StoreIsTyped DEF StoreInv, FinishedStays
<1>7. (Fits(disk) /\ Refers(disk) /\ DeletedStays)'
  BY <1>1 DEF StoreInv, Fits, Refers, DeletedStays, StoredTasks, Rows, OutboxSize
<1>8. QED
  BY <1>4, <1>5, <1>6, <1>7 DEF StoreInv

LEMMA LapseKeeps ==
    ASSUME StoreInv, NEW k \in EffectKey, EffectLeaseLapses(k)
    PROVE  StoreInv'
<1> DEFINE r == [disk.inbox[k] EXCEPT !.lapsed = TRUE]
           i == [disk.inbox EXCEPT ![k] = r]
<1>1. disk' = [disk EXCEPT !.inbox[k].lapsed = TRUE] /\ UNCHANGED <<projected, client, claims, finished>>
  BY DEF EffectLeaseLapses
<1>2. r \in InboxRow /\ r.state = disk.inbox[k].state /\ r.token = disk.inbox[k].token
  BY StoreIsTyped DEF InboxRow
<1>3. disk' = [disk EXCEPT !.inbox = i]
  BY <1>1, StoreIsTyped DEF Disk
<1> HIDE DEF r
<1>4. /\ i \in [EffectKey -> InboxRow]
      /\ \A j \in EffectKey : i[j].state = disk.inbox[j].state /\ i[j].token = disk.inbox[j].token
  BY <1>2, StoreIsTyped
<1> HIDE DEF i
<1>5. /\ disk' \in Disk /\ disk'.task = disk.task /\ disk'.projections = disk.projections
      /\ disk'.products = disk.products /\ disk'.inbox = i
  BY <1>3, <1>4, StoreIsTyped DEF Disk, InboxRow
<1>6. Rows(disk') = Rows(disk) /\ StoredTasks(disk') = StoredTasks(disk) /\ OutboxSize(disk') = OutboxSize(disk)
  BY <1>4, <1>5 DEF Rows, StoredTasks, OutboxSize
<1>7. TaskEffectsTypeOK'
  BY <1>1, <1>5 DEF StoreInv, TaskEffectsTypeOK
<1>8. (Fits(disk) /\ Refers(disk) /\ DeletedStays)'
  <2>1. Fits(disk')
    BY <1>6 DEF StoreInv, Fits
  <2>2. Refers(disk')
    BY <1>5, <1>6 DEF StoreInv, Refers
  <2>3. DeletedStays'
    BY <1>1, <1>5 DEF StoreInv, DeletedStays
  <2>4. QED
    BY <2>1, <2>2, <2>3
<1>9. ClaimsKnown'
  BY <1>1, <1>4, <1>5 DEF StoreInv, ClaimsKnown
<1>10. FinishedStays'
  BY <1>1, <1>4, <1>5, StoreIsTyped DEF StoreInv, FinishedStays
<1>11. QED
  BY <1>7, <1>8, <1>9, <1>10 DEF StoreInv

LEMMA StoreStep ==
    ASSUME StoreInv, [TaskEffectsNext]_taskEffectVars
    PROVE  StoreInv'
<1>1. ASSUME NEW t \in StoreTask, NEW v \in Visibility, ProjectTask(t, v) PROVE StoreInv'
  BY <1>1, ProjectKeeps
<1>2. ASSUME NEW c \in Client, NEW k \in EffectKey, ClaimEffect(c, k) PROVE StoreInv'
  BY <1>2, ClaimEffectKeeps
<1>3. ASSUME NEW c \in Client, NEW s \in {"completed", "released"}, FinishEffect(c, s) PROVE StoreInv'
  BY <1>3, FinishKeeps
<1>4. ASSUME NEW c \in Client, ForgetClaim(c) PROVE StoreInv'
  BY <1>4, ForgetKeeps
<1>5. ASSUME NEW k \in EffectKey, EffectLeaseLapses(k) PROVE StoreInv'
  BY <1>5, LapseKeeps
<1>6. CASE UNCHANGED taskEffectVars
  BY <1>6 DEF StoreInv, taskEffectVars, TaskEffectsTypeOK, Fits, Refers, DeletedStays, ClaimsKnown,
              FinishedStays, StoredTasks, Rows, OutboxSize
<1>7. QED
  BY <1>1, <1>2, <1>3, <1>4, <1>5, <1>6 DEF TaskEffectsNext

\* The store fits, rows refer to tasks, a deletion stays, a completed effect
\* is never claimed again, and no tab holds a newer claim than the row.
THEOREM StoreInvariant == TaskEffectsSpec => []StoreInv
  BY StoreInvInit, StoreStep, PTL DEF TaskEffectsSpec

\* Tasks, rows, claims and what tabs were told keep values of their types.
THEOREM StoreTypes == TaskEffectsSpec => []TaskEffectsTypeOK
<1>1. StoreInv => TaskEffectsTypeOK
  BY DEF StoreInv
<1>2. QED
  BY <1>1, StoreInvariant, PTL

\* No sequence of projections, claims and compactions leaves a file that
\* readStoreDisk refuses: it fits, and every row finds its task.
THEOREM StoreIsReadable == TaskEffectsSpec => []DiskIsReadable
<1>1. StoreInv => DiskIsReadable
  BY DEF StoreInv, Refers, DiskIsReadable
<1>2. QED
  BY <1>1, StoreInvariant, PTL

\* An effect is completed once, by the tab that claimed it last, for any tabs,
\* tasks and capacities.
THEOREM EffectsDoneOnce == TaskEffectsSpec => []EffectDoneOnce
<1>1. StoreInv => EffectDoneOnce
  BY DEF StoreInv, FinishedStays, EffectDoneOnce
<1>2. QED
  BY <1>1, StoreInvariant, PTL

-----------------------------------------------------------------------------
(* The projection of the journal.                                          *)

Lifecycle == {"none", "QUEUED_LOCAL", "SUBMITTING", "SUBMISSION_UNCERTAIN", "ACCEPTED",
              "RUNNING", "TERMINAL"}
Verdict == {"none", "SUCCEEDED", "FAILED", "CANCELLED", "FAILED_OR_CANCELLED"}
StoredRow == [visibility : {"none", "visible", "hidden", "deleted"}, lifecycle : Lifecycle,
              outcome : Verdict, sync : {"ok", "retry", "uncertain", "conflict"},
              outputs : BOOLEAN, projected : 0..MaxVersion, version : Nat]
SourceRow == [state : {"absent", "queued", "pending", "unknown", "accepted", "succeeded", "failed",
                       "cancelled", "deleted"},
              receipt : BOOLEAN, official : {"none", "processing", "completed", "failed", "cancelled"},
              failing : BOOLEAN, outputs : BOOLEAN, hidden : BOOLEAN, version : 0..MaxVersion]
ProjectorRow == [pc : {"idle", "again", "swap"}, batch : {<<>>} \cup [ProductTask -> SourceRow],
                 todo : SUBSET ProductTask, task : ProductTask \cup {"none"}, seen : Nat, attempt : Nat]

\* Only a success has outputs, and what was never accepted has no official state.
Honest(x) ==
    /\ x.outputs => x.state = "succeeded"
    /\ x.state \in {"absent", "queued", "pending", "deleted"} => x.official = "none"

\* The verdict o and the outputs, seen at some time, are still those of record x.
Agrees(o, outputs, x) ==
    /\ o # "none" => x.state = "deleted" \/ o = FromJournal(x).outcome
    /\ outputs => x.outputs

ProjectionTypes ==
    /\ source \in [ProductTask -> SourceRow]
    /\ stored \in [ProductTask -> StoredRow]
    /\ projector \in [Projector -> ProjectorRow]
    /\ \A p \in Projector :
        /\ projector[p].todo # {} => projector[p].batch \in [ProductTask -> SourceRow]
        /\ projector[p].pc = "swap" => projector[p].task \in projector[p].todo

\* A task with a verdict is at its end, and one that is stored is to be seen or not.
Settled(y) ==
    /\ y.outcome # "none" => y.lifecycle = "TERMINAL"
    /\ y.version > 0 => y.visibility # "none"

ProjectionInv ==
    /\ ProjectionTypes
    /\ \A t \in ProductTask :
        Honest(source[t]) /\ Settled(stored[t]) /\ Agrees(stored[t].outcome, stored[t].outputs, source[t])
    /\ \A p \in Projector : \A t \in projector[p].todo :
        LET x == projector[p].batch[t]
        IN  Honest(x) /\ Agrees(FromJournal(x).outcome, x.outputs, source[t])

LEMMA FromJournalIsTyped ==
    ASSUME NEW x \in SourceRow
    PROVE  /\ FromJournal(x).lifecycle \in Lifecycle \ {"none"}
           /\ FromJournal(x).outcome \in Verdict
           /\ FromJournal(x).sync \in {"ok", "retry", "uncertain"}
           /\ FromJournal(x).outcome # "none" => FromJournal(x).lifecycle = "TERMINAL"
           /\ FromJournal(x).outcome # "none" <=> x.state \in {"succeeded", "cancelled", "failed"}
  BY DEF SourceRow, FromJournal, Lifecycle, Verdict

LEMMA RankIsTyped ==
    ASSUME NEW l \in Lifecycle
    PROVE  LifecycleRank(l) \in 0..5 /\ LifecycleRank("TERMINAL") = 5
  BY DEF Lifecycle, LifecycleRank

\* What moves the journal's record: it keeps a verdict and outputs.
LEMMA JournalMoveKeeps ==
    ASSUME ProjectionInv, NEW t \in ProductTask, JournalMoves(t)
    PROVE  \E y \in SourceRow :
             /\ source' = [source EXCEPT ![t] = y]
             /\ Honest(y)
             /\ \A o \in Verdict, b \in BOOLEAN : Agrees(o, b, source[t]) => Agrees(o, b, y)
<1> DEFINE x == source[t]
           v == x.version + 1
<1>1. x \in SourceRow /\ Honest(x) /\ x.version < MaxVersion /\ v \in 0..MaxVersion
  <2>1. x \in SourceRow /\ Honest(x) /\ x.version < MaxVersion
    BY DEF ProjectionInv, ProjectionTypes, JournalMoves
  <2>2. x.version \in 0..MaxVersion /\ MaxVersion \in Nat
    BY <2>1, ProjectionAssumption DEF SourceRow
  <2>3. QED
    BY <2>1, <2>2
<1> DEFINE To(y) == source' = [source EXCEPT ![t] = [y EXCEPT !.version = v]]
<1> HIDE DEF v
<1>2. ASSUME NEW y \in SourceRow, Honest(y), To(y), x.outputs => y.outputs,
             \/ x.state \notin {"succeeded", "cancelled", "failed", "deleted"}
             \/ y.state = x.state /\ y.official = x.official
      PROVE  \E z \in SourceRow :
               /\ source' = [source EXCEPT ![t] = z]
               /\ Honest(z)
               /\ \A o \in Verdict, b \in BOOLEAN : Agrees(o, b, source[t]) => Agrees(o, b, z)
  <2> DEFINE z == [y EXCEPT !.version = v]
  <2>1. /\ z \in SourceRow /\ z.state = y.state /\ z.official = y.official /\ z.outputs = y.outputs
    BY <1>1, <1>2 DEF SourceRow
  <2>2. source' = [source EXCEPT ![t] = z]
    BY <1>2
  <2> HIDE DEF z, x
  <2>3. Honest(z)
    BY <1>2, <2>1 DEF Honest
  <2>4. ASSUME NEW o \in Verdict, NEW b \in BOOLEAN, Agrees(o, b, x) PROVE Agrees(o, b, z)
    <3>1. CASE x.state \in {"succeeded", "cancelled", "failed", "deleted"}
      <4>1. z.state = x.state /\ z.official = x.official
        BY <1>2, <2>1, <3>1
      <4>2. FromJournal(z).outcome = FromJournal(x).outcome
        BY <4>1 DEF FromJournal
      <4>3. QED
        BY <1>2, <2>1, <2>4, <4>1, <4>2 DEF Agrees
    <3>2. CASE x.state \notin {"succeeded", "cancelled", "failed", "deleted"}
      <4>1. FromJournal(x).outcome = "none"
        BY <1>1, <3>2, FromJournalIsTyped
      <4>2. QED
        BY <1>2, <2>1, <2>4, <3>2, <4>1 DEF Agrees
    <3>3. QED
      BY <3>1, <3>2
  <2>5. QED
    BY <2>1, <2>2, <2>3, <2>4 DEF x
<1>3. CASE x.state = "absent" /\ To([x EXCEPT !.state = "queued"])
  BY <1>1, <1>2, <1>3 DEF SourceRow, Honest
<1>4. CASE /\ x.state = "queued"
           /\ \E s \in {"queued", "pending", "failed", "cancelled", "deleted"} : To([x EXCEPT !.state = s])
  BY <1>1, <1>2, <1>4 DEF SourceRow, Honest
<1>5. CASE x.state = "pending" /\ \E s \in {"pending", "failed", "unknown"} : To([x EXCEPT !.state = s])
  BY <1>1, <1>2, <1>5 DEF SourceRow, Honest
<1>6. CASE x.state = "pending" /\ To([x EXCEPT !.state = "accepted", !.receipt = TRUE])
  BY <1>1, <1>2, <1>6 DEF SourceRow, Honest
<1>7. CASE x.state = "accepted" /\ To([x EXCEPT !.official = "processing", !.failing = FALSE])
  BY <1>1, <1>2, <1>7 DEF SourceRow, Honest
<1>8. CASE x.state = "accepted" /\ To([x EXCEPT !.failing = TRUE])
  BY <1>1, <1>2, <1>8 DEF SourceRow, Honest
<1>9. CASE /\ x.state = "accepted"
           /\ \E kept \in BOOLEAN : To([x EXCEPT !.state = "succeeded", !.official = "completed",
                                               !.failing = ~kept, !.outputs = kept])
  BY <1>1, <1>2, <1>9 DEF SourceRow, Honest
<1>10. CASE /\ x.state = "accepted"
            /\ \E s \in {"failed", "cancelled"} : To([x EXCEPT !.state = s, !.official = s, !.failing = FALSE])
  BY <1>1, <1>2, <1>10 DEF SourceRow, Honest
<1>11. CASE x.state = "succeeded" /\ To([x EXCEPT !.outputs = TRUE, !.failing = FALSE])
  BY <1>1, <1>2, <1>11 DEF SourceRow, Honest
<1>12. CASE x.state \notin {"absent", "queued", "deleted"} /\ To([x EXCEPT !.hidden = TRUE])
  BY <1>1, <1>2, <1>12 DEF SourceRow, Honest
<1>13. \/ x.state = "absent" /\ To([x EXCEPT !.state = "queued"])
       \/ /\ x.state = "queued"
          /\ \E s \in {"queued", "pending", "failed", "cancelled", "deleted"} : To([x EXCEPT !.state = s])
       \/ x.state = "pending" /\ \E s \in {"pending", "failed", "unknown"} : To([x EXCEPT !.state = s])
       \/ x.state = "pending" /\ To([x EXCEPT !.state = "accepted", !.receipt = TRUE])
       \/ x.state = "accepted" /\ To([x EXCEPT !.official = "processing", !.failing = FALSE])
       \/ x.state = "accepted" /\ To([x EXCEPT !.failing = TRUE])
       \/ /\ x.state = "accepted"
          /\ \E kept \in BOOLEAN : To([x EXCEPT !.state = "succeeded", !.official = "completed",
                                              !.failing = ~kept, !.outputs = kept])
       \/ /\ x.state = "accepted"
          /\ \E s \in {"failed", "cancelled"} : To([x EXCEPT !.state = s, !.official = s, !.failing = FALSE])
       \/ x.state = "succeeded" /\ To([x EXCEPT !.outputs = TRUE, !.failing = FALSE])
       \/ x.state \notin {"absent", "queued", "deleted"} /\ To([x EXCEPT !.hidden = TRUE])
  BY DEF JournalMoves, v
<1>14. QED
  BY <1>3, <1>4, <1>5, <1>6, <1>7, <1>8, <1>9, <1>10, <1>11, <1>12, <1>13

LEMMA MergedAdvances ==
    ASSUME NEW y \in StoredRow, Settled(y), NEW x \in SourceRow
    PROVE  LET m == Merged(y, FromJournal(x))
           IN  /\ m.lifecycle \in Lifecycle /\ m.outcome \in Verdict
               /\ m.sync \in {"ok", "retry", "uncertain", "conflict"}
               /\ m.outcome # "none" => m.lifecycle = "TERMINAL"
               /\ LifecycleRank(m.lifecycle) >= LifecycleRank(y.lifecycle)
               /\ y.outcome # "none" => m.outcome = y.outcome
               /\ m.outcome \in {y.outcome, FromJournal(x).outcome}
<1> DEFINE j == FromJournal(x)
           m == Merged(y, j)
           over == y.lifecycle = "TERMINAL"
           behind == LifecycleRank(j.lifecycle) < LifecycleRank(y.lifecycle)
           contradicts == over /\ j.lifecycle = "TERMINAL" /\ j.outcome # y.outcome
<1>1. /\ j.lifecycle \in Lifecycle /\ j.outcome \in Verdict /\ j.sync \in {"ok", "retry", "uncertain"}
      /\ j.outcome # "none" => j.lifecycle = "TERMINAL"
  BY FromJournalIsTyped
<1>2. /\ y.lifecycle \in Lifecycle /\ y.outcome \in Verdict
      /\ y.outcome # "none" => y.lifecycle = "TERMINAL"
  BY DEF StoredRow, Settled
<1>3. /\ m.lifecycle = IF over \/ behind THEN y.lifecycle ELSE j.lifecycle
      /\ m.outcome = IF over \/ behind THEN y.outcome ELSE j.outcome
      /\ m.sync = IF y.sync = "conflict" \/ contradicts THEN "conflict" ELSE j.sync
  BY DEF Merged
<1>4. LifecycleRank(j.lifecycle) \in Nat /\ LifecycleRank(y.lifecycle) \in Nat
  BY <1>1, <1>2, RankIsTyped
<1> HIDE DEF m, j, contradicts
<1>5. LifecycleRank(m.lifecycle) >= LifecycleRank(y.lifecycle)
  BY <1>3, <1>4
<1>6. y.outcome # "none" => m.outcome = y.outcome
  BY <1>2, <1>3
<1>7. /\ m.lifecycle \in Lifecycle /\ m.outcome \in Verdict
      /\ m.sync \in {"ok", "retry", "uncertain", "conflict"}
      /\ m.outcome # "none" => m.lifecycle = "TERMINAL"
      /\ m.outcome \in {y.outcome, j.outcome}
  BY <1>1, <1>2, <1>3
<1>8. QED
  BY <1>5, <1>6, <1>7 DEF m, j

\* One projection never takes anything back, whatever record it projects.
LEMMA ProjectedAdvances ==
    ASSUME NEW x \in SourceRow, Honest(x), NEW y \in StoredRow, Settled(y)
    PROVE  LET z == Projected(x, y)
           IN  /\ z \in StoredRow /\ z.version = y.version /\ z.projected = x.version
               /\ z.visibility # "none"
               /\ z.outcome # "none" => z.lifecycle = "TERMINAL"
               /\ LifecycleRank(z.lifecycle) >= LifecycleRank(y.lifecycle)
               /\ y.outcome # "none" => z.outcome = y.outcome
               /\ z.outcome \in {y.outcome, FromJournal(x).outcome}
               /\ y.visibility \in {"hidden", "deleted"} => z.visibility \in {"hidden", "deleted"}
               /\ y.outputs => z.outputs
               /\ z.outputs => y.outputs \/ x.outputs
<1> DEFINE z == Projected(x, y)
           row == IF x.state = "deleted" THEN Undeleted(x) ELSE x
           m == Merged(y, FromJournal(row))
<1>1. row \in SourceRow /\ FromJournal(row).outcome = FromJournal(x).outcome
  <2>1. CASE x.state = "deleted"
    <3> DEFINE s == CASE x.official = "completed" -> "succeeded"
                      [] x.official = "failed" -> "failed"
                      [] x.official = "cancelled" -> "cancelled"
                      [] OTHER -> IF x.receipt THEN "accepted" ELSE "queued"
    <3>1. s \in {"accepted", "queued"}
      BY <2>1 DEF Honest
    <3>2. row = [x EXCEPT !.state = s]
      BY <2>1 DEF Undeleted
    <3> HIDE DEF s, row
    <3>3. row \in SourceRow /\ row.state \in {"accepted", "queued"}
      BY <3>1, <3>2 DEF SourceRow
    <3>4. QED
      BY <2>1, <3>3, FromJournalIsTyped
  <2>2. QED
    BY <2>1
<1> HIDE DEF row
<1>2. /\ m.lifecycle \in Lifecycle /\ m.outcome \in Verdict
      /\ m.sync \in {"ok", "retry", "uncertain", "conflict"}
      /\ m.outcome # "none" => m.lifecycle = "TERMINAL"
      /\ LifecycleRank(m.lifecycle) >= LifecycleRank(y.lifecycle)
      /\ y.outcome # "none" => m.outcome = y.outcome
      /\ m.outcome \in {y.outcome, FromJournal(x).outcome}
  BY <1>1, MergedAdvances
<1>3. CASE x.state = "deleted" /\ y.version > 0
  <2>1. z = [y EXCEPT !.visibility = "deleted", !.projected = x.version]
    BY <1>3 DEF Projected
  <2> DEFINE w == [y EXCEPT !.visibility = "deleted"]
  <2>2. /\ w \in StoredRow /\ w.visibility = "deleted" /\ w.lifecycle = y.lifecycle
        /\ w.outcome = y.outcome /\ w.outputs = y.outputs /\ w.version = y.version
    BY DEF StoredRow
  <2>3. z = [w EXCEPT !.projected = x.version] /\ x.version \in 0..MaxVersion
    BY <2>1 DEF SourceRow
  <2> HIDE DEF w, z
  <2>4. /\ z \in StoredRow /\ z.visibility = "deleted" /\ z.lifecycle = y.lifecycle
        /\ z.outcome = y.outcome /\ z.outputs = y.outputs /\ z.version = y.version
        /\ z.projected = x.version
    BY <2>2, <2>3 DEF StoredRow
  <2>5. LifecycleRank(y.lifecycle) \in Nat
    BY RankIsTyped DEF StoredRow
  <2>6. QED
    BY <2>4, <2>5 DEF Settled, z
<1>4. CASE ~(x.state = "deleted" /\ y.version > 0)
  <2> DEFINE v == IF x.state = "deleted" \/ y.visibility = "deleted" THEN "deleted"
                  ELSE IF y.visibility = "hidden" \/ x.hidden THEN "hidden" ELSE "visible"
  <2>1. z = [visibility |-> v, lifecycle |-> m.lifecycle, outcome |-> m.outcome, sync |-> m.sync,
             outputs |-> y.outputs \/ x.outputs, projected |-> x.version, version |-> y.version]
    BY <1>4 DEF Projected, row
  <2>2. /\ v \in {"visible", "hidden", "deleted"}
        /\ y.visibility \in {"hidden", "deleted"} => v \in {"hidden", "deleted"}
    OBVIOUS
  <2>3. /\ x.version \in 0..MaxVersion /\ y.version \in Nat
        /\ y.outputs \in BOOLEAN /\ x.outputs \in BOOLEAN
    BY DEF SourceRow, StoredRow
  <2> HIDE DEF z, v, m
  <2>4. z \in StoredRow
    BY <1>2, <2>1, <2>2, <2>3 DEF StoredRow
  <2>5. /\ z.visibility = v /\ z.lifecycle = m.lifecycle /\ z.outcome = m.outcome
        /\ z.outputs = (y.outputs \/ x.outputs) /\ z.projected = x.version /\ z.version = y.version
    BY <2>1
  <2>6. /\ z.outputs => y.outputs \/ x.outputs
        /\ y.outputs => z.outputs
    BY <2>3, <2>5
  <2>7. /\ z.visibility # "none"
        /\ y.visibility \in {"hidden", "deleted"} => z.visibility \in {"hidden", "deleted"}
    BY <2>2, <2>5
  <2>8. /\ z.outcome # "none" => z.lifecycle = "TERMINAL"
        /\ LifecycleRank(z.lifecycle) >= LifecycleRank(y.lifecycle)
        /\ y.outcome # "none" => z.outcome = y.outcome
        /\ z.outcome \in {y.outcome, FromJournal(x).outcome}
    BY <1>2, <2>5
  <2>9. QED
    BY <2>4, <2>5, <2>6, <2>7, <2>8 DEF z
<1>5. QED
  BY <1>3, <1>4

-----------------------------------------------------------------------------
(* The steps of a projector.                                               *)

LEMMA ProjectionIsTyped ==
    ASSUME ProjectionInv, NEW p \in Projector
    PROVE  /\ projector \in [Projector -> ProjectorRow]
           /\ projector[p] \in ProjectorRow
           /\ projector[p].todo \in SUBSET ProductTask
           /\ Resting \in ProjectorRow /\ Resting.todo = {} /\ Resting.pc = "idle"
           /\ \A t \in ProductTask : stored[t] \in StoredRow /\ source[t] \in SourceRow
  BY DEF ProjectionInv, ProjectionTypes, ProjectorRow, Resting

LEMMA WithoutIsTyped ==
    ASSUME NEW b \in ProjectorRow, NEW t
    PROVE  /\ Without(b, t) \in ProjectorRow
           /\ Without(b, t).pc = "idle" /\ Without(b, t).todo \subseteq b.todo
           /\ Without(b, t).todo # {} => Without(b, t).batch = b.batch
<1>1. CASE b.todo = {t}
  BY <1>1 DEF Without, Resting, ProjectorRow
<1>2. CASE b.todo # {t}
  <2> DEFINE x == [b EXCEPT !.pc = "idle"]
             y == [x EXCEPT !.todo = @ \ {t}]
             z == [y EXCEPT !.task = "none"]
             w == [z EXCEPT !.seen = 0]
  <2>1. x \in ProjectorRow /\ x.pc = "idle" /\ x.batch = b.batch /\ x.todo = b.todo
    BY DEF ProjectorRow
  <2>2. Without(b, t) = [w EXCEPT !.attempt = 0]
    BY <1>2 DEF Without
  <2> HIDE DEF x
  <2>3. y \in ProjectorRow /\ y.pc = "idle" /\ y.batch = b.batch /\ y.todo \subseteq b.todo
    BY <2>1 DEF ProjectorRow
  <2> HIDE DEF y
  <2>4. z \in ProjectorRow /\ z.pc = "idle" /\ z.batch = b.batch /\ z.todo = y.todo
    BY <2>3 DEF ProjectorRow
  <2> HIDE DEF z
  <2>5. w \in ProjectorRow /\ w.pc = "idle" /\ w.batch = b.batch /\ w.todo = y.todo
    BY <2>4 DEF ProjectorRow
  <2> HIDE DEF w
  <2>6. QED
    BY <2>2, <2>3, <2>5 DEF ProjectorRow
<1>3. QED
  BY <1>1, <1>2

\* A step of the projector that only changes what it is doing.
LEMMA ProjectorKeeps ==
    ASSUME ProjectionInv, NEW p \in Projector, NEW b \in ProjectorRow,
           projector' = [projector EXCEPT ![p] = b], UNCHANGED source,
           b.todo # {} => b.batch = projector[p].batch, b.todo \subseteq projector[p].todo,
           b.pc = "swap" => b.task \in b.todo,
           stored' \in [ProductTask -> StoredRow],
           \A t \in ProductTask : /\ Settled(stored'[t])
                                  /\ Agrees(stored'[t].outcome, stored'[t].outputs, source[t])
    PROVE  ProjectionInv'
<1>1. projector' \in [Projector -> ProjectorRow] /\ projector'[p] = b
      /\ \A q \in Projector : q # p => projector'[q] = projector[q]
  BY ProjectionIsTyped
<1>2. \A q \in Projector :
        /\ projector'[q].todo # {} => projector'[q].batch \in [ProductTask -> SourceRow]
        /\ projector'[q].pc = "swap" => projector'[q].task \in projector'[q].todo
        /\ projector'[q].todo \subseteq projector[q].todo
        /\ projector'[q].todo # {} => projector'[q].batch = projector[q].batch
  BY <1>1 DEF ProjectionInv, ProjectionTypes
<1>3. ProjectionTypes'
  BY <1>1, <1>2 DEF ProjectionInv, ProjectionTypes
<1>4. ASSUME NEW q \in Projector, NEW t \in projector'[q].todo
      PROVE  LET x == projector'[q].batch[t]
             IN  Honest(x) /\ Agrees(FromJournal(x).outcome, x.outputs, source'[t])
  BY <1>2, <1>4 DEF ProjectionInv
<1>5. \A t \in ProductTask : /\ Honest(source[t])' /\ Settled(stored[t])'
                             /\ Agrees(stored[t].outcome, stored[t].outputs, source[t])'
  BY DEF ProjectionInv, Honest, Settled, Agrees, FromJournal
<1>6. QED
  BY <1>3, <1>4, <1>5 DEF ProjectionInv

LEMMA ProjectionInvInit == ProjectionInit => ProjectionInv
  BY ProjectionAssumption
  DEF ProjectionInit, ProjectionInv, ProjectionTypes, NoSource, NotStored, Resting, SourceRow,
      StoredRow, ProjectorRow, Lifecycle, Verdict, Honest, Settled, Agrees

\* What a step makes of one task of the store.
MovesOn(y, z) ==
    y.version > 0 /\ z.version > 0 =>
        /\ LifecycleRank(z.lifecycle) >= LifecycleRank(y.lifecycle)
        /\ y.outcome # "none" => z.outcome = y.outcome
        /\ y.visibility # "visible" => z.visibility # "visible"
        /\ y.outputs => z.outputs
        /\ z.projected >= y.projected

LEMMA AdvancesByStaying ==
    ASSUME NEW y \in StoredRow
    PROVE  MovesOn(y, y)
<1>1. LifecycleRank(y.lifecycle) \in Nat /\ y.projected \in Nat
  BY RankIsTyped, ProjectionAssumption DEF StoredRow
<1>2. QED
  BY <1>1 DEF MovesOn

LEMMA JournalMovesKeeps ==
    ASSUME ProjectionInv, NEW t \in ProductTask, JournalMoves(t)
    PROVE  ProjectionInv' /\ UNCHANGED stored
<1>1. PICK y \in SourceRow :
        /\ source' = [source EXCEPT ![t] = y]
        /\ Honest(y)
        /\ \A o \in Verdict, b \in BOOLEAN : Agrees(o, b, source[t]) => Agrees(o, b, y)
  BY JournalMoveKeeps
<1>2. UNCHANGED <<stored, projector>>
  BY DEF JournalMoves
<1>3. /\ source' \in [ProductTask -> SourceRow] /\ source'[t] = y
      /\ \A u \in ProductTask : u # t => source'[u] = source[u]
  BY <1>1 DEF ProjectionInv, ProjectionTypes
<1>4. \A u \in ProductTask, o \in Verdict, b \in BOOLEAN :
        Agrees(o, b, source[u]) => Agrees(o, b, source'[u])
  BY <1>1, <1>3
<1>5. \A u \in ProductTask : stored[u].outcome \in Verdict /\ stored[u].outputs \in BOOLEAN
  BY DEF ProjectionInv, ProjectionTypes, StoredRow
<1>6. ProjectionTypes'
  BY <1>2, <1>3 DEF ProjectionInv, ProjectionTypes
<1>7. \A u \in ProductTask : /\ Honest(source'[u]) /\ Settled(stored'[u])
                             /\ Agrees(stored'[u].outcome, stored'[u].outputs, source'[u])
  BY <1>1, <1>2, <1>3, <1>4, <1>5 DEF ProjectionInv
<1>8. ASSUME NEW p \in Projector, NEW u \in projector'[p].todo
      PROVE  LET x == projector'[p].batch[u]
             IN  Honest(x) /\ Agrees(FromJournal(x).outcome, x.outputs, source'[u])
  <2> DEFINE x == projector[p].batch[u]
  <2>1. u \in ProductTask /\ x \in SourceRow
    BY <1>2, <1>8, ProjectionIsTyped DEF ProjectionInv, ProjectionTypes
  <2>2. FromJournal(x).outcome \in Verdict /\ x.outputs \in BOOLEAN
    BY <2>1, FromJournalIsTyped DEF SourceRow
  <2>3. Honest(x) /\ Agrees(FromJournal(x).outcome, x.outputs, source[u])
    BY <1>2, <1>8 DEF ProjectionInv
  <2> HIDE DEF x
  <2>4. Agrees(FromJournal(x).outcome, x.outputs, source'[u])
    BY <1>4, <2>1, <2>2, <2>3
  <2>5. QED
    BY <1>2, <2>3, <2>4 DEF x
<1>9. QED
  BY <1>2, <1>6, <1>7, <1>8 DEF ProjectionInv

\* A key is used again only where nothing was made of it: a record that is
\* pending has no verdict and no outputs, and neither has what was read of it.
LEMMA IntentTakenAwayKeeps ==
    ASSUME ProjectionInv, NEW t \in ProductTask, IntentTakenAway(t)
    PROVE  ProjectionInv' /\ UNCHANGED stored
<1>1. source[t].state = "pending" /\ source' = [source EXCEPT ![t] = NoSource] /\ UNCHANGED <<stored, projector>>
  BY DEF IntentTakenAway
<1>2. NoSource \in SourceRow /\ Honest(NoSource)
  BY ProjectionAssumption DEF NoSource, SourceRow, Honest
<1>3. /\ source' \in [ProductTask -> SourceRow] /\ source'[t] = NoSource
      /\ \A u \in ProductTask : u # t => source'[u] = source[u]
  BY <1>1, <1>2 DEF ProjectionInv, ProjectionTypes
<1>4. source[t] \in SourceRow /\ Honest(source[t])
  BY DEF ProjectionInv, ProjectionTypes
<1>5. FromJournal(source[t]).outcome = "none" /\ source[t].outputs = FALSE
  BY <1>1, <1>4, FromJournalIsTyped DEF Honest, SourceRow
<1>6. ASSUME NEW o, NEW b, NEW u \in ProductTask, Agrees(o, b, source[u]), b \in BOOLEAN
      PROVE  Agrees(o, b, source'[u])
  <2>1. CASE u = t
    <3>1. o = "none" /\ b = FALSE
      BY <1>1, <1>5, <1>6, <2>1 DEF Agrees
    <3>2. QED
      BY <3>1 DEF Agrees
  <2>2. QED
    BY <1>3, <1>6, <2>1
<1>7. \A u \in ProductTask : stored[u].outputs \in BOOLEAN
  BY DEF ProjectionInv, ProjectionTypes, StoredRow
<1>8. ProjectionTypes'
  BY <1>1, <1>3 DEF ProjectionInv, ProjectionTypes
<1>9. \A u \in ProductTask : /\ Honest(source'[u]) /\ Settled(stored'[u])
                             /\ Agrees(stored'[u].outcome, stored'[u].outputs, source'[u])
  BY <1>1, <1>2, <1>3, <1>6, <1>7 DEF ProjectionInv
<1>10. ASSUME NEW p \in Projector, NEW u \in projector'[p].todo
       PROVE  LET x == projector'[p].batch[u]
              IN  Honest(x) /\ Agrees(FromJournal(x).outcome, x.outputs, source'[u])
  <2> DEFINE x == projector[p].batch[u]
  <2>1. u \in ProductTask /\ x \in SourceRow /\ x.outputs \in BOOLEAN
    BY <1>1, <1>10, ProjectionIsTyped DEF ProjectionInv, ProjectionTypes, SourceRow
  <2>2. Honest(x) /\ Agrees(FromJournal(x).outcome, x.outputs, source[u])
    BY <1>1, <1>10 DEF ProjectionInv
  <2> HIDE DEF x
  <2>3. Agrees(FromJournal(x).outcome, x.outputs, source'[u])
    BY <1>6, <2>1, <2>2
  <2>4. QED
    BY <1>1, <2>2, <2>3 DEF x
<1>11. QED
  BY <1>1, <1>8, <1>9, <1>10 DEF ProjectionInv

LEMMA ReadJournalKeeps ==
    ASSUME ProjectionInv, NEW p \in Projector, ReadJournal(p)
    PROVE  ProjectionInv' /\ UNCHANGED stored
<1> DEFINE b == IF Present(source) = {} THEN Resting
                ELSE [Resting EXCEPT !.batch = source, !.todo = Present(source)]
<1>1. projector' = [projector EXCEPT ![p] = b] /\ UNCHANGED <<source, stored>>
  BY DEF ReadJournal
<1>2. /\ b \in ProjectorRow /\ b.pc = "idle"
      /\ b.todo # {} => b.batch = source
  <2>1. Present(source) \in SUBSET ProductTask /\ source \in [ProductTask -> SourceRow]
    BY DEF Present, ProjectionInv, ProjectionTypes
  <2> DEFINE z == [Resting EXCEPT !.batch = source]
  <2>2. z \in ProjectorRow /\ z.pc = "idle" /\ z.batch = source
    BY <2>1 DEF Resting, ProjectorRow
  <2>3. b = IF Present(source) = {} THEN Resting ELSE [z EXCEPT !.todo = Present(source)]
    OBVIOUS
  <2> HIDE DEF z, b
  <2>4. QED
    BY <2>1, <2>2, <2>3, ProjectionIsTyped DEF ProjectorRow
<1> HIDE DEF b
<1>3. projector' \in [Projector -> ProjectorRow] /\ projector'[p] = b
      /\ \A q \in Projector : q # p => projector'[q] = projector[q]
  BY <1>1, <1>2, ProjectionIsTyped
<1>4. ProjectionTypes'
  BY <1>1, <1>2, <1>3 DEF ProjectionInv, ProjectionTypes
<1>5. ASSUME NEW q \in Projector, NEW t \in projector'[q].todo
      PROVE  LET x == projector'[q].batch[t]
             IN  Honest(x) /\ Agrees(FromJournal(x).outcome, x.outputs, source'[t])
  <2>1. CASE q = p
    <3>1. t \in ProductTask /\ projector'[q].batch[t] = source[t] /\ source'[t] = source[t]
      BY <1>1, <1>2, <1>3, <1>5, <2>1 DEF ProjectorRow
    <3>2. Honest(source[t]) /\ Agrees(FromJournal(source[t]).outcome, source[t].outputs, source[t])
      BY <3>1 DEF ProjectionInv, Agrees
    <3>3. QED
      BY <3>1, <3>2
  <2>2. CASE q # p
    BY <1>1, <1>3, <1>5, <2>2 DEF ProjectionInv
  <2>3. QED
    BY <2>1, <2>2
<1>6. \A t \in ProductTask : /\ Honest(source'[t]) /\ Settled(stored'[t])
                             /\ Agrees(stored'[t].outcome, stored'[t].outputs, source'[t])
  BY <1>1 DEF ProjectionInv
<1>7. QED
  BY <1>1, <1>4, <1>5, <1>6 DEF ProjectionInv

LEMMA ReadTaskKeeps ==
    ASSUME ProjectionInv, NEW p \in Projector, NEW t \in ProductTask, ReadTask(p, t)
    PROVE  ProjectionInv' /\ UNCHANGED stored
<1> DEFINE b == projector[p]
           w == [b EXCEPT !.pc = "swap", !.task = t, !.seen = stored[t].version, !.attempt = @ + 1]
           n == IF stored[t].projected >= b.batch[t].version THEN Without(b, t) ELSE w
<1>1. /\ projector' = [projector EXCEPT ![p] = n] /\ UNCHANGED <<source, stored>>
      /\ t \in b.todo
  BY DEF ReadTask
<1>2. b \in ProjectorRow /\ stored[t].version \in Nat
  BY ProjectionIsTyped DEF StoredRow
<1> HIDE DEF b
<1>3. w \in ProjectorRow /\ w.batch = b.batch /\ w.todo = b.todo /\ w.pc = "swap" /\ w.task = t
  <2> DEFINE x == [b EXCEPT !.pc = "swap"]
             y == [x EXCEPT !.task = t]
             z == [y EXCEPT !.seen = stored[t].version]
  <2>1. x \in ProjectorRow /\ x.pc = "swap" /\ x.batch = b.batch /\ x.todo = b.todo
    BY <1>2 DEF ProjectorRow
  <2>2. w = [z EXCEPT !.attempt = @ + 1]
    OBVIOUS
  <2> HIDE DEF x, w
  <2>3. y \in ProjectorRow /\ y.pc = "swap" /\ y.task = t /\ y.batch = b.batch /\ y.todo = b.todo
    BY <2>1 DEF ProjectorRow
  <2> HIDE DEF y
  <2>4. /\ z \in ProjectorRow /\ z.pc = "swap" /\ z.task = t /\ z.batch = b.batch /\ z.todo = b.todo
        /\ z.attempt \in Nat
    BY <1>2, <2>3 DEF ProjectorRow
  <2> HIDE DEF z
  <2>5. QED
    BY <2>2, <2>4 DEF ProjectorRow
<1> HIDE DEF w
<1>4. /\ n \in ProjectorRow /\ n.todo \subseteq b.todo
      /\ n.todo # {} => n.batch = b.batch
      /\ n.pc = "swap" => n.task \in n.todo
  BY <1>1, <1>2, <1>3, WithoutIsTyped
<1> HIDE DEF n
<1>5. /\ stored' \in [ProductTask -> StoredRow]
      /\ \A u \in ProductTask : /\ Settled(stored'[u])
                                 /\ Agrees(stored'[u].outcome, stored'[u].outputs, source[u])
  BY <1>1 DEF ProjectionInv, ProjectionTypes
<1>6. QED
  BY <1>1, <1>4, <1>5, ProjectorKeeps DEF b

LEMMA SwapTaskKeeps ==
    ASSUME ProjectionInv, NEW p \in Projector, SwapTask(p)
    PROVE  ProjectionInv' /\ \A t \in ProductTask : MovesOn(stored[t], stored'[t])
<1> DEFINE b == projector[p]
           t == b.task
           x == b.batch[t]
           y == stored[t]
           next == Projected(x, y)
           z == [next EXCEPT !.version = y.version + 1]
           accepted == Unconflicted(p) /\ Projectable(y, z)
           again == [b EXCEPT !.pc = "again", !.seen = 0]
           n == IF accepted THEN Without(b, t)
                ELSE IF ~Unconflicted(p) /\ b.attempt < 4 THEN again ELSE Resting
<1>1. /\ stored' = IF accepted THEN [stored EXCEPT ![t] = z] ELSE stored
      /\ projector' = [projector EXCEPT ![p] = n]
      /\ UNCHANGED source
      /\ b.pc = "swap"
  BY DEF SwapTask, NextOf
<1>2. /\ b \in ProjectorRow /\ t \in b.todo /\ t \in ProductTask
      /\ x \in SourceRow /\ Honest(x) /\ Agrees(FromJournal(x).outcome, x.outputs, source[t])
      /\ y \in StoredRow /\ Settled(y) /\ Agrees(y.outcome, y.outputs, source[t])
  BY <1>1, ProjectionIsTyped DEF ProjectionInv, ProjectionTypes
<1>3. /\ next \in StoredRow /\ next.version = y.version /\ next.projected = x.version
      /\ next.visibility # "none"
      /\ next.outcome # "none" => next.lifecycle = "TERMINAL"
      /\ LifecycleRank(next.lifecycle) >= LifecycleRank(y.lifecycle)
      /\ y.outcome # "none" => next.outcome = y.outcome
      /\ next.outcome \in {y.outcome, FromJournal(x).outcome}
      /\ y.visibility \in {"hidden", "deleted"} => next.visibility \in {"hidden", "deleted"}
      /\ y.outputs => next.outputs
      /\ next.outputs => y.outputs \/ x.outputs
  BY <1>2, ProjectedAdvances
<1> HIDE DEF next
<1>4. /\ z \in StoredRow /\ z.version = y.version + 1 /\ z.projected = next.projected
      /\ z.visibility = next.visibility /\ z.lifecycle = next.lifecycle
      /\ z.outcome = next.outcome /\ z.outputs = next.outputs
  <2>1. y.version + 1 \in Nat
    BY <1>2 DEF StoredRow
  <2> HIDE DEF y
  <2>2. QED
    BY <1>3, <2>1 DEF StoredRow
<1> HIDE DEF z
<1>5. Settled(z) /\ Agrees(z.outcome, z.outputs, source[t])
  BY <1>2, <1>3, <1>4 DEF Settled, Agrees
<1>6. accepted => MovesOn(y, z)
  <2>1. y.projected \in Nat /\ z.projected \in Nat /\ y.version \in Nat
    BY <1>2, <1>4, ProjectionAssumption DEF StoredRow
  <2>2. accepted /\ y.version > 0 => z.projected >= y.projected
    BY <2>1 DEF Projectable
  <2>3. y.version > 0 /\ y.visibility # "visible" => y.visibility \in {"hidden", "deleted"}
    BY <1>2 DEF Settled, StoredRow
  <2> HIDE DEF accepted, y
  <2>4. QED
    BY <1>3, <1>4, <2>2, <2>3 DEF MovesOn
<1>7. again \in ProjectorRow /\ again.batch = b.batch /\ again.todo = b.todo /\ again.pc = "again"
  BY <1>2 DEF ProjectorRow
<1> HIDE DEF again, accepted, b, x
<1>8. /\ n \in ProjectorRow /\ n.todo \subseteq b.todo
      /\ n.todo # {} => n.batch = b.batch
      /\ n.pc # "swap"
  BY <1>2, <1>7, WithoutIsTyped, ProjectionIsTyped
<1> HIDE DEF n
<1>9. /\ stored' \in [ProductTask -> StoredRow]
      /\ \A u \in ProductTask : stored'[u] = stored[u] \/ (u = t /\ accepted /\ stored'[u] = z)
  <2>1. stored \in [ProductTask -> StoredRow]
    BY DEF ProjectionInv, ProjectionTypes
  <2>2. (accepted /\ stored' = [stored EXCEPT ![t] = z]) \/ stored' = stored
    BY <1>1
  <2>3. t \in ProductTask /\ z \in StoredRow
    BY <1>2, <1>4
  <2> HIDE DEF t
  <2>4. [stored EXCEPT ![t] = z] \in [ProductTask -> StoredRow]
    BY <2>1, <2>3
  <2>5. \A u \in ProductTask : [stored EXCEPT ![t] = z][u] = IF u = t THEN z ELSE stored[u]
    BY <2>1, <2>3
  <2>6. QED
    BY <2>1, <2>2, <2>4, <2>5
<1>10. \A u \in ProductTask : /\ Settled(stored'[u])
                              /\ Agrees(stored'[u].outcome, stored'[u].outputs, source[u])
  BY <1>5, <1>9 DEF ProjectionInv
<1>11. \A u \in ProductTask : MovesOn(stored[u], stored'[u])
  BY <1>6, <1>9, AdvancesByStaying, ProjectionIsTyped
<1>12. QED
  BY <1>1, <1>8, <1>9, <1>10, <1>11, ProjectorKeeps DEF b

LEMMA ProjectorEndsKeeps ==
    ASSUME ProjectionInv, NEW p \in Projector, ProjectorEnds(p)
    PROVE  ProjectionInv' /\ UNCHANGED stored
<1>1. projector' = [projector EXCEPT ![p] = Resting] /\ UNCHANGED <<source, stored>>
  BY DEF ProjectorEnds
<1>2. /\ stored' \in [ProductTask -> StoredRow]
      /\ \A u \in ProductTask : /\ Settled(stored'[u])
                                 /\ Agrees(stored'[u].outcome, stored'[u].outputs, source[u])
  BY <1>1 DEF ProjectionInv, ProjectionTypes
<1>3. QED
  BY <1>1, <1>2, ProjectionIsTyped, ProjectorKeeps

LEMMA ProjectionStep ==
    ASSUME ProjectionInv, [ProjectionNext]_projectionVars
    PROVE  ProjectionInv' /\ \A t \in ProductTask : MovesOn(stored[t], stored'[t])
<1>1. UNCHANGED stored => \A t \in ProductTask : MovesOn(stored[t], stored'[t])
  BY AdvancesByStaying, ProjectionIsTyped DEF ProjectionInv, ProjectionTypes
<1>2. ASSUME NEW t \in ProductTask, JournalMoves(t) PROVE ProjectionInv' /\ UNCHANGED stored
  BY <1>2, JournalMovesKeeps
<1>3. ASSUME NEW t \in ProductTask, IntentTakenAway(t) PROVE ProjectionInv' /\ UNCHANGED stored
  BY <1>3, IntentTakenAwayKeeps
<1>4. ASSUME NEW p \in Projector, ReadJournal(p) PROVE ProjectionInv' /\ UNCHANGED stored
  BY <1>4, ReadJournalKeeps
<1>5. ASSUME NEW p \in Projector, NEW t \in ProductTask, ReadTask(p, t)
      PROVE  ProjectionInv' /\ UNCHANGED stored
  BY <1>5, ReadTaskKeeps
<1>6. ASSUME NEW p \in Projector, ProjectorEnds(p) PROVE ProjectionInv' /\ UNCHANGED stored
  BY <1>6, ProjectorEndsKeeps
<1>7. CASE UNCHANGED projectionVars
  <2>1. UNCHANGED <<source, stored, projector>>
    BY <1>7 DEF projectionVars
  <2>2. ProjectionInv'
    BY <2>1 DEF ProjectionInv, ProjectionTypes, Honest, Settled, Agrees, FromJournal
  <2>3. QED
    BY <1>1, <2>1, <2>2
<1>8. QED
  BY <1>1, <1>2, <1>3, <1>4, <1>5, <1>6, <1>7, SwapTaskKeeps DEF ProjectionNext, ProjectorStep

\* What is stored, and what a projector has still to store, agrees with the
\* verdict of the journal.
THEOREM ProjectionInvariant == ProjectionSpec => []ProjectionInv
<1>1. ProjectionInv /\ [ProjectionNext]_projectionVars => ProjectionInv'
  BY ProjectionStep
<1>2. QED
  BY <1>1, ProjectionInvInit, PTL DEF ProjectionSpec

\* The journal, the store and the projectors keep values of their types.
THEOREM ProjectionTypesCorrect == ProjectionSpec => []ProjectionTypeOK
<1>1. ProjectionInv => ProjectionTypeOK
  <2> SUFFICES ASSUME ProjectionInv PROVE ProjectionTypeOK
    OBVIOUS
  <2>1. DOMAIN source = ProductTask /\ \A t \in ProductTask : source[t].version \in 0..MaxVersion
    BY DEF ProjectionInv, ProjectionTypes, SourceRow
  <2>2. \A p \in Projector : projector[p].pc \in {"idle", "again", "swap"}
    BY DEF ProjectionInv, ProjectionTypes, ProjectorRow
  <2>3. QED
    BY <2>1, <2>2 DEF ProjectionInv, ProjectionTypes, ProjectionTypeOK, StoredRow, Lifecycle, Verdict
<1>2. QED
  BY <1>1, ProjectionInvariant, PTL

\* The store never falls back, for any projectors, tasks and interruptions,
\* and its verdict and outputs are the journal's.
THEOREM StoreAdvances == ProjectionSpec => ProjectionsAdvance
<1>1. ASSUME ProjectionInv, [ProjectionNext]_projectionVars
      PROVE  [\A t \in ProductTask :
                /\ stored[t].version > 0 /\ stored'[t].version > 0 =>
                    /\ LifecycleRank(stored'[t].lifecycle) >= LifecycleRank(stored[t].lifecycle)
                    /\ stored[t].outcome # "none" => stored'[t].outcome = stored[t].outcome
                    /\ stored[t].visibility # "visible" => stored'[t].visibility # "visible"
                    /\ stored[t].outputs => stored'[t].outputs
                    /\ stored'[t].projected >= stored[t].projected
                /\ VerdictIsJournals(t)']_projectionVars
  <2>1. ProjectionInv' /\ \A t \in ProductTask : MovesOn(stored[t], stored'[t])
    BY <1>1, ProjectionStep
  <2>2. \A t \in ProductTask : VerdictIsJournals(t)'
    BY <2>1 DEF ProjectionInv, VerdictIsJournals, Agrees
  <2>3. QED
    BY <2>1, <2>2 DEF MovesOn
<1>2. QED
  BY <1>1, ProjectionInvariant, PTL DEF ProjectionSpec, ProjectionsAdvance

=============================================================================
