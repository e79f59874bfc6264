----------------------------- MODULE TaskEffects -----------------------------
(***************************************************************************)
(* The effects of Dreamina tasks (attach the result to a node, resume an   *)
(* agent, ...) that the tabs claim in the product's store, and the room    *)
(* the store makes for new rows in its outbox and its inbox.               *)
(*                                                                         *)
(* Code: canvas-agent/src/dreamina-task-store.ts,                          *)
(*       web/src/services/local-dreamina-generation.ts                     *)
(*                                                                         *)
(* All tabs claim under one consumer id, so that an effect has one inbox   *)
(* row.  Each operation of the store is one step under its lock (module    *)
(* StateFile).  What the projection of module TaskProjection writes is     *)
(* here a new task, a deleted one and one more row in the outbox; the      *)
(* journal never takes a deletion back, which `projected` remembers when   *)
(* the store has dropped the task.                                         *)
(***************************************************************************)
EXTENDS Naturals, FiniteSets

CONSTANTS
    StoreTask,      \* the tasks
    EffectKey,      \* the keys of effects
    TaskOf,         \* [EffectKey -> StoreTask]
    Client,         \* tabs
    MaxTasks,       \* maxTasks, the capacity for tasks
    MaxEffects,     \* maxEffects, the capacity for outbox rows and for inbox rows
    MaxProjections, \* bound: projections of each task
    MaxClaims       \* bound: claims granted

ASSUME TaskEffectsAssumption ==
    /\ TaskOf \in [EffectKey -> StoreTask]
    /\ {MaxTasks, MaxEffects} \subseteq Nat \ {0}
    /\ {MaxProjections, MaxClaims} \subseteq Nat

VARIABLES
    disk,       \* the file: tasks, outbox rows of projections and of effects, inbox
    projected,  \* projected[t]: projections of t so far, and whether t was deleted
    client,     \* client[c]: the claim tab c holds
    claims,     \* claims granted so far
    finished    \* [key, by]: effects a tab was told it has completed

taskEffectVars == <<disk, projected, client, claims, finished>>

-----------------------------------------------------------------------------
NoRow == [state |-> "none", fence |-> 0, token |-> 0, lapsed |-> FALSE]
NoClaim == [key |-> "none", token |-> 0, fence |-> 0]

Visibility == {"none", "visible", "deleted"}     \* "none": not in the store
Disk == [task : [StoreTask -> Visibility],
         projections : SUBSET (StoreTask \X (1..MaxProjections)),
         products : SUBSET EffectKey,
         inbox : [EffectKey -> [state : {"none", "pending", "completed", "released"},
                                fence : Nat, token : 0..MaxClaims, lapsed : BOOLEAN]]]

StoredTasks(d) == {t \in StoreTask : d.task[t] # "none"}
Rows(d)        == {k \in EffectKey : d.inbox[k].state # "none"}
OutboxSize(d)  == Cardinality(d.projections) + Cardinality(d.products)

-----------------------------------------------------------------------------
(* compactStoreDisk.  What it may drop it drops in the order of the        *)
(* arrays, which is any order here.                                        *)
Excess(n, capacity) == IF n > capacity THEN n - capacity ELSE 0
Picks(from, n) ==
    {s \in SUBSET from : Cardinality(s) = IF Cardinality(from) < n THEN Cardinality(from) ELSE n}

(* Deleted tasks go first, unless one of their effects is being done.      *)
DroppableTasks(d) ==
    {t \in StoreTask :
        d.task[t] = "deleted" /\ \A k \in Rows(d) : TaskOf[k] = t => d.inbox[k].state # "pending"}
(* Mutant: the rows of a dropped task stay.                                *)
WithoutTaskRecords(d, ts) ==
    [d EXCEPT !.task = [t \in StoreTask |-> IF t \in ts THEN "none" ELSE d.task[t]]]

WithoutTasks(d, ts) ==
    [task |-> [t \in StoreTask |-> IF t \in ts THEN "none" ELSE d.task[t]],
     projections |-> {r \in d.projections : r[1] \notin ts},
     products |-> {k \in d.products : TaskOf[k] \notin ts},
     inbox |-> [k \in EffectKey |-> IF TaskOf[k] \in ts THEN NoRow ELSE d.inbox[k]]]
TasksCompacted(d) ==
    {WithoutTasks(d, ts) :
        ts \in Picks(DroppableTasks(d), Excess(Cardinality(StoredTasks(d)), MaxTasks))}

(* Then outbox rows of effects, whose inbox rows stay; a projection's row  *)
(* could go once it were delivered, which the product does not do.         *)
OutboxCompacted(d) ==
    {[d EXCEPT !.products = @ \ ks] : ks \in Picks(d.products, Excess(OutboxSize(d), MaxEffects))}

(* Then inbox rows: released ones, and completed ones of deleted tasks.    *)
ReleasedRows(d) == {k \in Rows(d) : d.inbox[k].state = "released"}
SpentRows(d)    == {k \in Rows(d) : d.inbox[k].state = "completed" /\ d.task[TaskOf[k]] = "deleted"}
DroppableRows(d) ==
    {ks \in Picks(ReleasedRows(d) \cup SpentRows(d), Excess(Cardinality(Rows(d)), MaxEffects)) :
        ks \subseteq ReleasedRows(d) \/ ReleasedRows(d) \subseteq ks}
InboxCompacted(d) ==
    {[d EXCEPT !.products = @ \ ks,
               !.inbox = [k \in EffectKey |-> IF k \in ks THEN NoRow ELSE d.inbox[k]]] :
        ks \in DroppableRows(d)}

Fits(d) ==
    /\ Cardinality(StoredTasks(d)) <= MaxTasks
    /\ OutboxSize(d) <= MaxEffects
    /\ Cardinality(Rows(d)) <= MaxEffects

Compacted(d) ==
    LET inOrder == UNION {UNION {InboxCompacted(y) : y \in OutboxCompacted(x)} : x \in TasksCompacted(d)}
    IN  {x \in UNION {OutboxCompacted(y) : y \in inOrder} : Fits(x)}

(* persist: a write that does not fit is refused.                          *)
Stores(d) == disk' \in Compacted(d)

-----------------------------------------------------------------------------
TaskEffectsInit ==
    /\ disk = [task |-> [t \in StoreTask |-> "none"], projections |-> {}, products |-> {},
               inbox |-> [k \in EffectKey |-> NoRow]]
    /\ projected = [t \in StoreTask |-> [count |-> 0, deleted |-> FALSE]]
    /\ client = [c \in Client |-> NoClaim]
    /\ claims = 0 /\ finished = {}

(* compareAndSwapTask: a version of t is projected; deleted tasks stay so. *)
ProjectTask(t, visibility) ==
    /\ projected[t].count < MaxProjections
    /\ visibility \in {"visible", "deleted"}
    /\ projected[t].deleted => visibility = "deleted"
    /\ projected' = [projected EXCEPT ![t] = [count |-> @.count + 1,
                                                   deleted |-> visibility = "deleted"]]
    /\ Stores([disk EXCEPT !.task[t] = visibility, !.projections = @ \cup {<<t, projected'[t].count>>}])
    /\ UNCHANGED <<client, claims, finished>>

(* Mutant: whatever is not being done can be claimed.                      *)
CanClaimIdle(k) == disk.inbox[k].state # "pending" \/ disk.inbox[k].lapsed

(* claimProductEffect.  The answers "busy" and "completed" change nothing. *)
CanClaim(k) ==
    \/ disk.inbox[k].state \in {"none", "released"}
    \/ disk.inbox[k].state = "pending" /\ disk.inbox[k].lapsed

ClaimEffect(c, k) ==
    LET row == [state |-> "pending", fence |-> disk.inbox[k].fence + 1,
                token |-> claims + 1, lapsed |-> FALSE]
    IN  /\ claims < MaxClaims
        /\ disk.task[TaskOf[k]] = "visible"
        /\ CanClaim(k)
        /\ Stores([disk EXCEPT !.products = @ \cup {k}, !.inbox[k] = row])
        /\ client' = [client EXCEPT ![c] = [key |-> k, token |-> row.token, fence |-> row.fence]]
        /\ claims' = claims + 1
        /\ UNCHANGED <<projected, finished>>

(* finishProductEffect, which asks for a live lease that is still the row's. *)
HoldsLease(c) ==
    LET row == disk.inbox[client[c].key]
    IN  /\ row.state = "pending" /\ ~row.lapsed
        /\ row.token = client[c].token /\ row.fence = client[c].fence

FinishEffect(c, state) ==
    /\ client[c] # NoClaim
    /\ client' = [client EXCEPT ![c] = NoClaim]
    /\ IF HoldsLease(c)
       THEN /\ Stores([disk EXCEPT !.inbox[client[c].key].state = state,
                                   !.inbox[client[c].key].token = 0])
            /\ finished' = IF state = "completed"
                           THEN finished \cup {[key |-> client[c].key, by |-> client[c].token]}
                           ELSE finished
       ELSE UNCHANGED <<disk, finished>>
    /\ UNCHANGED <<projected, claims>>

(* The tab is closed, or an answer does not reach it.                      *)
ForgetClaim(c) ==
    /\ client[c] # NoClaim
    /\ client' = [client EXCEPT ![c] = NoClaim]
    /\ UNCHANGED <<disk, projected, claims, finished>>

EffectLeaseLapses(k) ==
    /\ disk.inbox[k].state = "pending" /\ ~disk.inbox[k].lapsed
    /\ disk' = [disk EXCEPT !.inbox[k].lapsed = TRUE]
    /\ UNCHANGED <<projected, client, claims, finished>>

-----------------------------------------------------------------------------
TaskEffectsNext ==
    \/ \E t \in StoreTask, v \in Visibility : ProjectTask(t, v)
    \/ \E c \in Client :
        \/ \E k \in EffectKey : ClaimEffect(c, k)
        \/ \E s \in {"completed", "released"} : FinishEffect(c, s)
        \/ ForgetClaim(c)
    \/ \E k \in EffectKey : EffectLeaseLapses(k)

TaskEffectsSpec == TaskEffectsInit /\ [][TaskEffectsNext]_taskEffectVars

-----------------------------------------------------------------------------
TaskEffectsTypeOK ==
    /\ disk \in Disk
    /\ projected \in [StoreTask -> [count : 0..MaxProjections, deleted : BOOLEAN]]
    /\ client \in [Client -> [key : EffectKey \cup {"none"}, token : 0..MaxClaims, fence : Nat]]
    /\ claims \in 0..MaxClaims
    /\ \A f \in finished : f.key \in EffectKey /\ f.by \in 1..claims

(* What readStoreDisk refuses is never written, however much the           *)
(* compaction has dropped: a row always has its task, and what is being    *)
(* done is still known.                                                    *)
DiskIsReadable ==
    /\ Fits(disk)
    /\ \A r \in disk.projections : disk.task[r[1]] # "none"
    /\ \A k \in Rows(disk) \cup disk.products : disk.task[TaskOf[k]] # "none"

(* One tab at most is told that it has completed an effect, whatever       *)
(* leases lapse and rows are dropped, its own included; and it is the tab  *)
(* with the newest claim: one whose lease has lapsed and gone to another   *)
(* tab comes too late.                                                     *)
EffectDoneOnce ==
    /\ \A f, g \in finished : f.key = g.key => f = g
    /\ \A f \in finished, c \in Client : client[c].key = f.key => client[c].token <= f.by
=============================================================================
