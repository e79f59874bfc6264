--------------------------- MODULE CanvasDocument ---------------------------
(***************************************************************************)
(* The canvas of one account as the browser keeps it: one document in      *)
(* IndexedDB shared by the tabs, a copy of it in the store of each tab,    *)
(* and two ways to write it.  Ordinary edits are queued and saved after    *)
(* 400 ms; the result of a generation ("effect") is committed at once,     *)
(* under the same lock, with a stamp that makes a replay harmless.  Every  *)
(* write is a three way merge of the tab's base, the tab's copy and the    *)
(* document it finds.                                                      *)
(*                                                                         *)
(* Code: web/src/stores/canvas/use-canvas-store.ts,                        *)
(*       web/src/lib/canvas/canvas-storage-revision.ts,                    *)
(*       web/src/services/canvas-generation-consumer.ts                    *)
(*                                                                         *)
(* A node stands for any entity of a project (node, connection, session,   *)
(* message: all are merged by the same mergeEntities), with some fields    *)
(* and the keys of the effects applied to it.  The page's React state and  *)
(* the store are one copy here: an effect of the page writes each change   *)
(* through to the store.                                                   *)
(***************************************************************************)
EXTENDS Integers

CONSTANTS
    Tab,            \* the tabs that show the canvas
    Node,           \* the entities of the canvas
    Field,          \* the fields of an entity; a result is written to "content"
    Effect,         \* the generation effects, a set of positive integers
    Target,         \* [Effect -> Node]: the node an effect writes its result to
    UsersRestore,   \* may a user undo the deletion of a node?
    MaxEdits,       \* bound: ordinary edits in all tabs
    MaxWriteFaults,      \* bound: writes to IndexedDB that fail
    MaxReloads      \* bound: reloads of tabs

ASSUME CanvasAssumption ==
    /\ Effect \subseteq Nat \ {0}
    /\ Target \in [Effect -> Node]
    /\ "content" \in Field
    /\ UsersRestore \in BOOLEAN
    /\ {MaxEdits, MaxWriteFaults, MaxReloads} \subseteq Nat

VARIABLES
    document,   \* what IndexedDB holds: nodes, storageRevision, tombstones
    store,     \* store[t]: the projects in the store of tab t
    observed,   \* observed[t]: the document tab t last read or wrote
    queue,      \* queue[t]: the ordinary save tab t has queued, or NoSave
    timer,      \* timer[t]: is the 400 ms timer of tab t armed?
    writer,     \* the holder of the storage lock and its write, or NoWriter
    effect,     \* effect[e]: the attempt to commit effect e
    edits, writeFaults, reloads     \* how much of each bound is used

canvasVars == <<document, store, observed, queue, timer, writer, effect,
                edits, writeFaults, reloads>>

-----------------------------------------------------------------------------
(* Entities.                                                               *)

Value == Int
Gone  == [field |-> [f \in {} |-> 0], keys |-> {}]
Live  == [field : [Field -> Value], keys : SUBSET Effect]
Nodes == [Node -> Live \cup {Gone}]

NoSave   == [base |-> <<>>, revision |-> 0, nodes |-> <<>>, sent |-> FALSE]
NoWriter == [tab |-> "none", job |-> 0, sent |-> <<>>]
Queue    == 0                    \* the job of an ordinary save
Result(e) == 0 - e               \* the value effect e writes; edits are positive

Idle == [state |-> "idle", tab |-> "none", before |-> <<>>, after |-> <<>>,
         revision |-> 0]
UnderWay == {"waiting", "draining", "written", "publishing"}
Running(e) == effect[e].state \in UnderWay

-----------------------------------------------------------------------------
(* The three way merge.                                                    *)

(* mergeValue: the side that changed wins; of two changes the document's.  *)
Merge(b, l, d) == IF l = b THEN d ELSE IF d = b THEN l ELSE d
Clashes(b, l, d) == l # b /\ d # b /\ l # d

(* The effect keys are united instead, unless one side dropped them all.   *)
MergeKeys(b, l, d) ==
    CASE l = b -> d
      [] l # b /\ d = b -> l
      [] OTHER -> IF l = {} THEN d ELSE l \cup d
KeysClash(b, l, d) == Clashes(b, l, d) /\ {} \in {l, d}

(* A node the base lacks has a base that equals no value.                  *)
BaseOf(b) == IF b = Gone THEN [field |-> [f \in Field |-> -1000], keys |-> {}] ELSE b

MergeNode(b, l, d) ==
    [field |-> [f \in Field |-> Merge(BaseOf(b).field[f], l.field[f], d.field[f])],
     keys  |-> MergeKeys(BaseOf(b).keys, l.keys, d.keys)]

NodeClashes(b, l, d) ==
    \/ \E f \in Field : Clashes(BaseOf(b).field[f], l.field[f], d.field[f])
    \/ KeysClash(BaseOf(b).keys, l.keys, d.keys)

(* mergeEntities, for one id: what the tab did to the entity.              *)
Deletes(b, l)  == b # Gone /\ l = Gone
Changes(b, l)  == l # Gone /\ l # b
Orphans(b, l, d, tomb, revision) ==        \* an edit of something deleted since
    Changes(b, l) /\ d = Gone /\ (b # Gone \/ tomb > revision)

(* rebaseCanvasProjects: the document the write leaves, and its conflicts. *)
Rebase(doc, base, local, revision) ==
    [nodes |-> [n \in Node |->
        LET b == base[n]  l == local[n]  d == doc.nodes[n]
        IN  CASE Deletes(b, l) -> Gone
              [] ~Deletes(b, l) /\ ~Changes(b, l) -> d
              [] Orphans(b, l, d, doc.tombstone[n], revision) -> Gone
              [] OTHER -> IF d = Gone THEN l ELSE MergeNode(b, l, d)],
     revision |-> doc.revision + 1,
     tombstone |-> [n \in Node |->
        LET b == base[n]  l == local[n]
        IN  CASE Deletes(b, l) -> doc.revision + 1
              [] Changes(b, l) /\ ~Orphans(b, l, doc.nodes[n], doc.tombstone[n], revision) -> 0
              [] OTHER -> doc.tombstone[n]]]

Conflicts(doc, base, local, revision) ==
    {n \in Node :
        LET b == base[n]  l == local[n]  d == doc.nodes[n]
        IN  \/ Orphans(b, l, d, doc.tombstone[n], revision)
            \/ Changes(b, l) /\ d # Gone /\ NodeClashes(b, l, d)}

-----------------------------------------------------------------------------
(* The ordinary snapshot of a tab.                                         *)

(* rollbackGenerationValue: a field the attempt wrote goes back to the     *)
(* document's value, unless the user has changed it since.                 *)
RolledBack(before, after, l, d) ==
    [f \in Field |-> IF before.field[f] = after.field[f] THEN l.field[f]
                     ELSE IF l.field[f] = after.field[f] THEN d.field[f]
                     ELSE l.field[f]]

(* Mutant: the store is saved as it is.                                    *)
Unprojected(t, nodes, durable, attempts) == nodes

(* ordinaryCanvasProjectSnapshot: an ordinary save carries only the stamps *)
(* the document is known to have.  A node with any other stamp is rolled   *)
(* back to what it was before the attempt that is under way, or dropped.   *)
Ordinary(t, nodes, durable, attempts) ==
    [n \in Node |->
        LET l == nodes[n]
            d == durable[n]
            mine == {e \in l.keys : attempts[e].tab = t /\ attempts[e].state \in UnderWay}
        IN  IF l = Gone \/ l.keys \subseteq d.keys
            THEN IF l = Gone THEN Gone ELSE [l EXCEPT !.keys = d.keys]
            ELSE IF d = Gone THEN Gone
            ELSE IF mine = {} THEN d
            ELSE LET e == CHOOSE x \in mine : TRUE
                 IN  [field |-> RolledBack(attempts[e].before[n], attempts[e].after[n], l, d),
                      keys  |-> d.keys]]

Queued(t) == queue[t] # NoSave
BaseQueued(t)     == IF Queued(t) THEN queue[t].base ELSE observed[t].nodes
RevisionQueued(t) == IF Queued(t) THEN queue[t].revision ELSE observed[t].revision

(* canvasStorage.setItem: the store changed, a save is queued.             *)
QueueSave(t, nodes, attempts) ==
    /\ store' = [store EXCEPT ![t] = nodes]
    /\ queue' = [queue EXCEPT ![t] =
            [base |-> BaseQueued(t), revision |-> RevisionQueued(t), sent |-> FALSE,
             nodes |-> Ordinary(t, nodes, observed[t].nodes, attempts)]]
    /\ timer' = [timer EXCEPT ![t] = TRUE]

NoteDocument(t, doc) == observed' = [observed EXCEPT ![t] = [nodes |-> doc.nodes,
                                                       revision |-> doc.revision]]

-----------------------------------------------------------------------------
CanvasInit ==
    LET nodes == [n \in Node |-> [field |-> [f \in Field |-> 0], keys |-> {}]]
    IN  /\ document = [nodes |-> nodes, revision |-> 1, tombstone |-> [n \in Node |-> 0]]
        /\ store = [t \in Tab |-> nodes]
        /\ observed = [t \in Tab |-> [nodes |-> nodes, revision |-> 1]]
        /\ queue = [t \in Tab |-> NoSave]
        /\ timer = [t \in Tab |-> FALSE]
        /\ writer = NoWriter
        /\ effect = [e \in Effect |-> Idle]
        /\ edits = 0 /\ writeFaults = 0 /\ reloads = 0

(* The user changes a field, deletes a node, or undoes a deletion.         *)
Edit(t, n, f) ==
    /\ edits < MaxEdits /\ store[t][n] # Gone
    /\ edits' = edits + 1
    /\ QueueSave(t, [store[t] EXCEPT ![n].field[f] = edits + 1], effect)
    /\ UNCHANGED <<document, observed, writer, effect, writeFaults, reloads>>

DeleteNode(t, n) ==
    /\ edits < MaxEdits /\ store[t][n] # Gone
    /\ edits' = edits + 1
    /\ QueueSave(t, [store[t] EXCEPT ![n] = Gone], effect)
    /\ UNCHANGED <<document, observed, writer, effect, writeFaults, reloads>>

RestoreNode(t, n) ==
    /\ UsersRestore
    /\ edits < MaxEdits /\ store[t][n] = Gone
    /\ edits' = edits + 1
    /\ QueueSave(t, [store[t] EXCEPT ![n] =
            [field |-> [f \in Field |-> edits + 1], keys |-> {}]], effect)
    /\ UNCHANGED <<document, observed, writer, effect, writeFaults, reloads>>

-----------------------------------------------------------------------------
(* Ordinary saves: commitPendingCanvasStorePersistenceLocked.              *)

(* The write of the queued state, by the tab's own writer (the timer, or a *)
(* flush) or by a generation effect that empties the queue first.          *)
MayWrite(t, job) ==
    IF job = Queue THEN writer = NoWriter \/ (writer.tab = t /\ writer.job = Queue)
    ELSE writer.tab = t /\ writer.job = job /\ effect[job].state \in {"draining", "publishing"}

SaveQueue(t, job) ==
    /\ MayWrite(t, job) /\ Queued(t) /\ writer.sent = <<>>
    /\ document' = Rebase(document, queue[t].base, queue[t].nodes, queue[t].revision)
    /\ queue' = [queue EXCEPT ![t].sent = TRUE]
    /\ timer' = [timer EXCEPT ![t] = IF job = Queue THEN FALSE ELSE @]
    /\ writer' = [tab |-> t, job |-> job, sent |-> queue[t].nodes]
    /\ UNCHANGED <<store, observed, effect, edits, writeFaults, reloads>>

(* setItem has resolved.  An edit queued meanwhile keeps the lock for one  *)
(* more round, based on what was just sent.                                *)
SettleSave(t) ==
    /\ writer.tab = t /\ writer.sent # <<>>
    /\ NoteDocument(t, document)
    /\ IF queue[t].sent
       THEN /\ queue' = [queue EXCEPT ![t] = NoSave]
            /\ writer' = IF writer.job = Queue THEN NoWriter ELSE [writer EXCEPT !.sent = <<>>]
       ELSE /\ queue' = [queue EXCEPT ![t].base = writer.sent,
                                      ![t].revision = document.revision]
            /\ writer' = [writer EXCEPT !.sent = <<>>]
    /\ UNCHANGED <<document, store, timer, effect, edits, writeFaults, reloads>>

(* setItem has failed: the queued state is kept, but no timer is armed.    *)
SaveFails(t) ==
    /\ writeFaults < MaxWriteFaults
    /\ Queued(t) /\ MayWrite(t, Queue) /\ writer.sent = <<>>
    /\ writeFaults' = writeFaults + 1
    /\ timer' = [timer EXCEPT ![t] = FALSE]
    /\ writer' = NoWriter
    /\ UNCHANGED <<document, store, observed, queue, effect, edits, reloads>>

-----------------------------------------------------------------------------
(* Generation effects: persistCanvasGenerationEffect.                      *)

Applied(nodes, e) ==
    [nodes EXCEPT ![Target[e]] = [field |-> [@.field EXCEPT !["content"] = Result(e)],
                                  keys  |-> @.keys \cup {e}]]

(* A result is to be applied.  `shown`: the page shows it already, and has *)
(* written it through to the store, before it is durable.  Registering the *)
(* attempt projects a queued save once more.                               *)
BeginEffect(t, e, shown) ==
    /\ effect[e].state = "idle"
    /\ store[t][Target[e]] # Gone
    /\ e \notin store[t][Target[e]].keys
    /\ LET after == Applied(store[t], e)
           attempts == [effect EXCEPT ![e] =
                [state |-> "waiting", tab |-> t, before |-> store[t], after |-> after,
                 revision |-> observed[t].revision]]
       IN  /\ effect' = attempts
           /\ IF shown THEN QueueSave(t, after, attempts)
              ELSE /\ queue' = IF Queued(t)
                               THEN [queue EXCEPT ![t].nodes =
                                        Ordinary(t, store[t], observed[t].nodes, attempts)]
                               ELSE queue
                   /\ UNCHANGED <<store, timer>>
    /\ UNCHANGED <<document, observed, writer, edits, writeFaults, reloads>>

LockStorage(e) ==
    /\ effect[e].state = "waiting" /\ writer = NoWriter
    /\ writer' = [tab |-> effect[e].tab, job |-> e, sent |-> <<>>]
    /\ effect' = [effect EXCEPT ![e].state = "draining"]
    /\ UNCHANGED <<document, store, observed, queue, timer, edits, writeFaults, reloads>>

Drained(e) == ~Queued(effect[e].tab) /\ writer.sent = <<>>

(* The effect's own change, its stamp included, rebased onto the document. *)
EffectConflicts(e) ==
    Conflicts(document, effect[e].before, effect[e].after, effect[e].revision)

CommitEffect(e) ==
    /\ effect[e].state = "draining" /\ Drained(e)
    /\ EffectConflicts(e) = {}
    /\ document' = Rebase(document, effect[e].before, effect[e].after, effect[e].revision)
    /\ effect' = [effect EXCEPT ![e].state = "written"]
    /\ UNCHANGED <<store, observed, queue, timer, writer, edits, writeFaults, reloads>>

(* The write has resolved: what the user queued meanwhile is rebased onto  *)
(* the committed document.                                                 *)
SettleEffect(e) ==
    LET t == effect[e].tab
    IN  /\ effect[e].state = "written"
        /\ NoteDocument(t, document)
        /\ queue' = IF Queued(t)
                    THEN [queue EXCEPT ![t] =
                            [base |-> document.nodes, revision |-> document.revision,
                             nodes |-> Ordinary(t, store[t], document.nodes, effect),
                             sent |-> FALSE]]
                    ELSE queue
        /\ effect' = [effect EXCEPT ![e].state = "publishing"]
        /\ UNCHANGED <<document, store, timer, writer, edits, writeFaults, reloads>>

(* Mutant: the store becomes the committed document.                       *)
Overwritten(e) == document.nodes

(* The committed document is merged into the store, which wins over it     *)
(* wherever the user has edited since the attempt began.                   *)
Published(e) ==
    Rebase([document EXCEPT !.nodes = store[effect[e].tab]],
           effect[e].before, document.nodes, effect[e].revision).nodes

(* The document is read once more first.  An edit made during that read is *)
(* here one made after the publication: the page writes what it gets       *)
(* through to the store, which queues a save of the result and the edit.   *)
PublishEffect(e) ==
    /\ effect[e].state = "publishing" /\ Drained(e)
    /\ NoteDocument(effect[e].tab, document)
    /\ store' = [store EXCEPT ![effect[e].tab] = Published(e)]
    /\ effect' = [effect EXCEPT ![e].state = "applied"]
    /\ writer' = NoWriter
    /\ UNCHANGED <<document, queue, timer, edits, writeFaults, reloads>>

(* The ordinary save after the commit fails.  The effect counts as applied *)
(* all the same, and the page that shows it queues the save again.         *)
PublishUndrained(e) ==
    /\ writeFaults < MaxWriteFaults
    /\ writeFaults' = writeFaults + 1
    /\ effect[e].state = "publishing" /\ Queued(effect[e].tab) /\ writer.sent = <<>>
    /\ effect' = [effect EXCEPT ![e].state = "applied"]
    /\ QueueSave(effect[e].tab, Published(e), effect')
    /\ writer' = NoWriter
    /\ UNCHANGED <<document, observed, edits, reloads>>

(* The effect ends without a write, and the claim is released for a retry. *)
EffectEnds(e) ==
    /\ effect' = [effect EXCEPT ![e] = Idle]
    /\ writer' = NoWriter

(* The merge conflicts: the store and the page fall back to the document,  *)
(* except where the user has edited since the attempt.                     *)
EffectConflict(e) ==
    LET t == effect[e].tab
    IN  /\ effect[e].state = "draining" /\ Drained(e)
        /\ EffectConflicts(e) # {}
        /\ NoteDocument(t, document)
        /\ store' = [store EXCEPT ![t] =
                Rebase(document, effect[e].after, store[t], document.revision).nodes]
        /\ EffectEnds(e)
        /\ queue' = [queue EXCEPT ![t] =
                [base |-> document.nodes, revision |-> document.revision, sent |-> FALSE,
                 nodes |-> Ordinary(t, store'[t], document.nodes, effect')]]
        /\ timer' = [timer EXCEPT ![t] = TRUE]
        /\ UNCHANGED <<document, edits, writeFaults, reloads>>

(* A write fails, or the lease of the effect was lost and it is aborted:   *)
(* once the document was read, the store is stripped of the unconfirmed    *)
(* stamp, without a save.                                                  *)
EffectFails(e) ==
    LET t == effect[e].tab
    IN  /\ writeFaults < MaxWriteFaults
        /\ writeFaults' = writeFaults + 1
        /\ effect[e].state = "draining" /\ writer.sent = <<>>
        /\ IF Drained(e)
           THEN /\ NoteDocument(t, document)
                /\ store' = [store EXCEPT ![t] =
                        Ordinary(t, store[t], document.nodes, effect)]
           ELSE UNCHANGED <<observed, store>>
        /\ EffectEnds(e)
        /\ UNCHANGED <<document, queue, timer, edits, reloads>>

-----------------------------------------------------------------------------
(* The tab is reloaded: the store is read back from the document, and what *)
(* was queued or under way in the tab is lost with it.                     *)
ReloadTab(t) ==
    /\ reloads < MaxReloads
    /\ reloads' = reloads + 1
    /\ store' = [store EXCEPT ![t] = document.nodes]
    /\ NoteDocument(t, document)
    /\ queue' = [queue EXCEPT ![t] = NoSave]
    /\ timer' = [timer EXCEPT ![t] = FALSE]
    /\ writer' = IF writer.tab = t THEN NoWriter ELSE writer
    /\ effect' = [e \in Effect |->
            IF effect[e].tab # t \/ ~Running(e) THEN effect[e]
            ELSE IF effect[e].state \in {"written", "publishing"}
                 THEN [effect[e] EXCEPT !.state = "applied"] ELSE Idle]
    /\ UNCHANGED <<document, edits, writeFaults>>

-----------------------------------------------------------------------------
EffectStep(e) ==
    \/ LockStorage(e)
    \/ SaveQueue(effect[e].tab, e)
    \/ CommitEffect(e)
    \/ EffectConflict(e)
    \/ SettleEffect(e)
    \/ PublishEffect(e)

CanvasNext ==
    \/ \E t \in Tab, n \in Node :
        \/ \E f \in Field : Edit(t, n, f)
        \/ DeleteNode(t, n)
        \/ RestoreNode(t, n)
    \/ \E t \in Tab : SaveQueue(t, Queue) \/ SettleSave(t) \/ SaveFails(t) \/ ReloadTab(t)
    \/ \E t \in Tab, e \in Effect, shown \in BOOLEAN : BeginEffect(t, e, shown)
    \/ \E e \in Effect : EffectStep(e) \/ EffectFails(e) \/ PublishUndrained(e)

CanvasSpec == CanvasInit /\ [][CanvasNext]_canvasVars
-----------------------------------------------------------------------------
CanvasTypeOK ==
    /\ document \in [nodes : Nodes, revision : Nat, tombstone : [Node -> Nat]]
    /\ store \in [Tab -> Nodes]
    /\ observed \in [Tab -> [nodes : Nodes, revision : Nat]]
    /\ queue \in [Tab -> [base : Nodes, revision : Nat, nodes : Nodes, sent : BOOLEAN]
                        \cup {NoSave}]
    /\ timer \in [Tab -> BOOLEAN]
    /\ writer \in [tab : Tab, job : {Queue} \cup Effect, sent : Nodes \cup {<<>>}]
                    \cup {NoWriter}
    /\ \A e \in Effect :
        effect[e] = Idle \/ effect[e] \in
            [state : UnderWay \cup {"applied"},
             tab : Tab, before : Nodes, after : Nodes, revision : Nat]
    /\ {edits, writeFaults, reloads} \subseteq Nat

(* The stamp of an effect, and the result itself, reach the document only  *)
(* with the effect's own commit.  An ordinary save never publishes them,   *)
(* whichever tab saves whichever copy of the node, and what an attempt has *)
(* written into the page before it failed leaves no trace                  *)
(* (ordinaryCanvasProjectSnapshot, reconcileCanvasGenerationFailure).      *)
StampsAreCommitted ==
    \A n \in Node, e \in Effect :
        \/ e \in document.nodes[n].keys
        \/ document.nodes[n] # Gone /\ document.nodes[n].field["content"] = Result(e)
        => effect[e].state \in {"written", "publishing", "applied"}

(* A committed effect is shown without undoing what the user did while it  *)
(* was under way: a field edited since the attempt began keeps its edit,   *)
(* and a node deleted since stays deleted.                                 *)
PublishingKeepsEdits ==
    [][\A e \in Effect : PublishEffect(e) \/ PublishUndrained(e) =>
        LET t == effect[e].tab
            before == effect[e].before
        IN  \A n \in Node :
            /\ before[n] # Gone /\ store[t][n] = Gone => store'[t][n] = Gone
            /\ before[n] # Gone /\ store[t][n] # Gone /\ store'[t][n] # Gone =>
                \A f \in Field : store[t][n].field[f] # before[n].field[f] =>
                    store'[t][n].field[f] = store[t][n].field[f]
      ]_canvasVars

(* As long as a node stays in the document, no save takes the stamp of a   *)
(* committed effect from it, not even that of a tab that has not seen the  *)
(* effect: a replay finds the stamp and does not apply the effect again    *)
(* over later edits.  (A node that was deleted and came back with a save   *)
(* of another tab, see DeletionsStay, may lose its stamps: some tab may    *)
(* still hold a save of it from before the deletion.)                      *)
StampsStay(n) ==
    [](document.nodes[n] # Gone)
        => [][document.nodes[n].keys \subseteq document'.nodes[n].keys]_canvasVars

(* With a single tab, the document is the store whenever nothing is queued *)
(* or under way: no edit is lost between the two ways to write.  Only a    *)
(* node that shows a result whose commit failed differs, until a retry.    *)
SoleTabIsSaved ==
    (\A t, u \in Tab : t = u) =>
        \A t \in Tab, n \in Node :
            /\ ~Queued(t) /\ (\A e \in Effect : ~Running(e))
            /\ store[t][n].keys \subseteq document.nodes[n].keys
            => document.nodes[n].field = store[t][n].field

(* Deleted in one tab, a node stays deleted, whatever another tab saves    *)
(* (checked where no user undoes the deletion).                            *)
DeletionsStay ==
    [][\A n \in Node : document.nodes[n] = Gone => document'.nodes[n] = Gone]_canvasVars

(* Queued regular writes cannot overwrite a completed effect (the test of  *)
(* that name): once its commit has brought a result into the document, no  *)
(* later save puts back what the node held when the attempt began.         *)
ResultsStay ==
    [][\A e \in Effect :
        LET n == Target[e]
        IN  /\ effect[e].state \in {"written", "publishing", "applied"}
            /\ document.nodes[n] # Gone /\ document.nodes[n].field["content"] = Result(e)
            /\ document'.nodes[n] # Gone
            => document'.nodes[n].field["content"] # effect[e].before[n].field["content"]
      ]_canvasVars

(* An effect comes to an end, and a queued save is written as long as      *)
(* writes to IndexedDB succeed: a failed one waits for the next edit.      *)
WritesComplete ==
    /\ \A e \in Effect : Running(e) ~> ~Running(e)
    /\ \A t \in Tab : timer[t] ~> ~Queued(t) \/ writeFaults > 0

(* Web Locks are granted in the order of the requests.                     *)
CanvasFairness ==
    /\ \A t \in Tab :
        /\ WF_canvasVars(timer[t] /\ SaveQueue(t, Queue))
        /\ WF_canvasVars(SettleSave(t))
    /\ \A e \in Effect :
        WF_canvasVars(LockStorage(e)) /\ WF_canvasVars(EffectStep(e))
=============================================================================
