------------------------- MODULE GenerationEffects -------------------------
(***************************************************************************)
(* How the browser turns the outcome of a generation into an asset exactly *)
(* once, with several tabs open.  Each outcome is an effect with a record  *)
(* in IndexedDB; a consumer claims the record under a lease with a fence,  *)
(* heartbeats it, inserts the asset into the library of the account under  *)
(* the library's lock, and completes the record.  An account switch aborts *)
(* and drains the consumers of its tab first.  The active account is one   *)
(* entry of localStorage, which all tabs share and none watches: accounts  *)
(* are switched here with the other tabs closed, and the README says what  *)
(* happens otherwise.                                                      *)
(*                                                                         *)
(* Code: web/src/services/provider-neutral-generation-effects.ts,          *)
(*       web/src/services/generation-task-materializer.ts,                 *)
(*       web/src/services/generation-asset-repository.ts,                  *)
(*       web/src/stores/use-asset-store.ts,                                *)
(*       web/src/lib/asset-storage-revision.ts,                            *)
(*       web/src/services/generation-consumer-lifecycle.ts                 *)
(*                                                                         *)
(* A transaction under the lock of a record is one step.  The asset of an  *)
(* effect has an id derived from its key, so the effect names its asset.   *)
(***************************************************************************)
EXTENDS Integers, FiniteSets

CONSTANTS
    Page,           \* the open tabs
    Consumer,       \* calls of consumeGenerationTask* in the tabs
    PageOf,         \* [Consumer -> Page]
    Outcome,        \* the effects: one output of one task each
    OutcomeOf,      \* [Consumer -> Outcome]
    User,           \* the accounts
    FirstUser,      \* the account that is active at first
    MaxLapses,      \* bound: leases that lapse under a live holder
    MaxStorageFaults,   \* bound: writes of the library that fail
    MaxCalls,    \* bound: calls of one consumer
    MaxPageEvents   \* bound: deletions, account switches and closed tabs

\* The holder of a lock that nobody holds.
Nobody == "nobody"

ASSUME EffectsAssumption ==
    /\ PageOf \in [Consumer -> Page] /\ OutcomeOf \in [Consumer -> Outcome]
    /\ FirstUser \in User /\ Nobody \notin Consumer
    /\ {MaxLapses, MaxStorageFaults, MaxCalls, MaxPageEvents} \subseteq Nat

VARIABLES
    record,     \* record[u][k]: the effect record, in IndexedDB
    library,    \* library[u]: the asset document, in IndexedDB
    libraryLock,    \* libraryLock[u]: the consumer that holds the lock
    consumer,   \* consumer[c]: the call under way
    shelf,      \* shelf[p]: the assets in the store of tab p
    unsaved,    \* unsaved[p]: the deletions tab p has queued
    broken,     \* broken[p]: the assets tab p has failed to write since
    open,       \* open[p]: the tab is open
    scope,      \* the active account
    switch,     \* switch[p]: the account tab p is switching to, or NoUser
    lapses, storageFaults, calls, pageEvents     \* use of the bounds

effectsVars == <<record, library, libraryLock, consumer, shelf, unsaved, broken,
                 open, scope, switch, lapses, storageFaults, calls, pageEvents>>

NoUser == "no user"
NoEffect == [state |-> "none", fence |-> 0, over |-> FALSE]
Outside == {"idle", "done", "failed"}
Inside == {"claiming", "claimed", "waiting", "working", "inserting", "inserted", "releasing"}
IdleConsumer == [at |-> "idle", user |-> NoUser, fence |-> 0, aborted |-> FALSE]

Active(c) == consumer[c].at \in Inside
RecordOf(c) == record[consumer[c].user][OutcomeOf[c]]

EffectsInit ==
    /\ record = [u \in User |-> [k \in Outcome |-> NoEffect]]
    /\ library = [u \in User |-> [assets |-> {}, deleted |-> {}]]
    /\ libraryLock = [u \in User |-> Nobody]
    /\ consumer = [c \in Consumer |-> IdleConsumer]
    /\ shelf = [p \in Page |-> {}] /\ unsaved = [p \in Page |-> {}]
    /\ broken = [p \in Page |-> {}]
    /\ open = [p \in Page |-> TRUE]
    /\ scope = FirstUser /\ switch = [p \in Page |-> NoUser]
    /\ lapses = 0 /\ storageFaults = 0 /\ calls = [c \in Consumer |-> 0]
    /\ pageEvents = 0

-----------------------------------------------------------------------------
At(c, at) == consumer' = [consumer EXCEPT ![c].at = at]
PutRecord(u, k, r) == record' = [record EXCEPT ![u][k] = r]

(* runGenerationConsumer: refused while the tab switches its account.      *)
BeginConsumer(c) ==
    /\ consumer[c].at \in Outside /\ calls[c] < MaxCalls
    /\ open[PageOf[c]] /\ switch[PageOf[c]] = NoUser
    /\ calls' = [calls EXCEPT ![c] = @ + 1]
    /\ consumer' = [consumer EXCEPT ![c] = [IdleConsumer EXCEPT !.at = "claiming"]]
    /\ UNCHANGED <<record, library, libraryLock, shelf, unsaved, broken, open, scope, switch,
                   lapses, storageFaults, pageEvents>>

(* claimWhenAvailable: the record of the account that is active now.       *)
ClaimRecord(c) ==
    LET u == scope  k == OutcomeOf[c]  r == record[u][k]
    IN  /\ consumer[c].at = "claiming"
        /\ CASE consumer[c].aborted -> At(c, "failed") /\ UNCHANGED record
             [] ~consumer[c].aborted /\ r.state = "completed" ->
                    At(c, "done") /\ UNCHANGED record
             [] ~consumer[c].aborted /\ r.state = "pending" /\ ~r.over ->
                    At(c, "waiting") /\ UNCHANGED record
             [] OTHER ->
                    /\ PutRecord(u, k, [state |-> "pending", fence |-> r.fence + 1, over |-> FALSE])
                    /\ consumer' = [consumer EXCEPT ![c].at = "claimed", ![c].user = u,
                                                    ![c].fence = r.fence + 1]
        /\ UNCHANGED <<library, libraryLock, shelf, unsaved, broken, open, scope, switch,
                       lapses, storageFaults, calls, pageEvents>>

(* The claim has been answered.  Aborted meanwhile, the call fails and     *)
(* leaves its lease to lapse.                                              *)
TakeClaim(c) ==
    /\ consumer[c].at = "claimed"
    /\ At(c, IF consumer[c].aborted THEN "failed" ELSE "working")
    /\ UNCHANGED <<record, library, libraryLock, shelf, unsaved, broken, open, scope, switch,
                   lapses, storageFaults, calls, pageEvents>>

(* A busy effect is looked at again after 250 ms.                          *)
LookAgain(c) ==
    /\ consumer[c].at = "waiting"
    /\ At(c, IF consumer[c].aborted THEN "failed" ELSE "claiming")
    /\ UNCHANGED <<record, library, libraryLock, shelf, unsaved, broken, open, scope, switch,
                   lapses, storageFaults, calls, pageEvents>>

-----------------------------------------------------------------------------
(* insertOrReturnGenerationAsset.                                          *)

(* The tab's queued deletions, rebased onto the document.                  *)
Saved(doc, gone) == [assets |-> doc.assets \ gone, deleted |-> doc.deleted \cup gone]

(* Under the lock: the queue is saved and the document read; the asset is  *)
(* returned if it exists, refused if the user deleted it, or shown at once *)
(* and then written.                                                       *)
Insert(c) ==
    LET p == PageOf[c]  u == scope  k == OutcomeOf[c]
        doc == Saved(library[u], unsaved[p])
    IN  /\ consumer[c].at = "working" /\ libraryLock[u] = Nobody
        /\ IF consumer[c].aborted THEN UNCHANGED <<library, unsaved>>
           ELSE /\ library' = [library EXCEPT ![u] = doc]
                /\ unsaved' = [unsaved EXCEPT ![p] = {}]
        /\ IF consumer[c].aborted \/ k \in doc.deleted
           THEN At(c, "releasing") /\ UNCHANGED <<shelf, broken, libraryLock>>
           ELSE /\ shelf' = [shelf EXCEPT ![p] = @ \cup {k}]
                /\ IF k \in doc.assets
                   THEN /\ At(c, "inserted") /\ UNCHANGED libraryLock
                        /\ broken' = [broken EXCEPT ![p] = @ \ {k}]
                   ELSE /\ At(c, "inserting") /\ UNCHANGED broken
                        /\ libraryLock' = [libraryLock EXCEPT ![u] = c]
        /\ UNCHANGED <<record, open, scope, switch, lapses, storageFaults, calls, pageEvents>>

(* The document is written.                                                *)
PersistAsset(c) ==
    LET p == PageOf[c]  k == OutcomeOf[c]
    IN  /\ consumer[c].at = "inserting"
        /\ \E u \in User :
            /\ libraryLock[u] = c
            /\ library' = [library EXCEPT ![u].assets = @ \cup {k}]
            /\ libraryLock' = [libraryLock EXCEPT ![u] = Nobody]
        /\ IF consumer[c].aborted THEN At(c, "releasing") /\ UNCHANGED broken
           ELSE At(c, "inserted") /\ broken' = [broken EXCEPT ![p] = @ \ {k}]
        /\ UNCHANGED <<record, shelf, unsaved, open, scope, switch,
                       lapses, storageFaults, calls, pageEvents>>

(* Mutant: the failed write is not noticed.                                *)
PersistSilently(c) ==
    /\ consumer[c].at = "inserting"
    /\ storageFaults < MaxStorageFaults /\ storageFaults' = storageFaults + 1
    /\ libraryLock' = [u \in User |-> IF libraryLock[u] = c THEN Nobody ELSE libraryLock[u]]
    /\ At(c, "inserted")
    /\ UNCHANGED <<record, library, shelf, unsaved, broken, open, scope, switch,
                   lapses, calls, pageEvents>>

(* Or the write fails, which the tab remembers until the asset is there;   *)
(* or the call was aborted between showing and writing it.                 *)
PersistFails(c) ==
    /\ consumer[c].at = "inserting"
    /\ \/ /\ storageFaults < MaxStorageFaults /\ storageFaults' = storageFaults + 1
          /\ broken' = [broken EXCEPT ![PageOf[c]] = @ \cup {OutcomeOf[c]}]
       \/ consumer[c].aborted /\ UNCHANGED <<storageFaults, broken>>
    /\ libraryLock' = [u \in User |-> IF libraryLock[u] = c THEN Nobody ELSE libraryLock[u]]
    /\ At(c, "releasing")
    /\ UNCHANGED <<record, library, shelf, unsaved, open, scope, switch,
                   lapses, calls, pageEvents>>

-----------------------------------------------------------------------------
(* Mutant: a lease once given is held for good.                            *)
OnceOwned(c) == consumer[c].fence > 0

(* The holder of a lease that still runs.                                  *)
Owns(c) == RecordOf(c).state = "pending" /\ RecordOf(c).fence = consumer[c].fence
                /\ ~RecordOf(c).over

(* The heartbeat renews the lease of a live holder, which changes nothing  *)
(* here, or finds it lost and aborts the call.                             *)
HeartbeatFails(c) ==
    /\ consumer[c].at \in {"working", "inserting", "inserted"}
    /\ ~Owns(c) /\ ~consumer[c].aborted
    /\ consumer' = [consumer EXCEPT ![c].aborted = TRUE]
    /\ UNCHANGED <<record, library, libraryLock, shelf, unsaved, broken, open, scope, switch,
                   lapses, storageFaults, calls, pageEvents>>

CompleteRecord(c) ==
    /\ consumer[c].at = "inserted"
    /\ IF Owns(c) /\ ~consumer[c].aborted
       THEN /\ PutRecord(consumer[c].user, OutcomeOf[c],
                         [state |-> "completed", fence |-> consumer[c].fence, over |-> FALSE])
            /\ At(c, "done")
       ELSE At(c, "releasing") /\ UNCHANGED record
    /\ UNCHANGED <<library, libraryLock, shelf, unsaved, broken, open, scope, switch,
                   lapses, storageFaults, calls, pageEvents>>

(* releaseClaim: after any failure; a lost lease makes it fail as well.    *)
ReleaseRecord(c) ==
    /\ consumer[c].at = "releasing"
    /\ IF Owns(c)
       THEN PutRecord(consumer[c].user, OutcomeOf[c],
                      [state |-> "released", fence |-> consumer[c].fence, over |-> FALSE])
       ELSE UNCHANGED record
    /\ At(c, "failed")
    /\ UNCHANGED <<library, libraryLock, shelf, unsaved, broken, open, scope, switch,
                   lapses, storageFaults, calls, pageEvents>>

(* A lease runs out: its holder is gone, or a tab that sleeps missed two   *)
(* heartbeats.                                                             *)
Held(u, k) ==
    \E c \in Consumer :
        /\ Active(c) /\ consumer[c].user = u /\ OutcomeOf[c] = k
        /\ consumer[c].fence = record[u][k].fence

RecordLapses(u, k) ==
    /\ record[u][k].state = "pending" /\ ~record[u][k].over
    /\ IF Held(u, k) THEN lapses < MaxLapses /\ lapses' = lapses + 1
       ELSE UNCHANGED lapses
    /\ PutRecord(u, k, [record[u][k] EXCEPT !.over = TRUE])
    /\ UNCHANGED <<library, libraryLock, consumer, shelf, unsaved, broken, open, scope, switch,
                   storageFaults, calls, pageEvents>>

-----------------------------------------------------------------------------
(* The tab.                                                                *)

DeleteAsset(p, k) ==
    /\ pageEvents < MaxPageEvents /\ pageEvents' = pageEvents + 1
    /\ k \in shelf[p]
    /\ shelf' = [shelf EXCEPT ![p] = @ \ {k}]
    /\ unsaved' = [unsaved EXCEPT ![p] = @ \cup {k}]
    /\ UNCHANGED <<record, library, libraryLock, consumer, broken, open, scope, switch,
                   lapses, storageFaults, calls>>

(* persistAssetState: the queued change is written under the same lock.    *)
SaveShelf(p) ==
    LET u == scope
    IN  /\ unsaved[p] # {} /\ libraryLock[u] = Nobody
        /\ library' = [library EXCEPT ![u] = Saved(@, unsaved[p])]
        /\ unsaved' = [unsaved EXCEPT ![p] = {}]
        /\ UNCHANGED <<record, libraryLock, consumer, shelf, broken, open, scope, switch,
                       lapses, storageFaults, calls, pageEvents>>

(* withGenerationConsumersPaused: no consumer starts from here on, those   *)
(* that run are aborted, and the switch waits until none is left and what  *)
(* is queued has been written.  An asset that could not be written makes   *)
(* it fail.                                                                *)
BeginSwitch(p, u) ==
    /\ pageEvents < MaxPageEvents /\ pageEvents' = pageEvents + 1
    /\ switch[p] = NoUser /\ u # scope
    /\ open[p] /\ \A q \in Page \ {p} : ~open[q]
    /\ switch' = [switch EXCEPT ![p] = u]
    /\ consumer' = [c \in Consumer |->
            IF PageOf[c] = p /\ Active(c) THEN [consumer[c] EXCEPT !.aborted = TRUE]
            ELSE consumer[c]]
    /\ UNCHANGED <<record, library, libraryLock, shelf, unsaved, broken, open, scope,
                   lapses, storageFaults, calls>>

(* Mutant: the calls that were aborted are not waited for.                 *)
SwitchAtOnce(p) ==
    /\ switch[p] # NoUser /\ unsaved[p] = {}
    /\ scope' = switch[p] /\ shelf' = [shelf EXCEPT ![p] = library[switch[p]].assets]
    /\ switch' = [switch EXCEPT ![p] = NoUser]
    /\ UNCHANGED <<record, library, libraryLock, consumer, unsaved, broken, open,
                   lapses, storageFaults, calls, pageEvents>>

SwitchUser(p) ==
    /\ switch[p] # NoUser
    /\ \A c \in Consumer : PageOf[c] = p => ~Active(c)
    /\ unsaved[p] = {}
    /\ switch' = [switch EXCEPT ![p] = NoUser]
    /\ IF broken[p] # {} THEN UNCHANGED <<scope, shelf>>
       ELSE /\ scope' = switch[p]
            /\ shelf' = [shelf EXCEPT ![p] = library[switch[p]].assets]
    /\ UNCHANGED <<record, library, libraryLock, consumer, unsaved, broken, open,
                   lapses, storageFaults, calls, pageEvents>>

(* A tab is closed: its calls are gone, and their locks.                   *)
ClosePage(p) ==
    LET mine == {c \in Consumer : PageOf[c] = p}
    IN  /\ pageEvents < MaxPageEvents /\ pageEvents' = pageEvents + 1
        /\ open[p] /\ open' = [open EXCEPT ![p] = FALSE]
        /\ consumer' = [c \in Consumer |-> IF c \in mine THEN IdleConsumer ELSE consumer[c]]
        /\ libraryLock' = [u \in User |-> IF libraryLock[u] \in mine THEN Nobody ELSE libraryLock[u]]
        /\ shelf' = [shelf EXCEPT ![p] = {}]
        /\ unsaved' = [unsaved EXCEPT ![p] = {}]
        /\ broken' = [broken EXCEPT ![p] = {}]
        /\ switch' = [switch EXCEPT ![p] = NoUser]
        /\ UNCHANGED <<record, library, scope, lapses, storageFaults, calls>>

(* It is opened again and shows the library of the active account.         *)
OpenPage(p) ==
    /\ ~open[p] /\ \A q \in Page : switch[q] = NoUser
    /\ open' = [open EXCEPT ![p] = TRUE]
    /\ shelf' = [shelf EXCEPT ![p] = library[scope].assets]
    /\ UNCHANGED <<record, library, libraryLock, consumer, unsaved, broken, scope, switch,
                   lapses, storageFaults, calls, pageEvents>>

-----------------------------------------------------------------------------
ConsumerStep(c) ==
    \/ ClaimRecord(c) \/ TakeClaim(c) \/ LookAgain(c)
    \/ Insert(c) \/ PersistAsset(c)
    \/ CompleteRecord(c) \/ ReleaseRecord(c)

EffectsNext ==
    \/ \E c \in Consumer :
        ConsumerStep(c) \/ BeginConsumer(c) \/ PersistFails(c) \/ HeartbeatFails(c)
    \/ \E u \in User, k \in Outcome : RecordLapses(u, k)
    \/ \E p \in Page :
        \/ SaveShelf(p) \/ SwitchUser(p) \/ ClosePage(p) \/ OpenPage(p)
        \/ \E k \in Outcome : DeleteAsset(p, k)
        \/ \E u \in User : BeginSwitch(p, u)

EffectsSpec == EffectsInit /\ [][EffectsNext]_effectsVars

(* A call of a tab goes on as long as the tab is open; a waiting call      *)
(* polls.  The lease of a holder that is gone lapses, as time does.        *)
EffectsFairness ==
    /\ \A c \in Consumer : WF_effectsVars(ConsumerStep(c))
    /\ \A u \in User, k \in Outcome : WF_effectsVars(~Held(u, k) /\ RecordLapses(u, k))
    /\ \A p \in Page : WF_effectsVars(SaveShelf(p)) /\ WF_effectsVars(SwitchUser(p))
-----------------------------------------------------------------------------
EffectsTypeOK ==
    /\ record \in [User -> [Outcome -> [state : {"none", "pending", "completed", "released"},
                                        fence : Nat, over : BOOLEAN]]]
    /\ library \in [User -> [assets : SUBSET Outcome, deleted : SUBSET Outcome]]
    /\ libraryLock \in [User -> Consumer \cup {Nobody}]
    /\ consumer \in [Consumer -> [at : Outside \cup Inside, user : User \cup {NoUser},
                                  fence : Nat, aborted : BOOLEAN]]
    /\ shelf \in [Page -> SUBSET Outcome] /\ unsaved \in [Page -> SUBSET Outcome]
    /\ broken \in [Page -> SUBSET Outcome]
    /\ open \in [Page -> BOOLEAN] /\ scope \in User /\ switch \in [Page -> User \cup {NoUser}]
    /\ calls \in [Consumer -> Nat] /\ {lapses, storageFaults, pageEvents} \subseteq Nat

(* A completed effect has put its asset into the library of its account,   *)
(* where it still is unless the user has deleted it: an abort, a failed    *)
(* write or a lost lease never completes an effect without its asset.      *)
CompletedIsDelivered ==
    \A u \in User, k \in Outcome :
        record[u][k].state = "completed" => k \in library[u].assets \cup library[u].deleted

(* No call works for another account than the active one: a switch waits   *)
(* for the calls of the old account and lets none begin meanwhile.         *)
WorkStaysInAccount ==
    \A c \in Consumer :
        Active(c) /\ consumer[c].user # NoUser => consumer[c].user = scope

(* A completed effect stays completed: no late claim, completion or        *)
(* release of a consumer that had lost its lease undoes it.  And what the  *)
(* user deleted is not delivered again, whoever replays the effect and     *)
(* however late.                                                           *)
DoneStaysDone ==
    [][\A u \in User :
        /\ \A k \in Outcome : record[u][k].state = "completed" => record'[u][k] = record[u][k]
        /\ library[u].deleted \subseteq library'[u].deleted \ library'[u].assets]_effectsVars

(* Every call ends, one that waits for a busy effect too, whose holder may *)
(* be gone, and so does every switch of the account.                       *)
ConsumersEnd ==
    /\ \A c \in Consumer : Active(c) ~> ~Active(c)
    /\ \A p \in Page : switch[p] # NoUser ~> switch[p] = NoUser
=============================================================================
