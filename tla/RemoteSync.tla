----------------------------- MODULE RemoteSync -----------------------------
(***************************************************************************)
(* How the web client keeps the projects and assets of the signed-in       *)
(* account on the server.  One tab; every operation on the server runs     *)
(* behind one promise tail.  Signing in replaces the cached entities by    *)
(* the server's snapshot, the baseline; from then on what differs from the *)
(* last acknowledged version is uploaded, 1.2 s after the last edit or at  *)
(* once, and edits made meanwhile start another round.                     *)
(*                                                                         *)
(* Code: web/src/services/user-data-sync.ts,                               *)
(*       web/src/lib/user-session.ts                                       *)
(*                                                                         *)
(* A request and its answer are one step.  The store of the tab and its    *)
(* IndexedDB copy are one value: CanvasDocument and GenerationEffects are  *)
(* about how the copy is written.                                          *)
(***************************************************************************)
EXTENDS Integers, Sequences

CONSTANTS
    Member,         \* the accounts
    Entity,         \* the ids of projects and assets
    MaxVersions,    \* bound: versions made
    MaxOtherEdits,  \* bound: versions made on another device
    MaxNetFaults,   \* bound: requests that fail, or whose answer is lost
    MaxSessions     \* bound: sign-ins

ASSUME SyncAssumption ==
    /\ "guest" \notin Member
    /\ {MaxVersions, MaxOtherEdits, MaxNetFaults, MaxSessions} \subseteq Nat

VARIABLES
    server,     \* server[u]: the version of each entity the server holds
    cached,     \* cached[u]: the version of each entity in the tab's store
    cookie,     \* the account of the session cookie
    active,     \* the account of the tab's storage scope
    hydrated,   \* the session is hydrated: the workspace is shown, edits are made
    remote,     \* the module state: [account, phase, acked]
    syncing,    \* the sync under way: [at, retry, puts, deletions]
    syncQueued, \* the sync under way is to do another round
    syncTimer,  \* the timer of the next sync is set
    tail,       \* the operations behind remoteOperationTail, head first
    versions,   \* the versions made so far
    baseline,   \* versions made when the session was last hydrated
    otherEdits, netFaults, sessions     \* use of the bounds

syncVars == <<server, cached, cookie, active, hydrated, remote, syncing, syncQueued, syncTimer,
              tail, versions, baseline, otherEdits, netFaults, sessions>>

Guest == "guest"
NoVersion == [by |-> Guest, n |-> 0]
Nothing == [e \in Entity |-> NoVersion]
NoSync == [at |-> "no", retry |-> FALSE, puts |-> Nothing, deletions |-> {}]
NoBaseline == [account |-> Guest, phase |-> "inactive", acked |-> Nothing]
SwitchTo(u) == [op |-> "switch", to |-> u]
HydrateFrom(u) == [op |-> "hydrate", to |-> u]
Sync == [op |-> "sync", to |-> Guest]
DeleteOf(e) == [op |-> "delete", to |-> e]

SyncInit ==
    /\ server = [u \in Member |-> Nothing]
    /\ cached = [u \in Member \cup {Guest} |-> Nothing]
    /\ cookie = Guest /\ active = Guest /\ hydrated = TRUE
    /\ remote = NoBaseline /\ syncing = NoSync /\ syncQueued = FALSE /\ syncTimer = FALSE
    /\ tail = <<>> /\ versions = 0 /\ baseline = 0
    /\ otherEdits = 0 /\ netFaults = 0 /\ sessions = 0

-----------------------------------------------------------------------------
(* Mutant: the cache will do for a baseline.                               *)
SignedIn == remote.account # Guest

Ready == remote.account # Guest /\ remote.phase = "ready"
Local == cached[active]
Foremost(op) == tail # <<>> /\ tail[1].op = op
NewVersion == [by |-> active, n |-> versions + 1]

(* Mutant: an edit made during a sync asks for nothing.                    *)
ScheduledWhenIdle ==
    /\ UNCHANGED syncQueued
    /\ syncTimer' = (syncTimer \/ (Ready /\ syncing.at = "no"))

(* scheduleRemoteUserDataSync, called by the stores on every change.       *)
Scheduled ==
    /\ syncQueued' = (syncQueued \/ (Ready /\ syncing.at # "no"))
    /\ syncTimer' = (syncTimer \/ (Ready /\ syncing.at = "no"))

(* saveRemoteUserDataNow: joins the sync under way and asks it for another *)
(* round, or starts one behind the operations of the tail.                 *)
SaveNow(retry) ==
    CASE ~Ready -> UNCHANGED <<syncing, syncQueued, tail>>
      [] Ready /\ syncing.at # "no" ->
            /\ syncQueued' = TRUE /\ UNCHANGED tail
            /\ syncing' = [syncing EXCEPT !.retry = @ \/ retry]
      [] OTHER ->
            /\ syncing' = [NoSync EXCEPT !.at = "waiting", !.retry = retry]
            /\ tail' = Append(tail, Sync) /\ UNCHANGED syncQueued

(* Mutant: the operation stays at the head of the tail.                    *)
SyncEndsInPlace(failed) ==
    /\ syncing' = NoSync /\ UNCHANGED tail
    /\ syncTimer' = (syncTimer \/ (failed /\ syncing.retry /\ Ready))

(* The sync ends; whoever created a project with it schedules another try  *)
(* when it failed.                                                         *)
SyncEnds(failed) ==
    /\ syncing' = NoSync /\ tail' = Tail(tail)
    /\ syncTimer' = (syncTimer \/ (failed /\ syncing.retry /\ Ready))

-----------------------------------------------------------------------------
(* The session: login, logout and switchUserStorageScope.                  *)
SignIn(u) ==
    /\ hydrated /\ active = Guest /\ sessions < MaxSessions
    /\ sessions' = sessions + 1
    /\ cookie' = u /\ hydrated' = FALSE /\ tail' = Append(tail, SwitchTo(u))
    /\ UNCHANGED <<server, cached, active, remote, syncing, syncQueued, syncTimer, versions,
                   baseline, otherEdits, netFaults>>

SignOut ==
    /\ hydrated /\ active # Guest
    /\ cookie' = Guest /\ hydrated' = FALSE /\ tail' = Append(tail, SwitchTo(Guest))
    /\ UNCHANGED <<server, cached, active, remote, syncing, syncQueued, syncTimer, versions,
                   baseline, otherEdits, netFaults, sessions>>

SwitchScope ==
    LET u == tail[1].to
    IN  /\ Foremost("switch")
        /\ remote' = NoBaseline /\ syncQueued' = FALSE /\ syncTimer' = FALSE
        /\ active' = u
        /\ hydrated' = (u = Guest)
        /\ tail' = IF u = Guest THEN Tail(tail) ELSE Append(Tail(tail), HydrateFrom(u))
        /\ UNCHANGED <<server, cached, cookie, syncing, versions, baseline,
                       otherEdits, netFaults, sessions>>

(* syncRemoteUserData: the snapshot replaces the cache and becomes the     *)
(* baseline; without it the cache stays, and nothing is uploaded.          *)
Hydrate ==
    LET u == tail[1].to
    IN  /\ Foremost("hydrate")
        /\ hydrated' = TRUE /\ tail' = Tail(tail) /\ baseline' = versions
        /\ \/ /\ cached' = [cached EXCEPT ![active] = server[cookie]]
              /\ remote' = [account |-> u, phase |-> "ready", acked |-> server[cookie]]
              /\ UNCHANGED netFaults
           \/ /\ netFaults < MaxNetFaults /\ netFaults' = netFaults + 1
              /\ remote' = [account |-> u, phase |-> "failed", acked |-> Nothing]
              /\ UNCHANGED cached
        /\ UNCHANGED <<server, cookie, active, syncing, syncQueued, syncTimer, versions,
                       otherEdits, sessions>>

(* The tab is closed and opened again: what was scheduled is gone, the     *)
(* session is taken up from the cookie.                                    *)
ReloadClient ==
    /\ sessions < MaxSessions /\ sessions' = sessions + 1
    /\ remote' = NoBaseline /\ syncing' = NoSync /\ syncQueued' = FALSE /\ syncTimer' = FALSE
    /\ hydrated' = FALSE /\ tail' = <<SwitchTo(cookie)>>
    /\ UNCHANGED <<server, cached, cookie, active, versions, baseline, otherEdits, netFaults>>

-----------------------------------------------------------------------------
(* A change of the store: an edit or a removal, saved after a while.       *)
EditEntity(e) ==
    /\ hydrated /\ active # Guest /\ versions < MaxVersions
    /\ versions' = versions + 1
    /\ \E v \in {NewVersion, NoVersion} :
        /\ v = NoVersion => Local[e] # NoVersion
        /\ cached' = [cached EXCEPT ![active][e] = v]
    /\ Scheduled
    /\ UNCHANGED <<server, cookie, active, hydrated, remote, syncing, tail, baseline,
                   otherEdits, netFaults, sessions>>

(* createCanvasProjectWithRemoteSync: a new entity, saved at once.         *)
CreateEntity(e) ==
    /\ hydrated /\ active # Guest /\ versions < MaxVersions /\ Local[e] = NoVersion
    /\ versions' = versions + 1
    /\ cached' = [cached EXCEPT ![active][e] = NewVersion]
    /\ syncTimer' = (syncTimer \/ (Ready /\ syncing.at = "no"))
    /\ SaveNow(TRUE)
    /\ UNCHANGED <<server, cookie, active, hydrated, remote, baseline, otherEdits, netFaults, sessions>>

TimerFires ==
    /\ syncTimer /\ syncTimer' = FALSE
    /\ SaveNow(FALSE)
    /\ UNCHANGED <<server, cached, cookie, active, hydrated, remote, versions, baseline,
                   otherEdits, netFaults, sessions>>

(* saveRemoteUserDataBatch: what differs from the acknowledged versions is *)
(* fixed when the round begins.                                            *)
BeginBatch ==
    /\ Foremost("sync") /\ (syncing.at = "waiting" \/ (syncing.at = "sending" /\ syncQueued))
    /\ syncing.puts = Nothing /\ syncing.deletions = {}
    /\ IF syncing.at = "waiting" /\ ~Ready
       THEN SyncEnds(TRUE) /\ UNCHANGED syncQueued
       ELSE /\ syncQueued' = FALSE
            /\ syncing' = [syncing EXCEPT
                    !.at = "sending",
                    !.puts = [e \in Entity |-> IF Local[e] = remote.acked[e] THEN NoVersion ELSE Local[e]],
                    !.deletions = {e \in Entity : remote.acked[e] # NoVersion /\ Local[e] = NoVersion}]
            /\ UNCHANGED <<syncTimer, tail>>
    /\ UNCHANGED <<server, cached, cookie, active, hydrated, remote, versions, baseline,
                   otherEdits, netFaults, sessions>>

Reached(e, v) == server' = [server EXCEPT ![cookie][e] = v]

(* One upsert or deletion of the round.                                    *)
SendOne(e) ==
    /\ syncing.at = "sending" /\ cookie # Guest
    /\ syncing.puts[e] # NoVersion \/ e \in syncing.deletions
    /\ Reached(e, syncing.puts[e])
    /\ remote' = [remote EXCEPT !.acked[e] = syncing.puts[e]]
    /\ syncing' = [syncing EXCEPT !.puts[e] = NoVersion, !.deletions = @ \ {e}]
    /\ UNCHANGED <<cached, cookie, active, hydrated, syncQueued, syncTimer, tail, versions, baseline,
                   otherEdits, netFaults, sessions>>

(* It fails, before or after the server has done it, and the round with    *)
(* it; without a session every request fails.                              *)
SendFails(e) ==
    /\ syncing.at = "sending"
    /\ syncing.puts[e] # NoVersion \/ e \in syncing.deletions
    /\ IF cookie = Guest THEN UNCHANGED <<server, netFaults>>
       ELSE /\ netFaults < MaxNetFaults /\ netFaults' = netFaults + 1
            /\ UNCHANGED server \/ Reached(e, syncing.puts[e])
    /\ SyncEnds(TRUE)
    /\ UNCHANGED <<cached, cookie, active, hydrated, remote, syncQueued, versions, baseline,
                   otherEdits, sessions>>

EndSync ==
    /\ syncing.at = "sending" /\ ~syncQueued
    /\ syncing.puts = Nothing /\ syncing.deletions = {}
    /\ SyncEnds(FALSE)
    /\ UNCHANGED <<server, cached, cookie, active, hydrated, remote, syncQueued, versions, baseline,
                   otherEdits, netFaults, sessions>>

-----------------------------------------------------------------------------
(* deleteAssetWithRemoteSync, deleteCanvasProjectsWithRemoteSync.          *)
AskDelete(e) ==
    /\ hydrated /\ active # Guest /\ Local[e] # NoVersion
    /\ DeleteOf(e) \notin {tail[i] : i \in DOMAIN tail}
    /\ tail' = Append(tail, DeleteOf(e))
    /\ UNCHANGED <<server, cached, cookie, active, hydrated, remote, syncing, syncQueued, syncTimer,
                   versions, baseline, otherEdits, netFaults, sessions>>

(* The server first, then the store.  A failure leaves both the store and  *)
(* what is acknowledged, even when the server has done it.                 *)
DeleteEntity ==
    LET e == tail[1].to
    IN  /\ Foremost("delete") /\ tail' = Tail(tail)
        /\ \/ /\ Ready /\ cookie # Guest /\ Reached(e, NoVersion)
              /\ remote' = [remote EXCEPT !.acked[e] = NoVersion]
              /\ cached' = [cached EXCEPT ![active][e] = NoVersion]
              /\ Scheduled /\ UNCHANGED netFaults
           \/ /\ ~Ready \/ cookie = Guest
              /\ UNCHANGED <<server, cached, remote, syncQueued, syncTimer, netFaults>>
           \/ /\ Ready /\ cookie # Guest
              /\ netFaults < MaxNetFaults /\ netFaults' = netFaults + 1
              /\ UNCHANGED server \/ Reached(e, NoVersion)
              /\ UNCHANGED <<cached, remote, syncQueued, syncTimer>>
        /\ UNCHANGED <<cookie, active, hydrated, syncing, versions, baseline, otherEdits, sessions>>

(* Another device writes or deletes an entity.                             *)
OtherDevice(u, e) ==
    /\ otherEdits < MaxOtherEdits /\ otherEdits' = otherEdits + 1
    /\ versions < MaxVersions /\ versions' = versions + 1
    /\ \E v \in {[by |-> u, n |-> versions + 1], NoVersion} :
        v # server[u][e] /\ server' = [server EXCEPT ![u][e] = v]
    /\ UNCHANGED <<cached, cookie, active, hydrated, remote, syncing, syncQueued, syncTimer, tail,
                   baseline, netFaults, sessions>>

-----------------------------------------------------------------------------
TailStep ==
    \/ SwitchScope \/ Hydrate \/ BeginBatch \/ EndSync \/ DeleteEntity
    \/ \E e \in Entity : SendOne(e) \/ SendFails(e)

SyncNext ==
    \/ TailStep \/ TimerFires \/ SignOut \/ ReloadClient
    \/ \E u \in Member : SignIn(u) \/ \E e \in Entity : OtherDevice(u, e)
    \/ \E e \in Entity : EditEntity(e) \/ CreateEntity(e) \/ AskDelete(e)

SyncSpec == SyncInit /\ [][SyncNext]_syncVars

(* Promises and timers go on in an open tab.                               *)
SyncFairness == WF_syncVars(TailStep) /\ WF_syncVars(TimerFires)
-----------------------------------------------------------------------------
Version == [by : Member \cup {Guest}, n : 0..MaxVersions]

SyncTypeOK ==
    /\ server \in [Member -> [Entity -> Version]]
    /\ cached \in [Member \cup {Guest} -> [Entity -> Version]]
    /\ cookie \in Member \cup {Guest} /\ active \in Member \cup {Guest}
    /\ hydrated \in BOOLEAN /\ syncQueued \in BOOLEAN /\ syncTimer \in BOOLEAN
    /\ remote \in [account : Member \cup {Guest},
                   phase : {"inactive", "ready", "failed"}, acked : [Entity -> Version]]
    /\ syncing \in [at : {"no", "waiting", "sending"}, retry : BOOLEAN,
                    puts : [Entity -> Version], deletions : SUBSET Entity]
    /\ tail \in Seq([op : {"switch", "hydrate", "sync"}, to : Member \cup {Guest}]
                        \cup [op : {"delete"}, to : Entity])
    /\ (syncing.at = "no") = (Sync \notin {tail[i] : i \in DOMAIN tail})

(* What one account made is never uploaded or hydrated under another,      *)
(* though a sync, a deletion and a sign-out may all wait for each other.   *)
DataStaysWithMember ==
    \A u \in Member, e \in Entity :
        /\ server[u][e].by \in {u, Guest}
        /\ cached[u][e].by \in {u, Guest}

(* A version the server gets was made after the session was hydrated, even *)
(* if that failed: the cache of an earlier session never brings back what  *)
(* was deleted or overwrites what was changed elsewhere.                   *)
NoStaleUpload ==
    [][\A u \in Member, e \in Entity :
        server'[u][e] \in {server[u][e], NoVersion} \/ server'[u][e].n > baseline]_syncVars

(* Unless a request fails, an edit made in a session with a baseline is    *)
(* uploaded, whatever was under way when it was made.                      *)
EditsReachServer ==
    (Ready /\ Local # remote.acked) ~> (~Ready \/ Local = remote.acked)
=============================================================================
