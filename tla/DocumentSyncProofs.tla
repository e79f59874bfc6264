------------------------- MODULE DocumentSyncProofs -------------------------
(***************************************************************************)
(* Proofs about the documents of the browser, for any tabs, nodes, edits,  *)
(* accounts, entities and bounds.                                          *)
(*                                                                         *)
(* Part 1, RemoteSync.  A version is uploaded under the cookie of the      *)
(* moment, long after the round was put together from the tab's store, and *)
(* the cookie changes as soon as the user signs out.  What keeps accounts  *)
(* and sessions apart is the order of the tail: while a round is being     *)
(* sent it is at the head (SessionOK), and a change of account that waits  *)
(* behind it keeps the workspace closed (TailOK).                          *)
(*                                                                         *)
(* Part 2, CanvasDocument.  An ordinary save is a projection of a store    *)
(* that may show a result nobody has committed.  That the save does not    *)
(* carry it needs to be known of everything the save is made of: the       *)
(* store shows a result with its stamp only, the attempt knows what was    *)
(* there before, and what the tab has observed is clean (StampInv).        *)
(* That no save takes a stamp away needs to be known of every save that is *)
(* queued, sent or about to be based on one that was sent: none drops a    *)
(* stamp that its base has (StampsOnlyAdded).                              *)
(*                                                                         *)
(* Part 3, CanvasDocument with a single tab.  Between a write and the      *)
(* moment the tab takes note of it, the tab knows less than the document;  *)
(* at every other moment what it has observed, and what it has queued is   *)
(* based on, is the document (SoleReads), so that an ordinary save         *)
(* replaces it.  What a save carries in place of what the tab shows is     *)
(* then all that could be lost: nodes (NoneMissingInv), and edits to a node    *)
(* that shows a result which is not, or not yet, in the document           *)
(* (SaveInv).                                                              *)
(***************************************************************************)
EXTENDS RemoteSync, CanvasDocument, TLAPS

-----------------------------------------------------------------------------
(* Part 1: synchronisation.                                                *)

Someone == Member \cup {Guest}
Operation == [op : {"switch", "hydrate", "sync"}, to : Someone] \cup [op : {"delete"}, to : Entity]
Versions == [Entity -> Version]

\* What the tail says of a session that is being changed: h is hydrated, c the
\* cookie, a the active account.
ChangesAccount(x) == x.op \in {"switch", "hydrate"}

TailOK(s, h, c, a) ==
    /\ \A i, j \in 1..Len(s) : s[i].op = "sync" /\ s[j].op = "sync" => i = j
    /\ \A i, j \in 1..Len(s) : ChangesAccount(s[i]) /\ ChangesAccount(s[j]) => i = j
    /\ \A i \in 1..Len(s) : ChangesAccount(s[i]) => ~h /\ s[i].to = c
    /\ \A i \in 1..Len(s) : s[i].op = "hydrate" => a = c /\ c # Guest
    /\ \A i \in 1..Len(s) : s[i].op = "sync" => s[i] = Sync

HasSync(s) == \E i \in 1..Len(s) : s[i].op = "sync"

SyncTypes ==
    /\ server \in [Member -> Versions]
    /\ cached \in [Someone -> Versions]
    /\ cookie \in Someone /\ active \in Someone
    /\ hydrated \in BOOLEAN /\ syncQueued \in BOOLEAN /\ syncTimer \in BOOLEAN
    /\ remote \in [account : Someone, phase : {"inactive", "ready", "failed"}, acked : Versions]
    /\ syncing \in [at : {"no", "waiting", "sending"}, retry : BOOLEAN,
                    puts : Versions, deletions : SUBSET Entity]
    /\ tail \in Seq(Operation)
    /\ versions \in 0..MaxVersions /\ baseline \in 0..MaxVersions /\ baseline <= versions
    /\ (syncing.at = "no") = ~HasSync(tail)

SessionOK ==
    /\ TailOK(tail, hydrated, cookie, active)
    /\ hydrated => cookie = active
    /\ remote.account # Guest => remote.account = active
    /\ Ready => cookie \in {active, Guest}
    /\ syncing.at = "sending" => Foremost("sync") /\ Ready
    /\ syncing.at # "sending" => syncing.puts = Nothing /\ syncing.deletions = {}

\* Nobody's versions are in another's store, on the server or on their way.
Owned ==
    /\ \A u \in Someone, e \in Entity : cached[u][e].by \in {u, Guest}
    /\ \A u \in Member, e \in Entity : server[u][e].by \in {u, Guest}
    /\ \A e \in Entity : syncing.puts[e].by \in {active, Guest}

\* What differs from the acknowledged version was made in this session, and
\* still is while a round is on its way.
Newer(v, b) == v = NoVersion \/ v.n > b

Fresh ==
    /\ Ready => \A e \in Entity : Local[e] = remote.acked[e] \/ Newer(Local[e], baseline)
    /\ \A e \in Entity :
         syncing.puts[e] # NoVersion \/ e \in syncing.deletions
           => Newer(syncing.puts[e], baseline) /\ Newer(Local[e], baseline)

SyncInv == SyncTypes /\ SessionOK /\ Owned /\ Fresh

-----------------------------------------------------------------------------
(* The tail.                                                               *)

LEMMA AppendIsThere ==
    ASSUME NEW s \in Seq(Operation), NEW x \in Operation
    PROVE  /\ Append(s, x) \in Seq(Operation)
           /\ Len(Append(s, x)) = Len(s) + 1 /\ Len(s) \in Nat
           /\ \A i \in 1..Len(s) : Append(s, x)[i] = s[i]
           /\ Append(s, x)[Len(s) + 1] = x
  OBVIOUS

LEMMA TailIsRest ==
    ASSUME NEW s \in Seq(Operation), s # <<>>
    PROVE  /\ Tail(s) \in Seq(Operation)
           /\ Len(s) \in Nat \ {0} /\ Len(Tail(s)) = Len(s) - 1
           /\ \A i \in 1..Len(Tail(s)) : Tail(s)[i] = s[i + 1]
  OBVIOUS

LEMMA OperationsAreTyped ==
    /\ Sync \in Operation /\ Sync.op = "sync"
    /\ \A u \in Someone : /\ SwitchTo(u) \in Operation /\ HydrateFrom(u) \in Operation
                          /\ SwitchTo(u).op = "switch" /\ HydrateFrom(u).op = "hydrate"
                          /\ SwitchTo(u).to = u /\ HydrateFrom(u).to = u
    /\ \A e \in Entity : DeleteOf(e) \in Operation /\ DeleteOf(e).op = "delete"
  BY DEF Sync, SwitchTo, HydrateFrom, DeleteOf, Operation, Someone

\* An operation is appended that neither changes the session nor doubles a sync.
LEMMA AppendKeepsTail ==
    ASSUME NEW s \in Seq(Operation), NEW x \in Operation, NEW h, NEW c, NEW a,
           TailOK(s, h, c, a), ~ChangesAccount(x), x.op = "sync" => ~HasSync(s) /\ x = Sync
    PROVE  /\ TailOK(Append(s, x), h, c, a)
           /\ HasSync(Append(s, x)) <=> HasSync(s) \/ x.op = "sync"
<1> DEFINE t == Append(s, x)
<1>1. /\ t \in Seq(Operation)
      /\ Len(t) = Len(s) + 1 /\ Len(s) \in Nat
      /\ \A i \in 1..Len(s) : t[i] = s[i]
      /\ t[Len(s) + 1] = x
  BY AppendIsThere
<1> HIDE DEF t
<1>2. \A i \in 1..Len(t) : (i \in 1..Len(s) /\ t[i] = s[i]) \/ (i = Len(s) + 1 /\ t[i] = x)
  BY <1>1
<1>3. \A i \in 1..Len(s) : i \in 1..Len(t)
  BY <1>1
<1>4. HasSync(t) <=> HasSync(s) \/ x.op = "sync"
  BY <1>1, <1>2, <1>3 DEF HasSync
<1>5. x.op # "hydrate"
  BY DEF ChangesAccount
<1>6. TailOK(t, h, c, a)
  BY <1>2, <1>5 DEF TailOK, HasSync
<1>7. QED
  BY <1>4, <1>6 DEF t

\* The session is changed while no other change waits.
LEMMA AppendChange ==
    ASSUME NEW s \in Seq(Operation), NEW c, NEW a, NEW x \in Operation,
           NEW d, NEW b,
           TailOK(s, TRUE, c, a), x.op = "switch", x.to = d
    PROVE  /\ TailOK(Append(s, x), FALSE, d, b)
           /\ HasSync(Append(s, x)) <=> HasSync(s)
<1> DEFINE t == Append(s, x)
<1>1. /\ t \in Seq(Operation)
      /\ Len(t) = Len(s) + 1 /\ Len(s) \in Nat
      /\ \A i \in 1..Len(s) : t[i] = s[i]
      /\ t[Len(s) + 1] = x
  BY AppendIsThere
<1> HIDE DEF t
<1>2. \A i \in 1..Len(t) : (i \in 1..Len(s) /\ t[i] = s[i]) \/ (i = Len(s) + 1 /\ t[i] = x)
  BY <1>1
<1>3. \A i \in 1..Len(s) : i \in 1..Len(t) /\ ~ChangesAccount(s[i])
  BY <1>1 DEF TailOK
<1>4. HasSync(t) <=> HasSync(s)
  BY <1>1, <1>2, <1>3 DEF HasSync
<1>5. TailOK(t, FALSE, d, b)
  BY <1>2, <1>3 DEF TailOK, ChangesAccount
<1>6. QED
  BY <1>4, <1>5 DEF t

\* The snapshot is asked for once the change is done.
LEMMA HydrateComes ==
    ASSUME NEW s \in Seq(Operation), NEW c, NEW a, NEW x \in Operation,
           \A g, d, b : TailOK(s, g, d, b), x.op = "hydrate", x.to = c, a = c, c # Guest
    PROVE  /\ Append(s, x) \in Seq(Operation)
           /\ TailOK(Append(s, x), FALSE, c, a)
           /\ HasSync(Append(s, x)) <=> HasSync(s)
<1> DEFINE t == Append(s, x)
<1>1. /\ t \in Seq(Operation)
      /\ Len(t) = Len(s) + 1 /\ Len(s) \in Nat
      /\ \A i \in 1..Len(s) : t[i] = s[i]
      /\ t[Len(s) + 1] = x
  BY AppendIsThere
<1> HIDE DEF t
<1>2. \A i \in 1..Len(t) : (i \in 1..Len(s) /\ t[i] = s[i]) \/ (i = Len(s) + 1 /\ t[i] = x)
  BY <1>1
<1>3. TailOK(s, TRUE, c, a)
  OBVIOUS
<1>4. \A i \in 1..Len(s) : i \in 1..Len(t) /\ ~ChangesAccount(s[i])
  BY <1>1, <1>3 DEF TailOK
<1>5. HasSync(t) <=> HasSync(s)
  BY <1>1, <1>2, <1>4 DEF HasSync
<1>6. TailOK(t, FALSE, c, a)
  BY <1>2, <1>3, <1>4 DEF TailOK, ChangesAccount
<1>7. QED
  BY <1>1, <1>5, <1>6 DEF t

\* The head is done.
LEMMA TailKeepsTail ==
    ASSUME NEW s \in Seq(Operation), s # <<>>, NEW h, NEW c, NEW a, TailOK(s, h, c, a)
    PROVE  /\ Tail(s) \in Seq(Operation)
           /\ TailOK(Tail(s), h, c, a)
           /\ s[1].op = "sync" => ~HasSync(Tail(s))
           /\ s[1].op # "sync" => (HasSync(Tail(s)) <=> HasSync(s))
           /\ ChangesAccount(s[1]) => \A g, d, b : TailOK(Tail(s), g, d, b)
<1> DEFINE t == Tail(s)
<1>1. /\ t \in Seq(Operation)
      /\ Len(s) \in Nat \ {0} /\ Len(t) = Len(s) - 1
      /\ \A i \in 1..Len(t) : t[i] = s[i + 1]
  BY TailIsRest
<1> HIDE DEF t
<1>2. \A i \in 1..Len(t) : i + 1 \in 1..Len(s) /\ i + 1 # 1 /\ t[i] = s[i + 1]
  BY <1>1
<1>3. \A i \in 1..Len(s) : i = 1 \/ (i - 1 \in 1..Len(t) /\ t[i - 1] = s[i])
  BY <1>1
<1>4. 1 \in 1..Len(s)
  BY <1>1
<1>5. \A i, j \in 1..Len(t) : i + 1 = j + 1 => i = j
  BY <1>1
<1>6. TailOK(t, h, c, a)
  <2>1. \A i, j \in 1..Len(t) : t[i].op = "sync" /\ t[j].op = "sync" => i = j
    BY <1>2, <1>5 DEF TailOK
  <2>2. \A i, j \in 1..Len(t) : ChangesAccount(t[i]) /\ ChangesAccount(t[j]) => i = j
    BY <1>2, <1>5 DEF TailOK
  <2>3. QED
    BY <1>2, <2>1, <2>2 DEF TailOK
<1>7. s[1].op = "sync" => ~HasSync(t)
  BY <1>2, <1>4 DEF TailOK, HasSync
<1>8. s[1].op # "sync" => (HasSync(t) <=> HasSync(s))
  BY <1>2, <1>3 DEF HasSync
<1>9. ASSUME ChangesAccount(s[1]), NEW g, NEW d, NEW b
      PROVE  TailOK(t, g, d, b)
  <2>1. \A i \in 1..Len(t) : ~ChangesAccount(t[i])
    BY <1>2, <1>4, <1>9 DEF TailOK
  <2>2. QED
    BY <1>6, <2>1 DEF TailOK, ChangesAccount
<1>10. QED
  BY <1>1, <1>6, <1>7, <1>8, <1>9 DEF t

-----------------------------------------------------------------------------
LEMMA SyncInvInit == SyncInit => SyncInv
<1> SUFFICES ASSUME SyncInit PROVE SyncInv
  OBVIOUS
<1> USE SyncAssumption DEF SyncInit
<1>1. NoVersion \in Version /\ Nothing \in Versions
  BY DEF NoVersion, Version, Nothing, Versions, Guest
<1>2. Len(tail) = 0 /\ ~HasSync(tail) /\ tail \in Seq(Operation)
  BY DEF HasSync
<1>3. SyncTypes
  <2>1. NoBaseline \in [account : Someone, phase : {"inactive", "ready", "failed"}, acked : Versions]
    BY <1>1 DEF NoBaseline, Someone
  <2>2. /\ NoSync \in [at : {"no", "waiting", "sending"}, retry : BOOLEAN,
                       puts : Versions, deletions : SUBSET Entity]
        /\ NoSync.at = "no"
    BY <1>1 DEF NoSync
  <2>3. 0 \in 0..MaxVersions
    OBVIOUS
  <2>4. server \in [Member -> Versions] /\ cached \in [Someone -> Versions]
    BY <1>1 DEF Someone
  <2>5. syncing.at = "no" /\ Guest \in Someone
    BY <2>2 DEF Someone
  <2>6. (syncing.at = "no") = ~HasSync(tail)
    BY <1>2, <2>5
  <2>7. cookie \in Someone /\ active \in Someone /\ baseline <= versions
    BY <2>5
  <2>8. QED
    BY <1>2, <2>1, <2>2, <2>3, <2>4, <2>6, <2>7 DEF SyncTypes
<1>4. SessionOK
  BY <1>2 DEF SessionOK, TailOK, NoBaseline, NoSync, Ready
<1>5. Owned
  BY DEF Owned, Nothing, NoVersion, NoSync, Someone
<1>6. Fresh
  BY DEF Fresh, Ready, NoBaseline, NoSync, Nothing, NoVersion
<1>7. QED
  BY <1>3, <1>4, <1>5, <1>6 DEF SyncInv

-----------------------------------------------------------------------------
(* The session.                                                            *)

\* A step that leaves stores, server and uploads alone keeps what is known of
\* the versions.
LEMMA VersionsKept ==
    ASSUME SyncInv, UNCHANGED <<server, cached, active, remote, syncing, baseline>>
    PROVE  Owned' /\ Fresh'
  BY DEF SyncInv, Owned, Fresh, Ready, Local

LEMMA SignInKeeps ==
    ASSUME SyncInv, NEW u \in Member, SignIn(u)
    PROVE  SyncInv'
<1> USE DEF SyncInv
<1>1. /\ tail' \in Seq(Operation)
      /\ TailOK(tail', FALSE, u, active)
      /\ HasSync(tail') <=> HasSync(tail)
  <2>1. /\ SwitchTo(u) \in Operation /\ SwitchTo(u).op = "switch" /\ SwitchTo(u).to = u
        /\ tail \in Seq(Operation) /\ tail' = Append(tail, SwitchTo(u))
    BY OperationsAreTyped DEF SignIn, SyncTypes, Someone
  <2>2. hydrated = TRUE
    BY DEF SignIn, SyncTypes
  <2>3. TailOK(tail, TRUE, cookie, active)
    BY <2>2 DEF SessionOK
  <2>4. QED
    BY <2>1, <2>3, AppendChange, AppendIsThere
<1>2. tail # <<>> => tail' # <<>> /\ tail'[1] = tail[1]
  BY AppendIsThere, OperationsAreTyped DEF SignIn, SyncTypes, Someone
<1>3. SyncTypes'
  BY <1>1 DEF SyncTypes, SignIn, Someone
<1>4. SessionOK'
  <2>1. ~Ready
    BY DEF SignIn, SessionOK, Ready
  <2>2. QED
    BY <1>1, <1>2, <2>1 DEF SessionOK, SignIn, Ready, Foremost
<1>5. Owned' /\ Fresh'
  BY VersionsKept DEF SignIn
<1>6. QED
  BY <1>3, <1>4, <1>5

LEMMA SignOutKeeps ==
    ASSUME SyncInv, SignOut
    PROVE  SyncInv'
<1> USE DEF SyncInv
<1>1. /\ tail' \in Seq(Operation)
      /\ TailOK(tail', FALSE, Guest, active)
      /\ HasSync(tail') <=> HasSync(tail)
  <2>1. /\ SwitchTo(Guest) \in Operation /\ SwitchTo(Guest).op = "switch" /\ SwitchTo(Guest).to = Guest
        /\ tail \in Seq(Operation) /\ tail' = Append(tail, SwitchTo(Guest))
    BY OperationsAreTyped DEF SignOut, SyncTypes, Someone
  <2>2. hydrated = TRUE
    BY DEF SignOut, SyncTypes
  <2>3. TailOK(tail, TRUE, cookie, active)
    BY <2>2 DEF SessionOK
  <2>4. QED
    BY <2>1, <2>3, AppendChange, AppendIsThere
<1>2. tail # <<>> => tail' # <<>> /\ tail'[1] = tail[1]
  BY AppendIsThere, OperationsAreTyped DEF SignOut, SyncTypes, Someone
<1>3. SyncTypes'
  BY <1>1 DEF SyncTypes, SignOut, Someone
<1>4. SessionOK'
  BY <1>1, <1>2 DEF SessionOK, SignOut, Ready, Foremost
<1>5. Owned' /\ Fresh'
  BY VersionsKept DEF SignOut
<1>6. QED
  BY <1>3, <1>4, <1>5

LEMMA SwitchKeeps ==
    ASSUME SyncInv, SwitchScope
    PROVE  SyncInv'
<1> USE DEF SyncInv
<1> DEFINE u == tail[1].to
<1>1. /\ tail # <<>> /\ tail[1] \in Operation /\ tail[1].op = "switch"
      /\ 1 \in 1..Len(tail) /\ tail \in Seq(Operation)
  BY DEF SwitchScope, Foremost, SyncTypes
<1>2. u \in Someone /\ ChangesAccount(tail[1]) /\ u = cookie /\ ~hydrated
  BY <1>1 DEF Operation, ChangesAccount, SessionOK, TailOK
<1>3. syncing.at # "sending"
  BY <1>1 DEF SessionOK, Foremost
<1>4. /\ Tail(tail) \in Seq(Operation)
      /\ \A g, d, b : TailOK(Tail(tail), g, d, b)
      /\ HasSync(Tail(tail)) <=> HasSync(tail)
  <2>1. TailOK(tail, hydrated, cookie, active)
    BY DEF SessionOK
  <2>2. QED
    BY <1>1, <1>2, <2>1, TailKeepsTail
<1>5. /\ tail' \in Seq(Operation)
      /\ TailOK(tail', hydrated', cookie', active')
      /\ HasSync(tail') <=> HasSync(tail)
  <2>1. CASE u = Guest
    BY <1>4, <2>1 DEF SwitchScope
  <2>2. CASE u # Guest
    <3>1. tail' = Append(Tail(tail), HydrateFrom(u)) /\ ~hydrated' /\ active' = cookie'
      BY <1>2, <2>2 DEF SwitchScope
    <3>2. HydrateFrom(u) \in Operation /\ HydrateFrom(u).op = "hydrate" /\ HydrateFrom(u).to = cookie
      BY <1>2, OperationsAreTyped
    <3>3. QED
      BY <1>2, <1>4, <2>2, <3>1, <3>2, HydrateComes DEF SwitchScope
  <2>3. QED
    BY <2>1, <2>2
<1>6. remote'.account = Guest /\ remote' \in [account : Someone, phase : {"inactive", "ready", "failed"}, acked : Versions]
  BY SyncAssumption DEF SwitchScope, NoBaseline, Someone, Nothing, NoVersion, Version, Versions
<1>7. SyncTypes'
  BY <1>2, <1>5, <1>6 DEF SyncTypes, SwitchScope
<1>8. SessionOK'
  BY <1>2, <1>3, <1>5, <1>6 DEF SessionOK, SwitchScope, Ready
<1>9. Owned' /\ Fresh'
  <2>1. syncing.puts = Nothing /\ syncing.deletions = {}
    BY <1>3 DEF SessionOK
  <2>2. Fresh'
    BY <1>6, <2>1 DEF Fresh, SwitchScope, Ready, Nothing
  <2>3. Owned'
    BY <2>1 DEF Owned, SwitchScope, Nothing, NoVersion
  <2>4. QED
    BY <2>2, <2>3
<1>10. QED
  BY <1>7, <1>8, <1>9

LEMMA HydrateKeeps ==
    ASSUME SyncInv, Hydrate
    PROVE  SyncInv'
<1> USE DEF SyncInv
<1> DEFINE u == tail[1].to
<1>1. /\ tail # <<>> /\ tail[1] \in Operation /\ tail[1].op = "hydrate"
      /\ 1 \in 1..Len(tail) /\ tail \in Seq(Operation)
  BY DEF Hydrate, Foremost, SyncTypes
<1>2. /\ ChangesAccount(tail[1]) /\ u = cookie /\ ~hydrated /\ active = cookie
      /\ cookie \in Member
  BY <1>1 DEF ChangesAccount, SessionOK, TailOK, SyncTypes, Someone
<1>3. syncing.at # "sending" /\ syncing.puts = Nothing /\ syncing.deletions = {}
  BY <1>1 DEF SessionOK, Foremost
<1>4. /\ tail' \in Seq(Operation)
      /\ TailOK(tail', hydrated', cookie', active')
      /\ HasSync(tail') <=> HasSync(tail)
  <2>1. TailOK(tail, hydrated, cookie, active)
    BY DEF SessionOK
  <2>2. QED
    BY <1>1, <1>2, <2>1, TailKeepsTail DEF Hydrate
<1>5. /\ remote'.account = cookie
      /\ remote' \in [account : Someone, phase : {"inactive", "ready", "failed"}, acked : Versions]
      /\ remote'.phase = "ready" =>
           remote'.acked = server[cookie] /\ cached' = [cached EXCEPT ![active] = server[cookie]]
      /\ cached' \in [Someone -> Versions]
      /\ cached' = cached \/ cached' = [cached EXCEPT ![active] = server[cookie]]
  <2>1. Nothing \in Versions
    BY SyncAssumption DEF Nothing, NoVersion, Version, Versions
  <2>2. server[cookie] \in Versions /\ cookie \in Someone
    BY <1>2 DEF SyncTypes
  <2>3. QED
    BY <1>2, <2>1, <2>2 DEF Hydrate, SyncTypes
<1>6. SyncTypes'
  BY <1>2, <1>4, <1>5 DEF SyncTypes, Hydrate
<1>7. SessionOK'
  BY <1>2, <1>3, <1>4, <1>5 DEF SessionOK, Hydrate, Ready
<1>8. Owned'
  <2>1. \A v \in Someone, e \in Entity : cached'[v][e].by \in {v, Guest}
    BY <1>2, <1>5 DEF Owned, SyncTypes
  <2>2. QED
    BY <2>1 DEF Owned, Hydrate
<1>9. Fresh'
  <2>1. Ready' => Local' = remote'.acked
    BY <1>2, <1>5 DEF Ready, Local, Hydrate, SyncTypes
  <2>2. QED
    BY <1>3, <2>1 DEF Fresh, Hydrate, Nothing
<1>10. QED
  BY <1>6, <1>7, <1>8, <1>9

LEMMA ReloadKeeps ==
    ASSUME SyncInv, ReloadClient
    PROVE  SyncInv'
<1> USE DEF SyncInv
<1>1. NoVersion \in Version /\ Nothing \in Versions
  BY SyncAssumption DEF NoVersion, Version, Nothing, Versions, Guest
<1>2. /\ remote' \in [account : Someone, phase : {"inactive", "ready", "failed"}, acked : Versions]
      /\ remote'.account = Guest
  BY <1>1 DEF ReloadClient, NoBaseline, Someone
<1>3. /\ syncing' \in [at : {"no", "waiting", "sending"}, retry : BOOLEAN,
                       puts : Versions, deletions : SUBSET Entity]
      /\ syncing'.at = "no" /\ syncing'.puts = Nothing /\ syncing'.deletions = {}
  BY <1>1 DEF ReloadClient, NoSync
<1>4. /\ tail' \in Seq(Operation) /\ Len(tail') = 1
      /\ tail'[1].op = "switch" /\ tail'[1].to = cookie
  BY OperationsAreTyped DEF ReloadClient, SyncTypes
<1>5. ~HasSync(tail') /\ TailOK(tail', hydrated', cookie', active')
  BY <1>4 DEF HasSync, TailOK, ReloadClient
<1>6. SyncTypes'
  BY <1>2, <1>3, <1>4, <1>5 DEF SyncTypes, ReloadClient
<1>7. SessionOK'
  BY <1>2, <1>3, <1>5 DEF SessionOK, ReloadClient, Ready
<1>8. Owned'
  BY <1>3 DEF Owned, ReloadClient, Nothing, NoVersion
<1>9. Fresh'
  BY <1>2, <1>3 DEF Fresh, ReloadClient, Ready, Nothing
<1>10. QED
  BY <1>6, <1>7, <1>8, <1>9

-----------------------------------------------------------------------------
(* Edits.                                                                  *)

LEMMA NewVersionIsTyped ==
    ASSUME SyncInv, versions < MaxVersions
    PROVE  /\ NewVersion \in Version /\ NewVersion.by = active
           /\ Newer(NewVersion, baseline)
           /\ versions + 1 \in 0..MaxVersions /\ baseline <= versions + 1
  BY SyncAssumption DEF SyncInv, SyncTypes, NewVersion, Version, Newer, Someone

LEMMA NoVersionIsTyped ==
    NoVersion \in Version /\ NoVersion.by = Guest /\ \A b : Newer(NoVersion, b)
  BY SyncAssumption DEF NoVersion, Version, Newer, Guest

\* An edit puts a version of the active account, made now, into its store.
LEMMA EditedStore ==
    ASSUME SyncInv, NEW e \in Entity, NEW v \in Version, v.by \in {active, Guest},
           Newer(v, baseline),
           cached' = [cached EXCEPT ![active][e] = v],
           UNCHANGED <<server, active, remote, baseline>>,
           syncing'.puts = syncing.puts, syncing'.deletions = syncing.deletions
    PROVE  cached' \in [Someone -> Versions] /\ Owned' /\ Fresh'
<1>1. cached \in [Someone -> Versions] /\ active \in Someone
  BY DEF SyncInv, SyncTypes
<1>2. /\ cached' \in [Someone -> Versions]
      /\ \A u \in Someone, f \in Entity :
           cached'[u][f] = IF u = active /\ f = e THEN v ELSE cached[u][f]
  BY <1>1 DEF Versions
<1>3. Owned'
  BY <1>1, <1>2 DEF SyncInv, Owned
<1>4. \A f \in Entity : Local'[f] = IF f = e THEN v ELSE Local[f]
  BY <1>1, <1>2 DEF Local
<1>5. Ready' = Ready
  BY DEF Ready
<1>6. Fresh'
  BY <1>4, <1>5 DEF SyncInv, Fresh
<1>7. QED
  BY <1>2, <1>3, <1>6

LEMMA EditKeeps ==
    ASSUME SyncInv, NEW e \in Entity, EditEntity(e)
    PROVE  SyncInv'
<1> USE DEF SyncInv
<1>1. PICK v \in {NewVersion, NoVersion} : cached' = [cached EXCEPT ![active][e] = v]
  BY DEF EditEntity
<1>2. v \in Version /\ v.by \in {active, Guest} /\ Newer(v, baseline)
  BY NewVersionIsTyped, NoVersionIsTyped DEF EditEntity
<1>3. cached' \in [Someone -> Versions] /\ Owned' /\ Fresh'
  BY <1>1, <1>2, EditedStore DEF EditEntity
<1>4. SyncTypes'
  BY <1>3, NewVersionIsTyped DEF SyncTypes, EditEntity, Scheduled, Ready
<1>5. SessionOK'
  BY DEF SessionOK, EditEntity, Ready, Foremost
<1>6. QED
  BY <1>3, <1>4, <1>5

SyncingType == [at : {"no", "waiting", "sending"}, retry : BOOLEAN,
                puts : Versions, deletions : SUBSET Entity]

\* Asking for a round now adds one to the tail unless there is one.
LEMMA SaveNowKeeps ==
    ASSUME SyncInv, NEW retry \in BOOLEAN, SaveNow(retry)
    PROVE  /\ tail' \in Seq(Operation) /\ TailOK(tail', hydrated, cookie, active)
           /\ tail # <<>> => tail' # <<>> /\ tail'[1] = tail[1]
           /\ syncing' \in SyncingType /\ (syncing'.at = "no") = ~HasSync(tail')
           /\ syncing'.at = "sending" <=> syncing.at = "sending"
           /\ syncing'.puts = syncing.puts /\ syncing'.deletions = syncing.deletions
<1> USE DEF SyncInv
<1>1. /\ syncing \in SyncingType /\ tail \in Seq(Operation)
      /\ TailOK(tail, hydrated, cookie, active) /\ (syncing.at = "no") = ~HasSync(tail)
  BY DEF SyncTypes, SessionOK, SyncingType
<1>2. CASE ~Ready
  BY <1>1, <1>2 DEF SaveNow
<1>3. CASE Ready /\ syncing.at # "no"
  <2>1. tail' = tail /\ syncing' = [syncing EXCEPT !.retry = @ \/ retry]
    BY <1>3 DEF SaveNow
  <2>2. /\ syncing' \in SyncingType /\ syncing'.at = syncing.at
        /\ syncing'.puts = syncing.puts /\ syncing'.deletions = syncing.deletions
    BY <1>1, <2>1 DEF SyncingType
  <2>3. QED
    BY <1>1, <2>1, <2>2
<1>4. CASE Ready /\ syncing.at = "no"
  <2>1. tail' = Append(tail, Sync) /\ syncing' = [NoSync EXCEPT !.at = "waiting", !.retry = retry]
    BY <1>4 DEF SaveNow
  <2>2. Nothing \in Versions
    BY NoVersionIsTyped DEF Nothing, Versions
  <2>3. /\ syncing' \in SyncingType /\ syncing'.at = "waiting"
        /\ syncing'.puts = Nothing /\ syncing'.deletions = {}
    BY <2>1, <2>2 DEF SyncingType, NoSync
  <2>4. syncing.puts = Nothing /\ syncing.deletions = {}
    BY <1>4 DEF SessionOK
  <2>5. ~HasSync(tail) /\ Sync \in Operation /\ Sync.op = "sync" /\ ~ChangesAccount(Sync)
    BY <1>1, <1>4, OperationsAreTyped DEF ChangesAccount
  <2>6. /\ tail' \in Seq(Operation) /\ TailOK(tail', hydrated, cookie, active) /\ HasSync(tail')
    BY <1>1, <2>1, <2>5, AppendKeepsTail, AppendIsThere
  <2>7. tail # <<>> => tail' # <<>> /\ tail'[1] = tail[1]
    BY <1>1, <2>1, <2>5, AppendIsThere
  <2>8. QED
    BY <1>4, <2>3, <2>4, <2>6, <2>7
<1>5. QED
  BY <1>2, <1>3, <1>4

LEMMA CreateKeeps ==
    ASSUME SyncInv, NEW e \in Entity, CreateEntity(e)
    PROVE  SyncInv'
<1> USE DEF SyncInv
<1>1. SaveNow(TRUE)
  BY DEF CreateEntity
<1>2. cached' \in [Someone -> Versions] /\ Owned' /\ Fresh'
  BY <1>1, SaveNowKeeps, NewVersionIsTyped, EditedStore DEF CreateEntity
<1>3. syncQueued' \in BOOLEAN
  BY <1>1 DEF SaveNow, SyncTypes, Ready
<1>4. SyncTypes'
  BY <1>1, <1>2, <1>3, SaveNowKeeps, NewVersionIsTyped
     DEF SyncTypes, SyncingType, CreateEntity, Ready
<1>5. SessionOK'
  BY <1>1, SaveNowKeeps DEF SessionOK, CreateEntity, Ready, Foremost
<1>6. QED
  BY <1>2, <1>4, <1>5

LEMMA TimerKeeps ==
    ASSUME SyncInv, TimerFires
    PROVE  SyncInv'
<1> USE DEF SyncInv
<1>1. SaveNow(FALSE)
  BY DEF TimerFires
<1>2. syncQueued' \in BOOLEAN
  BY <1>1 DEF SaveNow, SyncTypes, Ready
<1>3. SyncTypes'
  BY <1>1, <1>2, SaveNowKeeps DEF SyncTypes, SyncingType, TimerFires
<1>4. SessionOK'
  BY <1>1, SaveNowKeeps DEF SessionOK, TimerFires, Ready, Foremost
<1>5. Owned' /\ Fresh'
  BY <1>1, SaveNowKeeps DEF Owned, Fresh, TimerFires, Ready, Local
<1>6. QED
  BY <1>3, <1>4, <1>5

-----------------------------------------------------------------------------
(* A round.                                                                *)

\* A round that ends leaves the tail, whatever the server has got of it.
LEMMA SyncEndsKeeps ==
    ASSUME SyncInv, NEW failed \in BOOLEAN, Foremost("sync"), SyncEnds(failed),
           UNCHANGED <<cached, cookie, active, hydrated, remote, syncQueued, versions, baseline>>,
           server' \in [Member -> Versions],
           \A u \in Member, e \in Entity : server'[u][e].by \in {u, Guest}
    PROVE  SyncInv'
<1> USE DEF SyncInv
<1>1. /\ tail # <<>> /\ tail[1].op = "sync" /\ tail \in Seq(Operation)
      /\ TailOK(tail, hydrated, cookie, active)
  BY DEF Foremost, SyncTypes, SessionOK
<1>2. /\ tail' \in Seq(Operation) /\ TailOK(tail', hydrated, cookie, active)
      /\ ~HasSync(tail')
  BY <1>1, TailKeepsTail DEF SyncEnds
<1>3. Nothing \in Versions
  BY NoVersionIsTyped DEF Nothing, Versions
<1>4. /\ syncing' \in SyncingType /\ syncing'.at = "no"
      /\ syncing'.puts = Nothing /\ syncing'.deletions = {}
  BY <1>3 DEF SyncEnds, NoSync, SyncingType
<1>5. SyncTypes'
  BY <1>2, <1>4 DEF SyncTypes, SyncingType, SyncEnds, Ready
<1>6. SessionOK'
  BY <1>2, <1>4 DEF SessionOK, Ready
<1>7. Owned'
  BY <1>4 DEF Owned, Nothing, NoVersion
<1>8. Fresh'
  BY <1>4 DEF Fresh, Nothing, Ready, Local
<1>9. QED
  BY <1>5, <1>6, <1>7, <1>8

LEMMA BeginBatchKeeps ==
    ASSUME SyncInv, BeginBatch
    PROVE  SyncInv'
<1> USE DEF SyncInv
<1>1. CASE syncing.at = "waiting" /\ ~Ready
  BY <1>1, SyncEndsKeeps DEF BeginBatch, SyncTypes, Owned
<1>2. CASE ~(syncing.at = "waiting" /\ ~Ready)
  <2>1. Foremost("sync") /\ Ready
    BY <1>2 DEF BeginBatch, SessionOK
  <2>2. Local \in Versions /\ remote.acked \in Versions
    BY DEF SyncTypes, Local
  <2>3. /\ syncing' \in SyncingType /\ syncing'.at = "sending"
        /\ syncing'.puts = [e \in Entity |-> IF Local[e] = remote.acked[e] THEN NoVersion ELSE Local[e]]
        /\ syncing'.deletions = {e \in Entity : remote.acked[e] # NoVersion /\ Local[e] = NoVersion}
    <3> DEFINE ps == [e \in Entity |-> IF Local[e] = remote.acked[e] THEN NoVersion ELSE Local[e]]
               ds == {e \in Entity : remote.acked[e] # NoVersion /\ Local[e] = NoVersion}
    <3>1. ps \in Versions /\ ds \in SUBSET Entity
      BY <2>2, NoVersionIsTyped DEF Versions
    <3>2. syncing' = [syncing EXCEPT !.at = "sending", !.puts = ps, !.deletions = ds]
      BY <1>2 DEF BeginBatch
    <3>3. syncing \in SyncingType
      BY DEF SyncTypes, SyncingType
    <3> HIDE DEF ps, ds
    <3>4. syncing' \in SyncingType /\ syncing'.at = "sending" /\ syncing'.puts = ps
          /\ syncing'.deletions = ds
      BY <3>1, <3>2, <3>3 DEF SyncingType
    <3>5. QED
      BY <3>4 DEF ps, ds
  <2>4. /\ UNCHANGED <<server, cached, cookie, active, hydrated, remote, tail, syncTimer,
                       versions, baseline>>
        /\ syncQueued' = FALSE
    BY <1>2 DEF BeginBatch
  <2>5. HasSync(tail)
    BY <2>1 DEF Foremost, HasSync, SyncTypes
  <2>6. SyncTypes'
    BY <2>3, <2>4, <2>5 DEF SyncTypes, SyncingType
  <2>7. SessionOK'
    BY <2>1, <2>3, <2>4 DEF SessionOK, Ready, Foremost
  <2>8. Owned'
    <3>1. \A e \in Entity : Local[e].by \in {active, Guest}
      BY DEF Owned, Local, SyncTypes
    <3>2. QED
      BY <2>3, <2>4, <3>1, NoVersionIsTyped DEF Owned
  <2>9. Fresh'
    <3>1. \A e \in Entity : Local[e] = remote.acked[e] \/ Newer(Local[e], baseline)
      BY <2>1 DEF Fresh
    <3>2. Local' = Local /\ Ready' /\ remote'.acked = remote.acked /\ baseline' = baseline
      BY <2>1, <2>4 DEF Local, Ready
    <3>3. ASSUME NEW e \in Entity, syncing'.puts[e] # NoVersion \/ e \in syncing'.deletions
          PROVE  Newer(syncing'.puts[e], baseline) /\ Newer(Local[e], baseline)
      BY <2>3, <3>1, <3>3 DEF Newer
    <3>4. QED
      BY <2>4, <3>1, <3>2, <3>3 DEF Fresh
  <2>10. QED
    BY <2>6, <2>7, <2>8, <2>9
<1>3. QED
  BY <1>1, <1>2

\* While a round is sent, the cookie is the account whose store it was made
\* from, or there is none.
LEMMA SendingIsOwn ==
    ASSUME SyncInv, syncing.at = "sending", NEW e \in Entity
    PROVE  /\ cookie # Guest => cookie = active /\ cookie \in Member
           /\ Foremost("sync") /\ Ready
           /\ syncing.puts[e] \in Version /\ syncing.puts[e].by \in {active, Guest}
           /\ syncing.puts[e] # NoVersion \/ e \in syncing.deletions
                => Newer(syncing.puts[e], baseline) /\ Newer(Local[e], baseline)
  BY DEF SyncInv, SyncTypes, SessionOK, Owned, Fresh, Versions, Someone

LEMMA ReachedIsOwn ==
    ASSUME SyncInv, NEW e \in Entity, NEW v \in Version, cookie \in Member,
           v.by \in {cookie, Guest}, Reached(e, v)
    PROVE  /\ server' \in [Member -> Versions]
           /\ \A u \in Member, f \in Entity :
                /\ server'[u][f] = IF u = cookie /\ f = e THEN v ELSE server[u][f]
                /\ server'[u][f].by \in {u, Guest}
<1>1. server \in [Member -> Versions]
  BY DEF SyncInv, SyncTypes
<1>2. /\ server' \in [Member -> Versions]
      /\ \A u \in Member, f \in Entity :
           server'[u][f] = IF u = cookie /\ f = e THEN v ELSE server[u][f]
  BY <1>1 DEF Reached, Versions
<1>3. QED
  BY <1>2 DEF SyncInv, Owned

LEMMA SendOneKeeps ==
    ASSUME SyncInv, NEW e \in Entity, SendOne(e)
    PROVE  SyncInv'
<1> DEFINE v == syncing.puts[e]
<1>1. /\ cookie = active /\ cookie \in Member /\ Ready
      /\ v \in Version /\ v.by \in {cookie, Guest}
      /\ Newer(v, baseline) /\ Newer(Local[e], baseline)
  BY SendingIsOwn DEF SendOne
<1>2. /\ server' \in [Member -> Versions]
      /\ \A u \in Member, f \in Entity : server'[u][f].by \in {u, Guest}
  BY <1>1, ReachedIsOwn DEF SendOne
<1>3. /\ remote \in [account : Someone, phase : {"inactive", "ready", "failed"}, acked : Versions]
      /\ syncing \in SyncingType
  BY DEF SyncInv, SyncTypes, SyncingType
<1>4. /\ remote' \in [account : Someone, phase : {"inactive", "ready", "failed"}, acked : Versions]
      /\ remote'.account = remote.account /\ remote'.phase = remote.phase
      /\ \A f \in Entity : remote'.acked[f] = IF f = e THEN v ELSE remote.acked[f]
  BY <1>1, <1>3 DEF SendOne, Versions
<1>5. /\ syncing' \in SyncingType /\ syncing'.at = syncing.at
      /\ \A f \in Entity : syncing'.puts[f] = IF f = e THEN NoVersion ELSE syncing.puts[f]
      /\ syncing'.deletions = syncing.deletions \ {e}
  <2> DEFINE z == [syncing EXCEPT !.puts[e] = NoVersion]
  <2>1. /\ z \in SyncingType /\ z.at = syncing.at /\ z.deletions = syncing.deletions
        /\ \A f \in Entity : z.puts[f] = IF f = e THEN NoVersion ELSE syncing.puts[f]
    BY <1>3, NoVersionIsTyped DEF SyncingType, Versions
  <2>2. syncing' = [z EXCEPT !.deletions = @ \ {e}]
    BY DEF SendOne
  <2> HIDE DEF z
  <2>3. QED
    BY <2>1, <2>2 DEF SyncingType
<1>6. UNCHANGED <<cached, cookie, active, hydrated, syncQueued, syncTimer, tail, versions, baseline>>
      /\ syncing.at = "sending"
  BY DEF SendOne
<1>7. SyncTypes'
  BY <1>2, <1>4, <1>5, <1>6 DEF SyncInv, SyncTypes, SyncingType
<1>8. SessionOK'
  BY <1>4, <1>5, <1>6 DEF SyncInv, SessionOK, Ready, Foremost
<1>9. Owned'
  BY <1>2, <1>5, <1>6, NoVersionIsTyped DEF SyncInv, Owned
<1>10. Fresh'
  <2>1. Local' = Local /\ Ready
    BY <1>1, <1>6 DEF Local
  <2>2. QED
    BY <1>1, <1>4, <1>5, <1>6, <2>1 DEF SyncInv, Fresh
<1>11. QED
  BY <1>7, <1>8, <1>9, <1>10 DEF SyncInv

LEMMA SendFailsKeeps ==
    ASSUME SyncInv, NEW e \in Entity, SendFails(e)
    PROVE  SyncInv'
<1>1. /\ server' \in [Member -> Versions]
      /\ \A u \in Member, f \in Entity : server'[u][f].by \in {u, Guest}
  <2>1. CASE UNCHANGED server
    BY <2>1 DEF SyncInv, SyncTypes, Owned
  <2>2. CASE cookie # Guest /\ Reached(e, syncing.puts[e])
    BY <2>2, SendingIsOwn, ReachedIsOwn DEF SendFails
  <2>3. QED
    BY <2>1, <2>2 DEF SendFails
<1>2. QED
  BY <1>1, SendingIsOwn, SyncEndsKeeps DEF SendFails

LEMMA EndSyncKeeps ==
    ASSUME SyncInv, EndSync
    PROVE  SyncInv'
  BY SyncEndsKeeps DEF EndSync, SyncInv, SyncTypes, Owned, SessionOK

-----------------------------------------------------------------------------
(* Deletions, and other devices.                                           *)

LEMMA AskDeleteKeeps ==
    ASSUME SyncInv, NEW e \in Entity, AskDelete(e)
    PROVE  SyncInv'
<1> USE DEF SyncInv
<1>1. DeleteOf(e) \in Operation /\ DeleteOf(e).op = "delete" /\ ~ChangesAccount(DeleteOf(e))
  BY OperationsAreTyped DEF ChangesAccount
<1>2. tail \in Seq(Operation) /\ TailOK(tail, hydrated, cookie, active)
      /\ tail' = Append(tail, DeleteOf(e))
  BY DEF SyncTypes, SessionOK, AskDelete
<1>3. /\ tail' \in Seq(Operation) /\ TailOK(tail', hydrated, cookie, active)
      /\ HasSync(tail') <=> HasSync(tail)
  BY <1>1, <1>2, AppendKeepsTail, AppendIsThere
<1>4. tail # <<>> => tail' # <<>> /\ tail'[1] = tail[1]
  BY <1>1, <1>2, AppendIsThere
<1>5. SyncTypes'
  BY <1>3 DEF SyncTypes, AskDelete
<1>6. SessionOK'
  BY <1>3, <1>4 DEF SessionOK, AskDelete, Ready, Foremost
<1>7. Owned' /\ Fresh'
  BY VersionsKept DEF AskDelete
<1>8. QED
  BY <1>5, <1>6, <1>7

LEMMA DeleteEntityKeeps ==
    ASSUME SyncInv, DeleteEntity
    PROVE  SyncInv'
<1> DEFINE e == tail[1].to
<1>1. /\ tail # <<>> /\ tail[1].op = "delete" /\ tail \in Seq(Operation)
      /\ TailOK(tail, hydrated, cookie, active) /\ tail[1] \in Operation
  BY DEF DeleteEntity, Foremost, SyncInv, SyncTypes, SessionOK
<1>2. e \in Entity
  BY <1>1 DEF Operation
<1>3. /\ tail' \in Seq(Operation) /\ TailOK(tail', hydrated, cookie, active)
      /\ HasSync(tail') <=> HasSync(tail)
  BY <1>1, TailKeepsTail DEF DeleteEntity
<1>4. /\ UNCHANGED <<cookie, active, hydrated, syncing, versions, baseline>>
      /\ syncing.at # "sending" /\ syncing.puts = Nothing /\ syncing.deletions = {}
  BY <1>1 DEF DeleteEntity, SyncInv, SessionOK, Foremost
<1>5. CASE UNCHANGED server \/ (cookie # Guest /\ Ready /\ Reached(e, NoVersion))
  <2>1. /\ server' \in [Member -> Versions]
        /\ \A u \in Member, f \in Entity : server'[u][f].by \in {u, Guest}
    <3>1. CASE UNCHANGED server
      BY <3>1 DEF SyncInv, SyncTypes, Owned
    <3>2. CASE cookie # Guest /\ Ready /\ Reached(e, NoVersion)
      <4>1. cookie \in Member
        BY <3>2 DEF SyncInv, SyncTypes, Someone
      <4>2. QED
        BY <1>2, <3>2, <4>1, NoVersionIsTyped, ReachedIsOwn
    <3>3. QED
      BY <1>5, <3>1, <3>2
  <2>2. CASE UNCHANGED <<cached, remote, syncQueued, syncTimer>>
    <3>1. SyncTypes'
      BY <1>3, <1>4, <2>1, <2>2 DEF SyncInv, SyncTypes
    <3>2. SessionOK'
      BY <1>3, <1>4, <2>2 DEF SyncInv, SessionOK, Ready
    <3>3. Owned' /\ Fresh'
      BY <1>4, <2>1, <2>2 DEF SyncInv, Owned, Fresh, Ready, Local
    <3>4. QED
      BY <3>1, <3>2, <3>3 DEF SyncInv
  <2>3. CASE /\ remote' = [remote EXCEPT !.acked[e] = NoVersion]
             /\ cached' = [cached EXCEPT ![active][e] = NoVersion]
             /\ Scheduled
    <3>1. /\ remote \in [account : Someone, phase : {"inactive", "ready", "failed"}, acked : Versions]
          /\ cached \in [Someone -> Versions] /\ active \in Someone
      BY DEF SyncInv, SyncTypes
    <3>2. /\ remote' \in [account : Someone, phase : {"inactive", "ready", "failed"}, acked : Versions]
          /\ remote'.account = remote.account /\ remote'.phase = remote.phase
          /\ \A f \in Entity : remote'.acked[f] = IF f = e THEN NoVersion ELSE remote.acked[f]
      BY <1>2, <2>3, <3>1, NoVersionIsTyped DEF Versions
    <3>3. /\ cached' \in [Someone -> Versions]
          /\ \A u \in Someone, f \in Entity :
               cached'[u][f] = IF u = active /\ f = e THEN NoVersion ELSE cached[u][f]
      BY <1>2, <2>3, <3>1, NoVersionIsTyped DEF Versions
    <3>4. SyncTypes'
      BY <1>3, <1>4, <2>1, <2>3, <3>2, <3>3 DEF SyncInv, SyncTypes, Scheduled, Ready
    <3>5. SessionOK'
      BY <1>3, <1>4, <3>2 DEF SyncInv, SessionOK, Ready
    <3>6. Owned'
      BY <1>4, <2>1, <3>3, NoVersionIsTyped DEF SyncInv, Owned
    <3>7. Fresh'
      <4>1. \A f \in Entity : Local'[f] = IF f = e THEN NoVersion ELSE Local[f]
        BY <1>4, <3>1, <3>3 DEF Local
      <4>2. Ready' = Ready
        BY <3>2 DEF Ready
      <4>3. QED
        BY <1>4, <3>2, <4>1, <4>2 DEF SyncInv, Fresh, Nothing
    <3>8. QED
      BY <3>4, <3>5, <3>6, <3>7 DEF SyncInv
  <2>4. QED
    BY <2>2, <2>3 DEF DeleteEntity
<1>6. QED
  BY <1>5 DEF DeleteEntity

LEMMA OtherDeviceKeeps ==
    ASSUME SyncInv, NEW u \in Member, NEW e \in Entity, OtherDevice(u, e)
    PROVE  SyncInv'
<1>1. PICK v \in {[by |-> u, n |-> versions + 1], NoVersion} :
        server' = [server EXCEPT ![u][e] = v]
  BY DEF OtherDevice
<1>2. versions + 1 \in 0..MaxVersions /\ baseline <= versions + 1 /\ u \in Someone
  BY SyncAssumption DEF SyncInv, SyncTypes, OtherDevice, Someone
<1>3. v \in Version /\ v.by \in {u, Guest}
  BY <1>2, NoVersionIsTyped DEF Version, Someone
<1>4. server \in [Member -> Versions]
  BY DEF SyncInv, SyncTypes
<1>5. /\ server' \in [Member -> Versions]
      /\ \A w \in Member, f \in Entity :
           server'[w][f] = IF w = u /\ f = e THEN v ELSE server[w][f]
  BY <1>1, <1>3, <1>4 DEF Versions
<1>6. SyncTypes'
  BY <1>2, <1>5 DEF SyncInv, SyncTypes, OtherDevice
<1>7. SessionOK'
  BY DEF SyncInv, SessionOK, OtherDevice, Ready, Foremost
<1>8. Owned' /\ Fresh'
  BY <1>3, <1>5 DEF SyncInv, Owned, Fresh, OtherDevice, Ready, Local
<1>9. QED
  BY <1>6, <1>7, <1>8 DEF SyncInv

-----------------------------------------------------------------------------
LEMMA SyncInvStep == SyncInv /\ [SyncNext]_syncVars => SyncInv'
<1> SUFFICES ASSUME SyncInv, [SyncNext]_syncVars
             PROVE  SyncInv'
  OBVIOUS
<1>1. CASE UNCHANGED syncVars
  BY <1>1 DEF SyncInv, syncVars, SyncTypes, SessionOK, Owned, Fresh, Ready, Local, Foremost
<1>2. CASE TailStep
  BY <1>2, SwitchKeeps, HydrateKeeps, BeginBatchKeeps, EndSyncKeeps, DeleteEntityKeeps,
     SendOneKeeps, SendFailsKeeps DEF TailStep
<1>3. CASE TimerFires \/ SignOut \/ ReloadClient
  BY <1>3, TimerKeeps, SignOutKeeps, ReloadKeeps
<1>4. ASSUME NEW u \in Member, SignIn(u) \/ \E e \in Entity : OtherDevice(u, e)
      PROVE  SyncInv'
  BY <1>4, SignInKeeps, OtherDeviceKeeps
<1>5. ASSUME NEW e \in Entity, EditEntity(e) \/ CreateEntity(e) \/ AskDelete(e)
      PROVE  SyncInv'
  BY <1>5, EditKeeps, CreateKeeps, AskDeleteKeeps
<1>6. QED
  BY <1>1, <1>2, <1>3, <1>4, <1>5 DEF SyncNext

\* Every operation on the tail, every edit and every change of account keeps
\* uploads, stores and sessions in agreement.
THEOREM SyncInvariant == SyncSpec => []SyncInv
  BY SyncInvInit, SyncInvStep, PTL DEF SyncSpec

\* The stores, the session and the operations that wait have their types, and a
\* round that is under way is among them.
THEOREM SyncTypesCorrect == SyncSpec => []SyncTypeOK
<1>1. ASSUME SyncInv PROVE SyncTypeOK
  <2>1. HasSync(tail) <=> Sync \in {tail[i] : i \in DOMAIN tail}
    <3>1. DOMAIN tail = 1..Len(tail) /\ Sync.op = "sync"
      BY <1>1, OperationsAreTyped DEF SyncInv, SyncTypes
    <3>2. QED
      BY <1>1, <3>1 DEF SyncInv, SessionOK, TailOK, HasSync
  <2>2. QED
    BY <1>1, <2>1 DEF SyncInv, SyncTypes, SyncTypeOK, Versions, Someone, Operation
<1>2. QED
  BY <1>1, SyncInvariant, PTL

\* What one account made is never uploaded or shown under another, though a
\* round, a deletion and a sign-out may all wait for each other.
THEOREM DataStays == SyncSpec => []DataStaysWithMember
<1>1. SyncInv => DataStaysWithMember
  BY DEF SyncInv, Owned, DataStaysWithMember, Someone
<1>2. QED
  BY <1>1, SyncInvariant, PTL

\* No step brings to the server what was made before the session's baseline.
THEOREM UploadsAreFresh == SyncSpec => NoStaleUpload
<1> DEFINE A == \A u \in Member, e \in Entity :
                  server'[u][e] \in {server[u][e], NoVersion} \/ server'[u][e].n > baseline
<1>1. ASSUME SyncInv, [SyncNext]_syncVars
      PROVE  A
  <2>1. UNCHANGED server => A
    OBVIOUS
  <2>2. ASSUME NEW f \in Entity, NEW v \in Version, Newer(v, baseline), cookie \in Member,
               v.by \in {cookie, Guest}, Reached(f, v)
        PROVE  A
    BY <1>1, <2>2, ReachedIsOwn DEF Newer
  <2> HIDE DEF A
  <2>3. ASSUME NEW f \in Entity, SendOne(f) PROVE A
    BY <1>1, <2>2, <2>3, SendingIsOwn DEF SendOne
  <2>4. ASSUME NEW f \in Entity, SendFails(f) PROVE A
    <3>1. CASE UNCHANGED server
      BY <2>1, <3>1
    <3>2. CASE cookie # Guest /\ Reached(f, syncing.puts[f])
      BY <1>1, <2>2, <2>4, <3>2, SendingIsOwn DEF SendFails
    <3>3. QED
      BY <2>4, <3>1, <3>2 DEF SendFails
  <2>5. CASE DeleteEntity
    <3> DEFINE f == tail[1].to
    <3>1. CASE UNCHANGED server
      BY <2>1, <3>1
    <3>2. CASE cookie # Guest /\ Reached(f, NoVersion)
      <4>1. tail[1] \in Operation /\ tail[1].op = "delete"
        BY <1>1, <2>5 DEF DeleteEntity, Foremost, SyncInv, SyncTypes
      <4>2. f \in Entity /\ cookie \in Member
        BY <1>1, <3>2, <4>1 DEF Operation, SyncInv, SyncTypes, Someone
      <4>3. QED
        BY <2>2, <3>2, <4>2, NoVersionIsTyped
    <3>3. QED
      BY <2>5, <3>1, <3>2 DEF DeleteEntity
  <2>6. ASSUME NEW w \in Member, NEW f \in Entity, OtherDevice(w, f) PROVE A
    <3>1. PICK v \in {[by |-> w, n |-> versions + 1], NoVersion} :
            server' = [server EXCEPT ![w][f] = v]
      BY <2>6 DEF OtherDevice
    <3>2. server \in [Member -> Versions] /\ baseline < versions + 1
      BY <1>1, SyncAssumption DEF SyncInv, SyncTypes
    <3>3. \A u \in Member, e \in Entity :
            server'[u][e] = IF u = w /\ e = f THEN v ELSE server[u][e]
      BY <3>1, <3>2 DEF Versions
    <3>4. v = NoVersion \/ v.n > baseline
      BY <3>1, <3>2
    <3>5. QED
      BY <3>3, <3>4 DEF A
  <2>7. CASE \/ SwitchScope \/ Hydrate \/ BeginBatch \/ EndSync \/ TimerFires \/ SignOut
             \/ ReloadClient \/ (\E u \in Member : SignIn(u))
             \/ (\E e \in Entity : EditEntity(e) \/ CreateEntity(e) \/ AskDelete(e))
    BY <2>1, <2>7 DEF SwitchScope, Hydrate, BeginBatch, EndSync, TimerFires, SignOut,
       ReloadClient, SignIn, EditEntity, CreateEntity, AskDelete
  <2>8. CASE UNCHANGED syncVars
    BY <2>1, <2>8 DEF syncVars
  <2>9. QED
    BY <1>1, <2>3, <2>4, <2>5, <2>6, <2>7, <2>8 DEF SyncNext, TailStep
<1>2. QED
  BY <1>1, SyncInvariant, PTL DEF SyncSpec, NoStaleUpload

-----------------------------------------------------------------------------
(* Part 2: the canvas.                                                     *)

AnyNode == Live \cup {Gone}
Stored  == [nodes : Nodes, revision : Nat, tombstone : [Node -> Nat]]
SaveRow == [base : Nodes, revision : Nat, nodes : Nodes, sent : BOOLEAN]
WriterRow == [tab : Tab, job : {Queue} \cup Effect, sent : Nodes \cup {<<>>}]
Attempt == [state : UnderWay \cup {"applied"}, tab : Tab, before : Nodes, after : Nodes,
            revision : Nat]

\* A writer that is sending sends for a tab that has something queued.
CanvasTypes ==
    /\ document \in Stored
    /\ store \in [Tab -> Nodes]
    /\ observed \in [Tab -> [nodes : Nodes, revision : Nat]]
    /\ queue \in [Tab -> SaveRow \cup {NoSave}] /\ timer \in [Tab -> BOOLEAN]
    /\ writer \in WriterRow \cup {NoWriter}
    /\ effect \in [Effect -> Attempt \cup {Idle}]
    /\ edits \in Nat /\ writeFaults \in Nat /\ reloads \in Nat
    /\ writer.sent # <<>> => queue[writer.tab] \in SaveRow

-----------------------------------------------------------------------------
(* What the merge and the snapshots return.                                *)

LEMMA NodesAreNodes == Nodes = [Node -> AnyNode]
  BY DEF Nodes, AnyNode

LEMMA NodeIsTyped ==
    ASSUME NEW x \in AnyNode, x # Gone
    PROVE  /\ x.field \in [Field -> Value] /\ x.keys \in SUBSET Effect
           /\ x = [field |-> x.field, keys |-> x.keys]
  BY DEF AnyNode, Live

LEMMA MergedIsTyped ==
    ASSUME NEW b \in AnyNode, NEW l \in AnyNode, NEW d \in AnyNode, l # Gone, d # Gone
    PROVE  /\ MergeNode(b, l, d) \in AnyNode \ {Gone}
           /\ MergeNode(b, l, d).keys \subseteq l.keys \cup d.keys
           /\ \A f \in Field : MergeNode(b, l, d).field[f] \in {l.field[f], d.field[f]}
<1> DEFINE k == MergeKeys(BaseOf(b).keys, l.keys, d.keys)
           g == [f \in Field |-> Merge(BaseOf(b).field[f], l.field[f], d.field[f])]
<1>1. l.keys \in SUBSET Effect /\ d.keys \in SUBSET Effect
  BY NodeIsTyped
<1>2. k \in {l.keys, d.keys, l.keys \cup d.keys}
  BY DEF MergeKeys
<1>3. k \in SUBSET Effect /\ k \subseteq l.keys \cup d.keys
  BY <1>1, <1>2
<1>4. \A f \in Field : l.field[f] \in Value /\ d.field[f] \in Value
  BY NodeIsTyped
<1>5. \A f \in Field : g[f] \in {l.field[f], d.field[f]}
  BY DEF Merge
<1>6. g \in [Field -> Value]
  BY <1>4, <1>5
<1>7. MergeNode(b, l, d) = [field |-> g, keys |-> k]
  BY DEF MergeNode
<1> HIDE DEF k, g
<1>8. [field |-> g, keys |-> k] \in Live
  BY <1>3, <1>6 DEF Live
<1>9. Gone \notin Live
  <2>1. DOMAIN Gone.field = {}
    BY DEF Gone
  <2>2. \A x \in Live : DOMAIN x.field = Field
    BY DEF Live
  <2>3. QED
    BY <2>1, <2>2, CanvasAssumption
<1>10. QED
  BY <1>3, <1>5, <1>7, <1>8, <1>9 DEF AnyNode

\* Each node of the document a write leaves is gone, was there, is the tab's, or
\* is the merge of both.
LEMMA RebasedIsTyped ==
    ASSUME NEW doc \in Stored, NEW base \in Nodes, NEW local \in Nodes, NEW r \in Nat
    PROVE  /\ Rebase(doc, base, local, r) \in Stored
           /\ \A n \in Node :
                LET x == Rebase(doc, base, local, r).nodes[n]
                IN  \/ x \in {Gone, doc.nodes[n], local[n]}
                    \/ /\ doc.nodes[n] # Gone /\ local[n] # Gone
                       /\ x = MergeNode(base[n], local[n], doc.nodes[n])
<1> DEFINE R == Rebase(doc, base, local, r)
<1>1. doc.nodes \in [Node -> AnyNode] /\ base \in [Node -> AnyNode] /\ local \in [Node -> AnyNode]
      /\ doc.revision \in Nat /\ doc.tombstone \in [Node -> Nat]
  BY NodesAreNodes DEF Stored
<1>2. ASSUME NEW n \in Node
      PROVE  \/ R.nodes[n] \in {Gone, doc.nodes[n], local[n]}
             \/ /\ doc.nodes[n] # Gone /\ local[n] # Gone
                /\ R.nodes[n] = MergeNode(base[n], local[n], doc.nodes[n])
  BY DEF Rebase, Changes
<1>3. \A n \in Node : R.nodes[n] \in AnyNode
  BY <1>1, <1>2, MergedIsTyped DEF AnyNode
<1>4. R.nodes \in [Node -> AnyNode]
  <2>1. R.nodes = [n \in Node |-> R.nodes[n]]
    BY DEF Rebase
  <2>2. QED
    BY <1>3, <2>1
<1>5. R.revision \in Nat
  BY <1>1 DEF Rebase
<1>6. R.tombstone \in [Node -> Nat]
  <2>1. \A n \in Node : R.tombstone[n] \in {doc.revision + 1, 0, doc.tombstone[n]}
    BY DEF Rebase
  <2>2. R.tombstone = [n \in Node |-> R.tombstone[n]]
    BY DEF Rebase
  <2>3. QED
    BY <1>1, <2>1, <2>2
<1>7. R = [nodes |-> R.nodes, revision |-> R.revision, tombstone |-> R.tombstone]
  BY DEF Rebase
<1>8. QED
  <2> HIDE DEF R
  <2>1. R \in Stored
    BY <1>4, <1>5, <1>6, <1>7, NodesAreNodes DEF Stored
  <2>2. QED
    BY <1>2, <2>1 DEF R

LEMMA OrdinaryIsTyped ==
    ASSUME NEW t, NEW nodes \in Nodes, NEW durable \in Nodes, NEW attempts
    PROVE  Ordinary(t, nodes, durable, attempts) \in Nodes
<1> DEFINE O == Ordinary(t, nodes, durable, attempts)
<1>1. nodes \in [Node -> AnyNode] /\ durable \in [Node -> AnyNode]
  BY NodesAreNodes
<1>2. ASSUME NEW n \in Node PROVE O[n] \in AnyNode
  <2> DEFINE l == nodes[n]
             d == durable[n]
             mine == {e \in l.keys : attempts[e].tab = t /\ attempts[e].state \in UnderWay}
             g(e) == RolledBack(attempts[e].before[n], attempts[e].after[n], l, d)
  <2>1. l \in AnyNode /\ d \in AnyNode
    BY <1>1
  <2>2. Gone \in AnyNode /\ Gone.keys = {} /\ d.keys \in SUBSET Effect
    BY <2>1, NodeIsTyped DEF AnyNode, Gone
  <2>3. l # Gone => [l EXCEPT !.keys = d.keys] \in AnyNode
    BY <2>1, <2>2 DEF AnyNode, Live
  <2>4. ASSUME l # Gone, d # Gone, NEW e PROVE [field |-> g(e), keys |-> d.keys] \in AnyNode
    <3>1. g(e) = [f \in Field |-> g(e)[f]]
      BY DEF RolledBack
    <3>2. \A f \in Field : l.field[f] \in Value /\ d.field[f] \in Value
      BY <2>1, <2>4, NodeIsTyped
    <3>3. \A f \in Field : g(e)[f] \in {l.field[f], d.field[f]}
      BY DEF RolledBack
    <3>4. g(e) \in [Field -> Value]
      <4> HIDE DEF g
      <4>1. QED
        BY <3>1, <3>2, <3>3
    <3>5. QED
      BY <2>2, <3>4 DEF AnyNode, Live
  <2>5. O[n] = IF l = Gone \/ l.keys \subseteq d.keys
               THEN IF l = Gone THEN Gone ELSE [l EXCEPT !.keys = d.keys]
               ELSE IF d = Gone THEN Gone
               ELSE IF mine = {} THEN d
               ELSE [field |-> g(CHOOSE x \in mine : TRUE), keys |-> d.keys]
    BY DEF Ordinary
  <2> HIDE DEF mine, g, l, d
  <2>6. QED
    BY <2>1, <2>2, <2>3, <2>4, <2>5
<1>3. O = [n \in Node |-> O[n]]
  BY DEF Ordinary
<1>4. QED
  <2> HIDE DEF O
  <2>1. O \in [Node -> AnyNode]
    BY <1>2, <1>3
  <2>2. QED
    BY <2>1, NodesAreNodes DEF O

-----------------------------------------------------------------------------
(* Types.                                                                  *)

LEMMA CanvasTypesInit == CanvasInit => CanvasTypes
<1> SUFFICES ASSUME CanvasInit PROVE CanvasTypes
  OBVIOUS
<1> DEFINE N == [n \in Node |-> [field |-> [f \in Field |-> 0], keys |-> {}]]
<1>1. N \in Nodes
  BY DEF Nodes, Live, Value
<1> HIDE DEF N
<1>2. /\ document = [nodes |-> N, revision |-> 1, tombstone |-> [n \in Node |-> 0]]
      /\ store = [t \in Tab |-> N]
      /\ observed = [t \in Tab |-> [nodes |-> N, revision |-> 1]]
  BY DEF CanvasInit, N
<1>3. document \in Stored /\ store \in [Tab -> Nodes]
      /\ observed \in [Tab -> [nodes : Nodes, revision : Nat]]
  BY <1>1, <1>2 DEF Stored
<1>4. writer = NoWriter /\ writer.sent = <<>> /\ edits = 0 /\ writeFaults = 0 /\ reloads = 0
  BY DEF CanvasInit, NoWriter
<1>5. /\ queue \in [Tab -> SaveRow \cup {NoSave}] /\ timer \in [Tab -> BOOLEAN]
      /\ effect \in [Effect -> Attempt \cup {Idle}]
  BY DEF CanvasInit
<1>6. QED
  BY <1>3, <1>4, <1>5 DEF CanvasTypes

\* A change of a tab's store queues a save of the tab.
LEMMA QueueSaveIsTyped ==
    ASSUME CanvasTypes, NEW t \in Tab, NEW nodes \in Nodes, NEW attempts, QueueSave(t, nodes, attempts)
    PROVE  /\ store' \in [Tab -> Nodes] /\ timer' \in [Tab -> BOOLEAN]
           /\ queue' \in [Tab -> SaveRow \cup {NoSave}]
           /\ \A u \in Tab : queue[u] \in SaveRow => queue'[u] \in SaveRow
           /\ store' = [store EXCEPT ![t] = nodes]
           /\ \A u \in Tab : queue'[u].nodes = queue[u].nodes
                \/ (u = t /\ queue'[u].nodes = Ordinary(t, nodes, observed[t].nodes, attempts))
<1> DEFINE O == Ordinary(t, nodes, observed[t].nodes, attempts)
           q == [base |-> BaseQueued(t), revision |-> RevisionQueued(t), sent |-> FALSE,
                 nodes |-> O]
<1>1. observed[t].nodes \in Nodes /\ observed[t].revision \in Nat
  BY DEF CanvasTypes
<1>2. O \in Nodes
  BY <1>1, OrdinaryIsTyped
<1>3. queue[t] \in SaveRow \cup {NoSave}
  BY DEF CanvasTypes
<1>4. BaseQueued(t) \in Nodes /\ RevisionQueued(t) \in Nat
  BY <1>1, <1>3 DEF BaseQueued, RevisionQueued, Queued, SaveRow
<1>5. queue' = [queue EXCEPT ![t] = q] /\ store' = [store EXCEPT ![t] = nodes]
      /\ timer' = [timer EXCEPT ![t] = TRUE]
  BY DEF QueueSave
<1> HIDE DEF O
<1>6. q \in SaveRow /\ q.nodes = O
  BY <1>2, <1>4 DEF SaveRow
<1> HIDE DEF q
<1>7. store \in [Tab -> Nodes] /\ timer \in [Tab -> BOOLEAN]
      /\ queue \in [Tab -> SaveRow \cup {NoSave}]
  BY DEF CanvasTypes
<1>8. /\ store' \in [Tab -> Nodes] /\ timer' \in [Tab -> BOOLEAN]
      /\ queue' \in [Tab -> SaveRow \cup {NoSave}]
  BY <1>5, <1>6, <1>7
<1>9. \A u \in Tab : queue'[u] = IF u = t THEN q ELSE queue[u]
  BY <1>5, <1>7
<1>10. \A u \in Tab : queue[u] \in SaveRow => queue'[u] \in SaveRow
  BY <1>6, <1>9
<1>11. \A u \in Tab : queue'[u].nodes = queue[u].nodes \/ (u = t /\ queue'[u].nodes = O)
  BY <1>6, <1>9
<1>12. QED
  BY <1>5, <1>8, <1>10, <1>11 DEF O

LEMMA NotedIsTyped ==
    ASSUME CanvasTypes, NEW t \in Tab, NEW doc \in Stored, NoteDocument(t, doc)
    PROVE  /\ observed' \in [Tab -> [nodes : Nodes, revision : Nat]]
           /\ \A u \in Tab : observed'[u].nodes \in {observed[u].nodes, doc.nodes}
  BY DEF CanvasTypes, NoteDocument, Stored

\* An attempt that is not idle is one of a tab.
LEMMA AttemptIsTyped ==
    ASSUME CanvasTypes, NEW e \in Effect, effect[e].state # "idle"
    PROVE  /\ effect[e] \in Attempt /\ effect[e].tab \in Tab /\ effect[e].revision \in Nat
           /\ effect[e].before \in Nodes /\ effect[e].after \in Nodes
           /\ effect[e].state \in UnderWay \cup {"applied"}
           /\ \A s \in UnderWay \cup {"applied"} :
                [effect EXCEPT ![e].state = s] \in [Effect -> Attempt \cup {Idle}]
<1>1. effect[e] \in Attempt
  BY DEF CanvasTypes, Idle
<1>2. ASSUME NEW s \in UnderWay \cup {"applied"}
      PROVE  [effect EXCEPT ![e].state = s] \in [Effect -> Attempt \cup {Idle}]
  <2>1. [effect[e] EXCEPT !.state = s] \in Attempt
    BY <1>1 DEF Attempt
  <2>2. [effect EXCEPT ![e].state = s] = [effect EXCEPT ![e] = [effect[e] EXCEPT !.state = s]]
    BY DEF CanvasTypes
  <2>3. QED
    BY <2>1, <2>2 DEF CanvasTypes
<1>3. QED
  BY <1>1, <1>2 DEF Attempt

LEMMA AppliedIsTyped ==
    ASSUME NEW nodes \in Nodes, NEW e \in Effect, nodes[Target[e]] # Gone
    PROVE  /\ Applied(nodes, e) \in Nodes
           /\ Applied(nodes, e)[Target[e]] # Gone
           /\ Applied(nodes, e)[Target[e]].field["content"] = Result(e)
           /\ e \in Applied(nodes, e)[Target[e]].keys
           /\ \A n \in Node \ {Target[e]} : Applied(nodes, e)[n] = nodes[n]
<1> DEFINE x == nodes[Target[e]]
           y == [field |-> [x.field EXCEPT !["content"] = Result(e)], keys |-> x.keys \cup {e}]
<1>1. Target[e] \in Node /\ "content" \in Field /\ Result(e) \in Value
  BY CanvasAssumption DEF Result, Value
<1>2. x \in AnyNode /\ nodes \in [Node -> AnyNode]
  BY <1>1, NodesAreNodes
<1>3. x.field \in [Field -> Value] /\ x.keys \in SUBSET Effect
  BY <1>2, NodeIsTyped
<1>4. Applied(nodes, e) = [nodes EXCEPT ![Target[e]] = y]
  BY <1>2 DEF Applied
<1> HIDE DEF x
<1>5. y.field["content"] = Result(e) /\ e \in y.keys /\ y \in Live
  BY <1>1, <1>3 DEF Live
<1>6. y # Gone
  BY <1>5 DEF Gone
<1> HIDE DEF y
<1>7. QED
  BY <1>1, <1>2, <1>4, <1>5, <1>6, NodesAreNodes DEF AnyNode

\* What the store shows after the user has changed, deleted or restored a node.
EditsTo(t, nodes) ==
    \E n \in Node :
        \/ /\ store[t][n] # Gone
           /\ \E f \in Field, k \in Nat \ {0} : nodes = [store[t] EXCEPT ![n].field[f] = k]
        \/ nodes = [store[t] EXCEPT ![n] = Gone]
        \/ \E k \in Nat \ {0} : nodes = [store[t] EXCEPT ![n] = [field |-> [f \in Field |-> k], keys |-> {}]]

\* What is left of x after a user has changed it, as the stamps go.
LEMMA EditedIsTyped ==
    ASSUME CanvasTypes, NEW t \in Tab, NEW nodes, EditsTo(t, nodes)
    PROVE  /\ nodes \in Nodes
           /\ \A n \in Node : nodes[n] # Gone =>
                \/ nodes[n] = store[t][n]
                \/ /\ nodes[n].keys \in {{}, store[t][n].keys}
                   /\ nodes[n].keys # {} => store[t][n] # Gone
                   /\ \/ nodes[n].field["content"] > 0
                      \/ /\ store[t][n] # Gone /\ nodes[n].keys = store[t][n].keys
                         /\ nodes[n].field["content"] = store[t][n].field["content"]
<1> DEFINE s == store[t]
<1>1. s \in [Node -> AnyNode]
  BY NodesAreNodes DEF CanvasTypes
<1>2. PICK n \in Node :
        \/ /\ s[n] # Gone
           /\ \E f \in Field, k \in Nat \ {0} : nodes = [s EXCEPT ![n].field[f] = k]
        \/ nodes = [s EXCEPT ![n] = Gone]
        \/ \E k \in Nat \ {0} : nodes = [s EXCEPT ![n] = [field |-> [f \in Field |-> k], keys |-> {}]]
  BY DEF EditsTo
<1>3. "content" \in Field
  BY CanvasAssumption
<1>4. \A y \in AnyNode : [s EXCEPT ![n] = y] \in Nodes
                         /\ \A m \in Node : [s EXCEPT ![n] = y][m] = IF m = n THEN y ELSE s[m]
  BY <1>1, NodesAreNodes
<1>5. ASSUME s[n] # Gone, NEW f \in Field, NEW k \in Nat \ {0}, nodes = [s EXCEPT ![n].field[f] = k]
      PROVE  /\ nodes \in Nodes
             /\ \A m \in Node \ {n} : nodes[m] = s[m]
             /\ nodes[n].keys = s[n].keys
             /\ nodes[n].field["content"] > 0 \/ nodes[n].field["content"] = s[n].field["content"]
  <2> DEFINE g == [s[n].field EXCEPT ![f] = k]
             y == [s[n] EXCEPT !.field = g]
  <2>1. s[n] \in AnyNode /\ s[n].field \in [Field -> Value] /\ s[n].keys \in SUBSET Effect
    BY <1>1, <1>5, NodeIsTyped
  <2>2. g \in [Field -> Value] /\ (g["content"] > 0 \/ g["content"] = s[n].field["content"])
    BY <1>3, <2>1 DEF Value
  <2>3. s[n] \in Live
    BY <1>5, <2>1 DEF AnyNode
  <2>4. nodes = [s EXCEPT ![n] = y]
    BY <1>1, <1>5
  <2> HIDE DEF g
  <2>5. y \in Live /\ y.field = g /\ y.keys = s[n].keys
    BY <2>2, <2>3 DEF Live
  <2> HIDE DEF y
  <2>6. y \in AnyNode
    BY <2>5 DEF AnyNode
  <2>7. QED
    BY <1>4, <2>2, <2>4, <2>5, <2>6
<1>6. ASSUME nodes = [s EXCEPT ![n] = Gone]
      PROVE  nodes \in Nodes /\ \A m \in Node : nodes[m] # Gone => nodes[m] = s[m]
  BY <1>4, <1>6 DEF AnyNode
<1>7. ASSUME NEW k \in Nat \ {0}, nodes = [s EXCEPT ![n] = [field |-> [f \in Field |-> k], keys |-> {}]]
      PROVE  /\ nodes \in Nodes
             /\ \A m \in Node \ {n} : nodes[m] = s[m]
             /\ nodes[n].keys = {} /\ nodes[n].field["content"] > 0
  <2> DEFINE y == [field |-> [f \in Field |-> k], keys |-> {}]
  <2>1. y \in AnyNode
    BY DEF AnyNode, Live, Value
  <2>2. y.keys = {} /\ y.field["content"] = k
    BY <1>3
  <2> HIDE DEF y
  <2>3. nodes = [s EXCEPT ![n] = y]
    BY <1>7 DEF y
  <2>4. QED
    BY <1>4, <2>1, <2>2, <2>3
<1> HIDE DEF s
<1>8. CASE \E f \in Field, k \in Nat \ {0} : s[n] # Gone /\ nodes = [s EXCEPT ![n].field[f] = k]
  BY <1>5, <1>8 DEF s
<1>9. CASE nodes = [s EXCEPT ![n] = Gone]
  BY <1>6, <1>9 DEF s
<1>10. CASE \E k \in Nat \ {0} : nodes = [s EXCEPT ![n] = [field |-> [f \in Field |-> k], keys |-> {}]]
  BY <1>7, <1>10 DEF s
<1>11. QED
  BY <1>2, <1>8, <1>9, <1>10

EditStep(t) ==
    /\ edits' = edits + 1
    /\ \E nodes : EditsTo(t, nodes) /\ QueueSave(t, nodes, effect)
    /\ UNCHANGED <<document, observed, writer, effect, writeFaults, reloads>>

LEMMA EditsAreSteps ==
    ASSUME CanvasTypes, NEW t \in Tab, NEW n \in Node,
           (\E f \in Field : Edit(t, n, f)) \/ DeleteNode(t, n) \/ RestoreNode(t, n)
    PROVE  EditStep(t)
<1>1. edits + 1 \in Nat \ {0}
  BY DEF CanvasTypes
<1>2. ASSUME NEW f \in Field, Edit(t, n, f) PROVE EditStep(t)
  BY <1>1, <1>2 DEF Edit, EditStep, EditsTo
<1>3. ASSUME DeleteNode(t, n) PROVE EditStep(t)
  BY <1>1, <1>3 DEF DeleteNode, EditStep, EditsTo
<1>4. ASSUME RestoreNode(t, n) PROVE EditStep(t)
  BY <1>1, <1>4 DEF RestoreNode, EditStep, EditsTo
<1>5. QED
  BY <1>2, <1>3, <1>4

\* Whoever is sending is a tab.
LEMMA SenderIsTyped ==
    ASSUME CanvasTypes, writer.sent # <<>>
    PROVE  /\ writer \in WriterRow /\ writer.tab \in Tab /\ writer.sent \in Nodes
           /\ [writer EXCEPT !.sent = <<>>] \in WriterRow
           /\ queue[writer.tab] \in SaveRow
<1>1. writer \in WriterRow
  BY DEF CanvasTypes, NoWriter
<1>2. QED
  BY <1>1 DEF WriterRow, CanvasTypes

LEMMA NobodySends == NoWriter \in WriterRow \cup {NoWriter} /\ NoWriter.sent = <<>>
  BY DEF NoWriter

\* A step that leaves the writer and keeps what is queued queued.
LEMMA SendingStays ==
    ASSUME CanvasTypes, writer' \in {writer, NoWriter},
           \A u \in Tab : queue[u] \in SaveRow => queue'[u] \in SaveRow
    PROVE  /\ writer' \in WriterRow \cup {NoWriter}
           /\ writer'.sent # <<>> => queue'[writer'.tab] \in SaveRow
<1>1. CASE writer' = NoWriter
  BY <1>1, NobodySends
<1>2. CASE writer' = writer
  BY <1>2, SenderIsTyped DEF CanvasTypes
<1>3. QED
  BY <1>1, <1>2

LEMMA EditTypes == ASSUME CanvasTypes, NEW t \in Tab, EditStep(t) PROVE CanvasTypes'
<1>1. PICK nodes : EditsTo(t, nodes) /\ QueueSave(t, nodes, effect)
  BY DEF EditStep
<1>2. nodes \in Nodes
  BY <1>1, EditedIsTyped
<1>3. /\ store' \in [Tab -> Nodes] /\ timer' \in [Tab -> BOOLEAN]
      /\ queue' \in [Tab -> SaveRow \cup {NoSave}]
      /\ \A u \in Tab : queue[u] \in SaveRow => queue'[u] \in SaveRow
  BY <1>1, <1>2, QueueSaveIsTyped
<1>4. writer' = writer
  BY DEF EditStep
<1>5. /\ writer' \in WriterRow \cup {NoWriter}
      /\ writer'.sent # <<>> => queue'[writer'.tab] \in SaveRow
  BY <1>3, <1>4, SendingStays
<1>6. QED
  BY <1>3, <1>5 DEF EditStep, CanvasTypes

LEMMA SaveQueueTypes ==
    ASSUME CanvasTypes, NEW t \in Tab, NEW job \in {Queue} \cup Effect, SaveQueue(t, job)
    PROVE  CanvasTypes'
<1>1. queue[t] \in SaveRow
  BY DEF CanvasTypes, SaveQueue, Queued
<1>2. Rebase(document, queue[t].base, queue[t].nodes, queue[t].revision) \in Stored
  BY <1>1, RebasedIsTyped DEF SaveRow, CanvasTypes
<1>3. document' \in Stored
  BY <1>2 DEF SaveQueue
<1>4. [queue[t] EXCEPT !.sent = TRUE] \in SaveRow
  BY <1>1 DEF SaveRow
<1>5. queue' = [queue EXCEPT ![t] = [queue[t] EXCEPT !.sent = TRUE]]
  BY DEF SaveQueue, CanvasTypes
<1>6. queue' \in [Tab -> SaveRow \cup {NoSave}] /\ queue'[t] \in SaveRow
  BY <1>4, <1>5 DEF CanvasTypes
<1>7. writer' = [tab |-> t, job |-> job, sent |-> queue[t].nodes]
  BY DEF SaveQueue
<1>8. writer' \in WriterRow /\ writer'.tab = t
  BY <1>1, <1>7 DEF WriterRow, SaveRow
<1>9. timer' \in [Tab -> BOOLEAN]
  BY DEF SaveQueue, CanvasTypes
<1>10. QED
  BY <1>3, <1>6, <1>8, <1>9 DEF SaveQueue, CanvasTypes

LEMMA SettleSaveTypes ==
    ASSUME CanvasTypes, NEW t \in Tab, SettleSave(t) PROVE CanvasTypes'
<1>1. writer.tab = t /\ writer \in WriterRow /\ writer.sent \in Nodes /\ queue[t] \in SaveRow
      /\ [writer EXCEPT !.sent = <<>>] \in WriterRow
  BY SenderIsTyped DEF SettleSave
<1>2. document \in Stored
  BY DEF CanvasTypes
<1>3. observed' \in [Tab -> [nodes : Nodes, revision : Nat]]
  BY <1>2, NotedIsTyped DEF SettleSave
<1> DEFINE q == [queue[t] EXCEPT !.base = writer.sent, !.revision = document.revision]
<1>4. q \in SaveRow
  BY <1>1, <1>2 DEF SaveRow, Stored
<1>5. writer' \in WriterRow \cup {NoWriter} /\ writer'.sent = <<>>
  BY <1>1, NobodySends DEF SettleSave, WriterRow
<1>6. queue' \in {[queue EXCEPT ![t] = NoSave], [queue EXCEPT ![t] = q]}
  BY DEF SettleSave, CanvasTypes
<1> HIDE DEF q
<1>7. queue' \in [Tab -> SaveRow \cup {NoSave}]
  BY <1>4, <1>6 DEF CanvasTypes
<1>8. QED
  BY <1>3, <1>5, <1>7 DEF SettleSave, CanvasTypes

LEMMA SaveFailsTypes ==
    ASSUME CanvasTypes, NEW t \in Tab, SaveFails(t) PROVE CanvasTypes'
  BY NobodySends DEF SaveFails, CanvasTypes

LEMMA ReloadTypes ==
    ASSUME CanvasTypes, NEW t \in Tab, ReloadTab(t) PROVE CanvasTypes'
<1>1. document \in Stored /\ document.nodes \in Nodes
  BY DEF CanvasTypes, Stored
<1>2. observed' \in [Tab -> [nodes : Nodes, revision : Nat]] /\ store' \in [Tab -> Nodes]
  BY <1>1, NotedIsTyped DEF ReloadTab, CanvasTypes
<1>3. /\ queue' \in [Tab -> SaveRow \cup {NoSave}] /\ timer' \in [Tab -> BOOLEAN]
      /\ reloads' \in Nat
      /\ \A u \in Tab \ {t} : queue'[u] = queue[u]
  BY DEF ReloadTab, CanvasTypes
<1>4. /\ writer' \in WriterRow \cup {NoWriter}
      /\ writer'.sent # <<>> => queue'[writer'.tab] \in SaveRow
  <2>1. CASE writer.tab = t
    BY <2>1, NobodySends DEF ReloadTab
  <2>2. CASE writer.tab # t
    BY <2>2, <1>3, SenderIsTyped DEF ReloadTab, CanvasTypes
  <2>3. QED
    BY <2>1, <2>2
<1>5. effect' \in [Effect -> Attempt \cup {Idle}]
  <2>1. ASSUME NEW e \in Effect, Running(e) PROVE [effect[e] EXCEPT !.state = "applied"] \in Attempt
    <3>1. effect[e] \in Attempt
      BY <2>1 DEF CanvasTypes, Running, UnderWay, Idle
    <3>2. QED
      BY <3>1 DEF Attempt
  <2>2. QED
    BY <2>1 DEF ReloadTab, CanvasTypes
<1>6. QED
  BY <1>2, <1>3, <1>4, <1>5 DEF ReloadTab, CanvasTypes

\* An attempt: the document, the writer and the bounds are left alone.
NewAttempt(t, e) ==
    [state |-> "waiting", tab |-> t, before |-> store[t], after |-> Applied(store[t], e),
     revision |-> observed[t].revision]

LEMMA BeginIsTyped ==
    ASSUME CanvasTypes, NEW t \in Tab, NEW e \in Effect, NEW shown \in BOOLEAN,
           BeginEffect(t, e, shown)
    PROVE  /\ store[t] \in Nodes /\ Applied(store[t], e) \in Nodes
           /\ NewAttempt(t, e) \in Attempt
           /\ effect' = [effect EXCEPT ![e] = NewAttempt(t, e)]
           /\ effect'[e] = NewAttempt(t, e)
           /\ effect' \in [Effect -> Attempt \cup {Idle}]
           /\ IF shown THEN QueueSave(t, Applied(store[t], e), effect')
              ELSE /\ queue' = IF Queued(t)
                               THEN [queue EXCEPT ![t].nodes =
                                        Ordinary(t, store[t], observed[t].nodes, effect')]
                               ELSE queue
                   /\ UNCHANGED <<store, timer>>
<1>1. store[t] \in Nodes /\ observed[t].revision \in Nat /\ store[t][Target[e]] # Gone
  BY DEF CanvasTypes, BeginEffect
<1>2. Applied(store[t], e) \in Nodes
  BY <1>1, AppliedIsTyped
<1>3. NewAttempt(t, e) \in Attempt
  BY <1>1, <1>2 DEF NewAttempt, Attempt, UnderWay
<1>4. effect' = [effect EXCEPT ![e] = NewAttempt(t, e)]
  BY DEF BeginEffect, NewAttempt
<1>5. effect' \in [Effect -> Attempt \cup {Idle}] /\ effect'[e] = NewAttempt(t, e)
  BY <1>3, <1>4 DEF CanvasTypes
<1>6. QED
  BY <1>1, <1>2, <1>3, <1>4, <1>5 DEF BeginEffect, NewAttempt

LEMMA BeginTypes ==
    ASSUME CanvasTypes, NEW t \in Tab, NEW e \in Effect, NEW shown \in BOOLEAN,
           BeginEffect(t, e, shown)
    PROVE  CanvasTypes'
<1>1. /\ store' \in [Tab -> Nodes] /\ timer' \in [Tab -> BOOLEAN]
      /\ queue' \in [Tab -> SaveRow \cup {NoSave}]
      /\ \A u \in Tab : queue[u] \in SaveRow => queue'[u] \in SaveRow
  <2>1. CASE shown
    BY <2>1, BeginIsTyped, QueueSaveIsTyped
  <2>2. CASE ~shown
    <3> DEFINE O == Ordinary(t, store[t], observed[t].nodes, effect')
    <3>1. O \in Nodes
      BY BeginIsTyped, OrdinaryIsTyped DEF CanvasTypes
    <3>2. queue' = IF Queued(t) THEN [queue EXCEPT ![t].nodes = O] ELSE queue
      BY <2>2, BeginIsTyped
    <3> HIDE DEF O
    <3>3. Queued(t) => [queue[t] EXCEPT !.nodes = O] \in SaveRow
      BY <3>1 DEF CanvasTypes, Queued, SaveRow
    <3>4. Queued(t) => queue' = [queue EXCEPT ![t] = [queue[t] EXCEPT !.nodes = O]]
      BY <3>2 DEF CanvasTypes
    <3>5. CASE Queued(t)
      <4> DEFINE q == [queue[t] EXCEPT !.nodes = O]
      <4>1. q \in SaveRow /\ queue' = [queue EXCEPT ![t] = q] /\ UNCHANGED <<store, timer>>
        BY <2>2, <3>3, <3>4, <3>5, BeginIsTyped
      <4> HIDE DEF q
      <4>2. QED
        BY <4>1 DEF CanvasTypes
    <3>6. CASE ~Queued(t)
      BY <2>2, <3>2, <3>6, BeginIsTyped DEF CanvasTypes
    <3>7. QED
      BY <3>5, <3>6
  <2>3. QED
    BY <2>1, <2>2
<1>2. writer' = writer
  BY DEF BeginEffect
<1>3. /\ writer' \in WriterRow \cup {NoWriter}
      /\ writer'.sent # <<>> => queue'[writer'.tab] \in SaveRow
  BY <1>1, <1>2, SendingStays
<1>4. QED
  BY <1>1, <1>3, BeginIsTyped DEF BeginEffect, CanvasTypes

LEMMA LockTypes ==
    ASSUME CanvasTypes, NEW e \in Effect, LockStorage(e) PROVE CanvasTypes'
<1>1. /\ effect[e].tab \in Tab
      /\ [effect EXCEPT ![e].state = "draining"] \in [Effect -> Attempt \cup {Idle}]
  BY AttemptIsTyped DEF LockStorage, UnderWay
<1>2. writer' \in WriterRow /\ writer'.sent = <<>>
  BY <1>1 DEF LockStorage, WriterRow
<1>3. QED
  BY <1>1, <1>2 DEF LockStorage, CanvasTypes

LEMMA CommitTypes ==
    ASSUME CanvasTypes, NEW e \in Effect, CommitEffect(e) PROVE CanvasTypes'
<1>1. /\ effect[e].before \in Nodes /\ effect[e].after \in Nodes /\ effect[e].revision \in Nat
      /\ [effect EXCEPT ![e].state = "written"] \in [Effect -> Attempt \cup {Idle}]
  BY AttemptIsTyped DEF CommitEffect, UnderWay
<1>2. document' \in Stored
  BY <1>1, RebasedIsTyped DEF CommitEffect, CanvasTypes
<1>3. QED
  BY <1>1, <1>2 DEF CommitEffect, CanvasTypes

LEMMA SettleEffectTypes ==
    ASSUME CanvasTypes, NEW e \in Effect, SettleEffect(e) PROVE CanvasTypes'
<1> DEFINE t == effect[e].tab
           O == Ordinary(t, store[t], document.nodes, effect)
           q == [base |-> document.nodes, revision |-> document.revision, nodes |-> O,
                 sent |-> FALSE]
<1>1. /\ t \in Tab
      /\ [effect EXCEPT ![e].state = "publishing"] \in [Effect -> Attempt \cup {Idle}]
  BY AttemptIsTyped DEF SettleEffect, UnderWay
<1>2. document \in Stored /\ document.nodes \in Nodes /\ store[t] \in Nodes
  BY <1>1 DEF CanvasTypes, Stored
<1>3. q \in SaveRow
  <2>1. O \in Nodes
    BY <1>2, OrdinaryIsTyped
  <2> HIDE DEF O
  <2>2. QED
    BY <1>2, <2>1 DEF SaveRow, Stored
<1>4. queue' \in {[queue EXCEPT ![t] = q], queue}
  BY DEF SettleEffect
<1> HIDE DEF q
<1>5. /\ queue' \in [Tab -> SaveRow \cup {NoSave}]
      /\ \A u \in Tab : queue[u] \in SaveRow => queue'[u] \in SaveRow
  BY <1>3, <1>4 DEF CanvasTypes
<1>6. observed' \in [Tab -> [nodes : Nodes, revision : Nat]]
  BY <1>1, <1>2, NotedIsTyped DEF SettleEffect
<1>7. writer' = writer
  BY DEF SettleEffect
<1>8. /\ writer' \in WriterRow \cup {NoWriter}
      /\ writer'.sent # <<>> => queue'[writer'.tab] \in SaveRow
  BY <1>5, <1>7, SendingStays
<1>9. QED
  BY <1>1, <1>5, <1>6, <1>8 DEF SettleEffect, CanvasTypes

\* What the store shows after the publication.
LEMMA PublishedIsTyped ==
    ASSUME CanvasTypes, NEW e \in Effect, effect[e].state = "publishing"
    PROVE  /\ Published(e) \in Nodes /\ effect[e].tab \in Tab
           /\ [effect EXCEPT ![e].state = "applied"] \in [Effect -> Attempt \cup {Idle}]
<1> DEFINE doc == [document EXCEPT !.nodes = store[effect[e].tab]]
<1>1. /\ effect[e].tab \in Tab /\ effect[e].before \in Nodes /\ effect[e].revision \in Nat
      /\ [effect EXCEPT ![e].state = "applied"] \in [Effect -> Attempt \cup {Idle}]
  BY AttemptIsTyped DEF UnderWay
<1>2. doc \in Stored /\ document.nodes \in Nodes
  BY <1>1 DEF CanvasTypes, Stored
<1>3. Rebase(doc, effect[e].before, document.nodes, effect[e].revision) \in Stored
  BY <1>1, <1>2, RebasedIsTyped
<1>4. QED
  BY <1>1, <1>3 DEF Published, Stored

LEMMA PublishTypes ==
    ASSUME CanvasTypes, NEW e \in Effect, PublishEffect(e) PROVE CanvasTypes'
<1>1. /\ Published(e) \in Nodes /\ effect[e].tab \in Tab
      /\ [effect EXCEPT ![e].state = "applied"] \in [Effect -> Attempt \cup {Idle}]
  BY PublishedIsTyped DEF PublishEffect
<1>2. observed' \in [Tab -> [nodes : Nodes, revision : Nat]]
  BY <1>1, NotedIsTyped DEF PublishEffect, CanvasTypes
<1>3. store' \in [Tab -> Nodes]
  BY <1>1 DEF PublishEffect, CanvasTypes
<1>4. QED
  BY <1>1, <1>2, <1>3, NobodySends DEF PublishEffect, CanvasTypes

LEMMA PublishUndrainedTypes ==
    ASSUME CanvasTypes, NEW e \in Effect, PublishUndrained(e) PROVE CanvasTypes'
<1>1. /\ Published(e) \in Nodes /\ effect[e].tab \in Tab
      /\ [effect EXCEPT ![e].state = "applied"] \in [Effect -> Attempt \cup {Idle}]
  BY PublishedIsTyped DEF PublishUndrained
<1>2. QueueSave(effect[e].tab, Published(e), effect')
  BY DEF PublishUndrained
<1>3. /\ store' \in [Tab -> Nodes] /\ timer' \in [Tab -> BOOLEAN]
      /\ queue' \in [Tab -> SaveRow \cup {NoSave}]
  BY <1>1, <1>2, QueueSaveIsTyped
<1>4. writeFaults' \in Nat
  BY DEF PublishUndrained, CanvasTypes
<1>5. QED
  BY <1>1, <1>3, <1>4, NobodySends DEF PublishUndrained, CanvasTypes

LEMMA EffectConflictTypes ==
    ASSUME CanvasTypes, NEW e \in Effect, EffectConflict(e)
    PROVE  /\ CanvasTypes' /\ effect[e].tab \in Tab
           /\ Rebase(document, effect[e].after, store[effect[e].tab], document.revision).nodes
                 = store'[effect[e].tab]
<1> DEFINE t == effect[e].tab
           R == Rebase(document, effect[e].after, store[t], document.revision)
           O == Ordinary(t, store'[t], document.nodes, effect')
           q == [base |-> document.nodes, revision |-> document.revision, sent |-> FALSE,
                 nodes |-> O]
<1>1. t \in Tab /\ effect[e].after \in Nodes
  BY AttemptIsTyped DEF EffectConflict, UnderWay
<1>2. document \in Stored /\ document.nodes \in Nodes /\ document.revision \in Nat
      /\ store[t] \in Nodes
  BY <1>1 DEF CanvasTypes, Stored
<1>3. R \in Stored
  BY <1>1, <1>2, RebasedIsTyped
<1>4. R.nodes \in Nodes
  BY <1>3 DEF Stored
<1>5. store' = [store EXCEPT ![t] = R.nodes]
  BY DEF EffectConflict
<1> HIDE DEF R
<1>6. store' \in [Tab -> Nodes] /\ store'[t] = R.nodes
  BY <1>1, <1>4, <1>5 DEF CanvasTypes
<1>7. q \in SaveRow
  <2>1. O \in Nodes
    BY <1>2, <1>4, <1>6, OrdinaryIsTyped
  <2> HIDE DEF O
  <2>2. QED
    BY <1>2, <2>1 DEF SaveRow
<1>8. queue' = [queue EXCEPT ![t] = q]
  BY DEF EffectConflict
<1> HIDE DEF q
<1>9. queue' \in [Tab -> SaveRow \cup {NoSave}]
  BY <1>7, <1>8 DEF CanvasTypes
<1>10. observed' \in [Tab -> [nodes : Nodes, revision : Nat]]
  BY <1>1, <1>2, NotedIsTyped DEF EffectConflict
<1>11. effect' \in [Effect -> Attempt \cup {Idle}] /\ writer' = NoWriter
  BY DEF EffectConflict, EffectEnds, CanvasTypes
<1>12. timer' \in [Tab -> BOOLEAN]
  BY DEF EffectConflict, CanvasTypes
<1>13. QED
  BY <1>1, <1>6, <1>9, <1>10, <1>11, <1>12, NobodySends DEF EffectConflict, CanvasTypes, R

LEMMA EffectFailsTypes ==
    ASSUME CanvasTypes, NEW e \in Effect, EffectFails(e)
    PROVE  CanvasTypes' /\ effect[e].tab \in Tab
<1> DEFINE t == effect[e].tab
           O == Ordinary(t, store[t], document.nodes, effect)
<1>1. t \in Tab
  BY AttemptIsTyped DEF EffectFails, UnderWay
<1>2. document \in Stored /\ document.nodes \in Nodes /\ store[t] \in Nodes
  BY <1>1 DEF CanvasTypes, Stored
<1>3. O \in Nodes
  BY <1>2, OrdinaryIsTyped
<1>4. store' = store \/ store' = [store EXCEPT ![t] = O]
  BY DEF EffectFails
<1> HIDE DEF O
<1>5. store' \in [Tab -> Nodes]
  BY <1>3, <1>4 DEF CanvasTypes
<1>6. observed' \in [Tab -> [nodes : Nodes, revision : Nat]]
  BY <1>1, <1>2, NotedIsTyped DEF EffectFails, CanvasTypes
<1>7. effect' \in [Effect -> Attempt \cup {Idle}] /\ writer' = NoWriter /\ writeFaults' \in Nat
  BY DEF EffectFails, EffectEnds, CanvasTypes
<1>8. QED
  BY <1>1, <1>5, <1>6, <1>7, NobodySends DEF EffectFails, CanvasTypes

LEMMA CanvasTypesStep == CanvasTypes /\ [CanvasNext]_canvasVars => CanvasTypes'
<1> SUFFICES ASSUME CanvasTypes, [CanvasNext]_canvasVars PROVE CanvasTypes'
  OBVIOUS
<1>1. ASSUME NEW t \in Tab, NEW n \in Node,
             (\E f \in Field : Edit(t, n, f)) \/ DeleteNode(t, n) \/ RestoreNode(t, n)
      PROVE  CanvasTypes'
  BY <1>1, EditsAreSteps, EditTypes
<1>2. ASSUME NEW t \in Tab, SaveQueue(t, Queue) \/ SettleSave(t) \/ SaveFails(t) \/ ReloadTab(t)
      PROVE  CanvasTypes'
  BY <1>2, SaveQueueTypes, SettleSaveTypes, SaveFailsTypes, ReloadTypes
<1>3. ASSUME NEW t \in Tab, NEW e \in Effect, NEW shown \in BOOLEAN, BeginEffect(t, e, shown)
      PROVE  CanvasTypes'
  BY <1>3, BeginTypes
<1>4. ASSUME NEW e \in Effect, EffectStep(e) PROVE CanvasTypes'
  <2>1. CASE SaveQueue(effect[e].tab, e)
    <3>1. e # Queue
      BY CanvasAssumption DEF Queue
    <3>2. effect[e].tab \in Tab
      BY <2>1, <3>1, AttemptIsTyped DEF SaveQueue, MayWrite
    <3>3. QED
      BY <2>1, <3>2, SaveQueueTypes
  <2>2. QED
    BY <1>4, <2>1, LockTypes, CommitTypes, EffectConflictTypes, SettleEffectTypes, PublishTypes
       DEF EffectStep
<1>5. ASSUME NEW e \in Effect, EffectFails(e) \/ PublishUndrained(e) PROVE CanvasTypes'
  BY <1>5, EffectFailsTypes, PublishUndrainedTypes
<1>6. CASE UNCHANGED canvasVars
  BY <1>6 DEF canvasVars, CanvasTypes
<1>7. QED
  BY <1>1, <1>2, <1>3, <1>4, <1>5, <1>6 DEF CanvasNext

\* Every step of every tab leaves well-formed documents, saves and attempts.
THEOREM CanvasTypesCorrect == CanvasSpec => []CanvasTypeOK
<1>1. CanvasTypes => CanvasTypeOK
  <2> SUFFICES ASSUME CanvasTypes PROVE CanvasTypeOK
    OBVIOUS
  <2>1. /\ {edits, writeFaults, reloads} \subseteq Nat
        /\ \A e \in Effect : effect[e] = Idle \/ effect[e] \in Attempt
    BY DEF CanvasTypes
  <2>2. QED
    BY <2>1 DEF CanvasTypes, CanvasTypeOK, Stored, SaveRow, WriterRow, Attempt
<1>2. QED
  BY <1>1, CanvasTypesInit, CanvasTypesStep, PTL DEF CanvasSpec

-----------------------------------------------------------------------------
(* Stamps, of the only effect.                                             *)

OneEffect == \A e, f \in Effect : e = f

\* Neither the stamp nor the result of e is in the nodes.
Clean(x, e) == x # Gone => e \notin x.keys /\ x.field["content"] # Result(e)
CleanAll(nodes, e) == \A n \in Node : Clean(nodes[n], e)

\* A tab may show the result, with the stamp and where it belongs only.
Shows(x, e, n) ==
    x # Gone => /\ x.field["content"] = Result(e) => e \in x.keys
                /\ n # Target[e] => e \notin x.keys
ShowsAll(nodes, e) == \A n \in Node : Shows(nodes[n], e, n)

\* The attempt knows what the node was before and what it made of it.
Wrote(x, e) ==
    /\ x.before \in Nodes /\ CleanAll(x.before, e)
    /\ x.before[Target[e]] # Gone
    /\ x.after = Applied(x.before, e)

Committed(x) == x.state \in {"written", "publishing", "applied"}

UncommittedIsUnseen(e) ==
    /\ CleanAll(document.nodes, e)
    /\ \A t \in Tab : /\ CleanAll(observed[t].nodes, e)
                      /\ ShowsAll(store[t], e)
                      /\ queue[t] # NoSave => CleanAll(queue[t].nodes, e)
    /\ effect[e].state \in UnderWay => Wrote(effect[e], e)

StampInv == \A e \in Effect : ~Committed(effect[e]) => UncommittedIsUnseen(e)

LEMMA CleanShows ==
    ASSUME NEW e, NEW nodes, CleanAll(nodes, e)
    PROVE  ShowsAll(nodes, e)
  BY DEF CleanAll, Clean, ShowsAll, Shows

\* A write of what is clean leaves a clean document.
LEMMA RebasedIsClean ==
    ASSUME NEW doc \in Stored, NEW base \in Nodes, NEW local \in Nodes, NEW r \in Nat,
           NEW e \in Effect, CleanAll(doc.nodes, e), CleanAll(local, e)
    PROVE  CleanAll(Rebase(doc, base, local, r).nodes, e)
<1> DEFINE R == Rebase(doc, base, local, r).nodes
<1> SUFFICES ASSUME NEW n \in Node PROVE Clean(R[n], e)
  BY DEF CleanAll
<1>1. base[n] \in AnyNode /\ local[n] \in AnyNode /\ doc.nodes[n] \in AnyNode
  BY NodesAreNodes DEF Stored
<1>2. Clean(doc.nodes[n], e) /\ Clean(local[n], e) /\ Clean(Gone, e)
  BY DEF CleanAll, Clean
<1>3. CASE R[n] \in {Gone, doc.nodes[n], local[n]}
  BY <1>2, <1>3
<1>4. ASSUME doc.nodes[n] # Gone, local[n] # Gone,
             R[n] = MergeNode(base[n], local[n], doc.nodes[n])
      PROVE  Clean(R[n], e)
  <2>1. /\ R[n].keys \subseteq local[n].keys \cup doc.nodes[n].keys
        /\ R[n].field["content"] \in {local[n].field["content"], doc.nodes[n].field["content"]}
    BY <1>1, <1>4, MergedIsTyped, CanvasAssumption
  <2>2. QED
    BY <1>2, <1>4, <2>1 DEF Clean
<1>5. QED
  <2> HIDE DEF R
  <2>1. \/ R[n] \in {Gone, doc.nodes[n], local[n]}
        \/ /\ doc.nodes[n] # Gone /\ local[n] # Gone
           /\ R[n] = MergeNode(base[n], local[n], doc.nodes[n])
    BY RebasedIsTyped DEF R
  <2>2. QED
    BY <1>3, <1>4, <2>1

\* An ordinary save carries neither the stamp nor the result of an effect that
\* the document is not known to have.
LEMMA OrdinaryIsClean ==
    ASSUME OneEffect, NEW e \in Effect, NEW t, NEW nodes \in Nodes, NEW durable \in Nodes,
           NEW attempts, ShowsAll(nodes, e), CleanAll(durable, e),
           attempts[e].tab = t /\ attempts[e].state \in UnderWay => Wrote(attempts[e], e)
    PROVE  CleanAll(Ordinary(t, nodes, durable, attempts), e)
<1> DEFINE O == Ordinary(t, nodes, durable, attempts)
<1> SUFFICES ASSUME NEW n \in Node PROVE Clean(O[n], e)
  BY DEF CleanAll
<1> DEFINE l == nodes[n]
           d == durable[n]
           mine == {x \in l.keys : attempts[x].tab = t /\ attempts[x].state \in UnderWay}
           c == CHOOSE x \in mine : TRUE
           g == RolledBack(attempts[c].before[n], attempts[c].after[n], l, d)
<1>1. O[n] = IF l = Gone \/ l.keys \subseteq d.keys
             THEN IF l = Gone THEN Gone ELSE [l EXCEPT !.keys = d.keys]
             ELSE IF d = Gone THEN Gone
             ELSE IF mine = {} THEN d
             ELSE [field |-> g, keys |-> d.keys]
  BY DEF Ordinary
<1>2. l \in AnyNode /\ d \in AnyNode /\ Shows(l, e, n) /\ Clean(d, e) /\ Clean(Gone, e)
  BY NodesAreNodes DEF ShowsAll, CleanAll, Clean
<1>3. d.keys \in SUBSET Effect /\ e \notin d.keys /\ "content" \in Field
  BY <1>2, NodeIsTyped, CanvasAssumption DEF Clean, Gone
<1>4. ASSUME l # Gone, l.keys \subseteq d.keys PROVE Clean([l EXCEPT !.keys = d.keys], e)
  <2>1. e \notin l.keys /\ l.field["content"] # Result(e)
    BY <1>2, <1>3, <1>4 DEF Shows
  <2>2. l = [field |-> l.field, keys |-> l.keys]
    BY <1>2, <1>4, NodeIsTyped
  <2>3. [l EXCEPT !.keys = d.keys] = [field |-> l.field, keys |-> d.keys]
    BY <2>2
  <2>4. QED
    BY <1>3, <2>1, <2>3 DEF Clean
<1>5. ASSUME l # Gone, d # Gone, mine # {} PROVE Clean([field |-> g, keys |-> d.keys], e)
  <2>1. c \in mine
    BY <1>5
  <2> HIDE DEF c
  <2>2. c \in Effect /\ c \in l.keys
    BY <1>2, <1>5, <2>1, NodeIsTyped
  <2>3. c = e
    BY <2>2 DEF OneEffect
  <2>4. n = Target[e] /\ Wrote(attempts[e], e)
    BY <1>2, <1>5, <2>1, <2>2, <2>3 DEF Shows
  <2>5. /\ attempts[e].after[n].field["content"] = Result(e)
        /\ attempts[e].before[n].field["content"] # Result(e)
    BY <2>4, AppliedIsTyped DEF Wrote, CleanAll, Clean
  <2>6. g["content"] = IF l.field["content"] = Result(e) THEN d.field["content"]
                       ELSE l.field["content"]
    BY <1>3, <2>3, <2>5 DEF RolledBack
  <2>7. g["content"] # Result(e)
    BY <1>2, <1>5, <2>6 DEF Clean
  <2> HIDE DEF g
  <2>8. QED
    BY <1>3, <2>7 DEF Clean
<1> HIDE DEF mine, g, l, d, O
<1>6. QED
  BY <1>1, <1>2, <1>4, <1>5

\* So does what the store falls back to after a conflict.
LEMMA FallbackIsClean ==
    ASSUME NEW e \in Effect, NEW doc \in Stored, NEW x, Wrote(x, e), NEW nodes \in Nodes, NEW r \in Nat,
           CleanAll(doc.nodes, e), ShowsAll(nodes, e), OneEffect
    PROVE  CleanAll(Rebase(doc, x.after, nodes, r).nodes, e)
<1> DEFINE R == Rebase(doc, x.after, nodes, r).nodes
<1>1. /\ x.after \in Nodes /\ x.after[Target[e]] # Gone
      /\ e \in x.after[Target[e]].keys
      /\ x.after[Target[e]].field["content"] = Result(e)
  BY AppliedIsTyped DEF Wrote
<1> SUFFICES ASSUME NEW n \in Node PROVE Clean(R[n], e)
  BY DEF CleanAll
<1> DEFINE b == x.after[n]
           l == nodes[n]
           d == doc.nodes[n]
<1>2. b \in AnyNode /\ l \in AnyNode /\ d \in AnyNode /\ Shows(l, e, n) /\ Clean(d, e)
  BY <1>1, NodesAreNodes DEF Stored, ShowsAll, CleanAll
<1>3. Clean(Gone, e) /\ "content" \in Field
  BY CanvasAssumption DEF Clean
<1>4. R[n] = CASE Deletes(b, l) -> Gone
               [] ~Deletes(b, l) /\ ~Changes(b, l) -> d
               [] Orphans(b, l, d, doc.tombstone[n], r) -> Gone
               [] OTHER -> IF d = Gone THEN l ELSE MergeNode(b, l, d)
  BY DEF Rebase
<1>5. CASE n # Target[e]
  <2>1. Clean(l, e)
    BY <1>2, <1>5 DEF Shows, Clean
  <2>2. l # Gone /\ d # Gone => Clean(MergeNode(b, l, d), e)
    BY <1>2, <1>3, <2>1, MergedIsTyped DEF Clean
  <2>3. QED
    BY <1>2, <1>3, <1>4, <2>1, <2>2 DEF Changes
<1>6. CASE n = Target[e]
  <2>1. b # Gone /\ b.keys = {e} /\ b.field["content"] = Result(e)
    BY <1>1, <1>2, <1>6, NodeIsTyped DEF OneEffect
  <2>2. d = Gone => R[n] = Gone
    BY <1>4, <2>1 DEF Deletes, Changes, Orphans
  <2>3. ASSUME l # Gone, d # Gone PROVE Clean(MergeNode(b, l, d), e)
    <3>1. d.keys = {} /\ l.keys \in {{}, {e}}
      BY <1>2, <2>3, NodeIsTyped DEF Clean, OneEffect
    <3>2. MergeNode(b, l, d).keys = {}
      BY <2>1, <3>1 DEF MergeNode, MergeKeys, BaseOf
    <3>3. MergeNode(b, l, d).field["content"] =
            Merge(Result(e), l.field["content"], d.field["content"])
      BY <1>3, <2>1 DEF MergeNode, BaseOf
    <3>4. d.field["content"] # Result(e)
      BY <1>2, <2>3 DEF Clean
    <3>5. QED
      BY <3>2, <3>3, <3>4 DEF Clean, Merge
  <2> HIDE DEF b, l, d, R
  <2>4. QED
    BY <1>2, <1>3, <1>4, <2>1, <2>2, <2>3 DEF Changes
<1>7. QED
  BY <1>5, <1>6

LEMMA StampInit == CanvasInit => StampInv
<1> SUFFICES ASSUME CanvasInit, NEW e \in Effect PROVE UncommittedIsUnseen(e)
  BY DEF StampInv
<1> DEFINE N == [n \in Node |-> [field |-> [f \in Field |-> 0], keys |-> {}]]
<1>1. Result(e) # 0 /\ "content" \in Field
  BY CanvasAssumption DEF Result
<1>2. CleanAll(N, e)
  BY <1>1 DEF CleanAll, Clean
<1> HIDE DEF N
<1>3. document.nodes = N /\ \A t \in Tab : store[t] = N /\ observed[t].nodes = N /\ queue[t] = NoSave
  BY DEF CanvasInit, N
<1>4. effect[e].state = "idle"
  BY DEF CanvasInit, Idle
<1>5. QED
  BY <1>2, <1>3, <1>4, CleanShows DEF UncommittedIsUnseen, UnderWay

\* A save of what the tab shows.
LEMMA QueuedIsClean ==
    ASSUME CanvasTypes, OneEffect, NEW e \in Effect, UncommittedIsUnseen(e), NEW t \in Tab,
           NEW nodes \in Nodes, ShowsAll(nodes, e), NEW attempts, QueueSave(t, nodes, attempts),
           attempts[e].tab = t /\ attempts[e].state \in UnderWay => Wrote(attempts[e], e)
    PROVE  \A u \in Tab : /\ ShowsAll(store'[u], e)
                          /\ queue'[u] # NoSave => CleanAll(queue'[u].nodes, e)
<1> DEFINE O == Ordinary(t, nodes, observed[t].nodes, attempts)
<1>1. observed[t].nodes \in Nodes /\ CleanAll(observed[t].nodes, e)
  BY DEF CanvasTypes, UncommittedIsUnseen
<1>2. CleanAll(O, e)
  BY <1>1, OrdinaryIsClean
<1>3. /\ store' = [store EXCEPT ![t] = nodes]
      /\ queue' = [queue EXCEPT ![t] = [base |-> BaseQueued(t), revision |-> RevisionQueued(t),
                                        sent |-> FALSE, nodes |-> O]]
  BY DEF QueueSave
<1> HIDE DEF O
<1>4. \A u \in Tab : /\ store'[u] = IF u = t THEN nodes ELSE store[u]
                     /\ u = t => queue'[u].nodes = O
                     /\ u # t => queue'[u] = queue[u]
  BY <1>3 DEF CanvasTypes
<1>5. QED
  BY <1>2, <1>4 DEF UncommittedIsUnseen

LEMMA EditedShows ==
    ASSUME CanvasTypes, NEW e \in Effect, NEW t \in Tab, NEW nodes, EditsTo(t, nodes),
           ShowsAll(store[t], e)
    PROVE  ShowsAll(nodes, e)
<1> SUFFICES ASSUME NEW n \in Node, nodes[n] # Gone PROVE Shows(nodes[n], e, n)
  BY DEF ShowsAll, Shows
<1>1. ~(Result(e) > 0)
  BY CanvasAssumption DEF Result
<1>2. Shows(store[t][n], e, n)
  BY DEF ShowsAll
<1>3. \/ nodes[n] = store[t][n]
      \/ /\ nodes[n].keys \in {{}, store[t][n].keys}
         /\ nodes[n].keys # {} => store[t][n] # Gone
         /\ \/ nodes[n].field["content"] > 0
            \/ /\ store[t][n] # Gone /\ nodes[n].keys = store[t][n].keys
               /\ nodes[n].field["content"] = store[t][n].field["content"]
  BY EditedIsTyped
<1>4. QED
  BY <1>1, <1>2, <1>3 DEF Shows

LEMMA EditKeepsStamp ==
    ASSUME CanvasTypes, StampInv, OneEffect, NEW t \in Tab, EditStep(t) PROVE StampInv'
<1> SUFFICES ASSUME NEW e \in Effect, ~Committed(effect[e]), effect' = effect
             PROVE  UncommittedIsUnseen(e)'
  BY DEF StampInv, EditStep
<1>1. UncommittedIsUnseen(e)
  BY DEF StampInv
<1>2. PICK nodes : EditsTo(t, nodes) /\ QueueSave(t, nodes, effect)
  BY DEF EditStep
<1>3. ShowsAll(nodes, e) /\ nodes \in Nodes
  BY <1>1, <1>2, EditedShows, EditedIsTyped DEF UncommittedIsUnseen
<1>4. \A u \in Tab : /\ ShowsAll(store'[u], e)
                     /\ queue'[u] # NoSave => CleanAll(queue'[u].nodes, e)
  BY <1>1, <1>2, <1>3, QueuedIsClean DEF UncommittedIsUnseen
<1>5. QED
  BY <1>1, <1>4 DEF EditStep, UncommittedIsUnseen

LEMMA SaveQueueKeepsStamp ==
    ASSUME CanvasTypes, StampInv, NEW t \in Tab, NEW job, SaveQueue(t, job)
    PROVE  StampInv'
<1> SUFFICES ASSUME NEW e \in Effect, ~Committed(effect[e]), effect' = effect
             PROVE  UncommittedIsUnseen(e)'
  BY DEF StampInv, SaveQueue
<1>1. UncommittedIsUnseen(e)
  BY DEF StampInv
<1>2. queue[t] \in SaveRow /\ queue[t] # NoSave
  BY DEF CanvasTypes, SaveQueue, Queued
<1>3. CleanAll(document'.nodes, e)
  BY <1>1, <1>2, RebasedIsClean DEF SaveQueue, UncommittedIsUnseen, SaveRow, CanvasTypes
<1>4. \A u \in Tab : queue'[u] # NoSave => queue[u] # NoSave /\ queue'[u].nodes = queue[u].nodes
  BY <1>2 DEF SaveQueue, CanvasTypes, SaveRow
<1>5. QED
  BY <1>1, <1>3, <1>4 DEF SaveQueue, UncommittedIsUnseen

LEMMA SavesAreNotNone == ASSUME NEW e \in Effect PROVE NoSave \notin SaveRow
<1>1. DOMAIN NoSave.nodes = {}
  BY DEF NoSave
<1>2. \A x \in SaveRow : DOMAIN x.nodes = Node
  BY DEF SaveRow, Nodes
<1>3. Node # {}
  BY CanvasAssumption
<1>4. QED
  BY <1>1, <1>2, <1>3

LEMMA SettleSaveKeepsStamp ==
    ASSUME CanvasTypes, StampInv, NEW t \in Tab, SettleSave(t) PROVE StampInv'
<1> SUFFICES ASSUME NEW e \in Effect, ~Committed(effect[e]), effect' = effect
             PROVE  UncommittedIsUnseen(e)'
  BY DEF StampInv, SettleSave
<1>1. UncommittedIsUnseen(e)
  BY DEF StampInv
<1>2. document \in Stored /\ CleanAll(document.nodes, e)
  BY <1>1 DEF CanvasTypes, UncommittedIsUnseen
<1>3. \A u \in Tab : observed'[u].nodes \in {observed[u].nodes, document.nodes}
  BY <1>2, NotedIsTyped DEF SettleSave
<1>4. queue[t] \in SaveRow /\ queue[t] # NoSave
  BY SenderIsTyped, SavesAreNotNone DEF SettleSave
<1>5. \A u \in Tab : queue'[u] # NoSave => queue[u] # NoSave /\ queue'[u].nodes = queue[u].nodes
  <2>1. CASE queue[t].sent
    BY <2>1 DEF SettleSave, CanvasTypes
  <2>2. CASE ~queue[t].sent
    <3> DEFINE q == [queue[t] EXCEPT !.base = writer.sent, !.revision = document.revision]
    <3>1. q.nodes = queue[t].nodes
      BY <1>4 DEF SaveRow
    <3>2. queue' = [queue EXCEPT ![t] = q]
      BY <2>2 DEF SettleSave, CanvasTypes
    <3> HIDE DEF q
    <3>3. QED
      BY <1>4, <3>1, <3>2 DEF CanvasTypes
  <2>3. QED
    BY <2>1, <2>2
<1>6. QED
  BY <1>1, <1>2, <1>3, <1>5 DEF SettleSave, UncommittedIsUnseen

LEMMA ReloadKeepsStamp ==
    ASSUME CanvasTypes, StampInv, NEW t \in Tab, ReloadTab(t) PROVE StampInv'
<1> SUFFICES ASSUME NEW e \in Effect, ~Committed(effect'[e]) PROVE UncommittedIsUnseen(e)'
  BY DEF StampInv
<1>1. effect'[e] = IF effect[e].tab # t \/ ~Running(e) THEN effect[e]
                   ELSE IF effect[e].state \in {"written", "publishing"}
                        THEN [effect[e] EXCEPT !.state = "applied"] ELSE Idle
  BY DEF ReloadTab
<1>2. Running(e) => effect[e] \in Attempt
  BY DEF CanvasTypes, Running, UnderWay, Idle
<1>3. effect'[e] \in {effect[e], Idle} /\ ~Committed(effect[e])
  BY <1>1, <1>2 DEF Committed, Running, UnderWay, Attempt
<1>4. UncommittedIsUnseen(e)
  BY <1>3 DEF StampInv
<1>5. CleanAll(document.nodes, e) /\ ShowsAll(document.nodes, e) /\ document \in Stored
  BY <1>4, CleanShows DEF UncommittedIsUnseen, CanvasTypes
<1>6. \A u \in Tab : /\ store'[u] \in {store[u], document.nodes}
                     /\ queue'[u] \in {queue[u], NoSave}
                     /\ observed'[u].nodes \in {observed[u].nodes, document.nodes}
  BY <1>5, NotedIsTyped DEF ReloadTab, CanvasTypes
<1>7. Idle.state \notin UnderWay
  BY DEF Idle, UnderWay
<1>8. QED
  BY <1>3, <1>4, <1>5, <1>6, <1>7 DEF ReloadTab, UncommittedIsUnseen

LEMMA BeginKeepsStamp ==
    ASSUME CanvasTypes, StampInv, OneEffect, NEW t \in Tab, NEW f \in Effect, NEW shown \in BOOLEAN,
           BeginEffect(t, f, shown)
    PROVE  StampInv'
<1> SUFFICES ASSUME NEW e \in Effect PROVE UncommittedIsUnseen(e)'
  BY DEF StampInv
<1>1. e = f
  BY DEF OneEffect
<1>2. effect[e].state = "idle" /\ store[t][Target[e]] # Gone /\ e \notin store[t][Target[e]].keys
  BY <1>1 DEF BeginEffect
<1>3. UncommittedIsUnseen(e)
  BY <1>2 DEF StampInv, Committed
<1>4. store[t] \in Nodes /\ effect'[e] = NewAttempt(t, e) /\ Applied(store[t], e) \in Nodes
  BY <1>1, BeginIsTyped
<1>5. ShowsAll(store[t], e) /\ CleanAll(store[t], e)
  <2>1. ShowsAll(store[t], e)
    BY <1>3 DEF UncommittedIsUnseen
  <2>2. QED
    BY <1>2, <2>1 DEF ShowsAll, Shows, CleanAll, Clean
<1>6. Wrote(effect'[e], e)
  BY <1>2, <1>4, <1>5 DEF Wrote, NewAttempt
<1>7. ShowsAll(Applied(store[t], e), e)
  <2>1. ASSUME NEW n \in Node PROVE Shows(Applied(store[t], e)[n], e, n)
    BY <1>2, <1>4, <1>5, AppliedIsTyped DEF ShowsAll, Shows
  <2>2. QED
    BY <2>1 DEF ShowsAll
<1>8. \A u \in Tab : /\ ShowsAll(store'[u], e)
                     /\ queue'[u] # NoSave => CleanAll(queue'[u].nodes, e)
  <2>1. CASE shown
    <3>1. QueueSave(t, Applied(store[t], e), effect')
      BY <1>1, <2>1, BeginIsTyped
    <3>2. QED
      BY <1>3, <1>4, <1>6, <1>7, <3>1, QueuedIsClean
  <2>2. CASE ~shown
    <3> DEFINE O == Ordinary(t, store[t], observed[t].nodes, effect')
    <3>1. observed[t].nodes \in Nodes /\ CleanAll(observed[t].nodes, e)
      BY <1>3 DEF CanvasTypes, UncommittedIsUnseen
    <3>2. CleanAll(O, e)
      BY <1>4, <1>5, <1>6, <3>1, OrdinaryIsClean
    <3>3. /\ queue' = IF Queued(t) THEN [queue EXCEPT ![t].nodes = O] ELSE queue
          /\ store' = store
      BY <2>2, BeginIsTyped
    <3> HIDE DEF O
    <3>4. Queued(t) => queue[t] \in SaveRow
      BY DEF Queued, CanvasTypes
    <3>5. \A u \in Tab : \/ queue'[u] = queue[u]
                         \/ queue'[u].nodes = O
      BY <3>3, <3>4 DEF CanvasTypes, SaveRow
    <3>6. QED
      BY <1>3, <3>2, <3>3, <3>5 DEF UncommittedIsUnseen
  <2>3. QED
    BY <2>1, <2>2
<1>9. QED
  BY <1>3, <1>6, <1>8 DEF BeginEffect, UncommittedIsUnseen

LEMMA EffectConflictKeepsStamp ==
    ASSUME CanvasTypes, StampInv, OneEffect, NEW f \in Effect, EffectConflict(f) PROVE StampInv'
<1> SUFFICES ASSUME NEW e \in Effect PROVE UncommittedIsUnseen(e)'
  BY DEF StampInv
<1> DEFINE t == effect[e].tab
           R == Rebase(document, effect[e].after, store[t], document.revision).nodes
           O == Ordinary(t, store'[t], document.nodes, effect')
<1>1. e = f /\ effect[e].state = "draining"
  BY DEF OneEffect, EffectConflict
<1>2. UncommittedIsUnseen(e) /\ Wrote(effect[e], e)
  BY <1>1 DEF StampInv, Committed, UncommittedIsUnseen, UnderWay
<1>3. t \in Tab /\ CanvasTypes' /\ R = store'[t]
  BY <1>1, EffectConflictTypes
<1>4. /\ document \in Stored /\ document.nodes \in Nodes /\ document.revision \in Nat
      /\ CleanAll(document.nodes, e)
      /\ store[t] \in Nodes /\ ShowsAll(store[t], e) /\ store'[t] \in Nodes
  BY <1>2, <1>3 DEF CanvasTypes, Stored, UncommittedIsUnseen
<1>5. CleanAll(store'[t], e) /\ ShowsAll(store'[t], e)
  BY <1>2, <1>3, <1>4, FallbackIsClean, CleanShows
<1>6. effect'[e].state = "idle"
  BY <1>1 DEF EffectConflict, EffectEnds, CanvasTypes, Idle
<1>7. CleanAll(O, e)
  BY <1>4, <1>5, <1>6, OrdinaryIsClean DEF UnderWay
<1>8. /\ queue' = [queue EXCEPT ![t] = [base |-> document.nodes, revision |-> document.revision,
                                        sent |-> FALSE, nodes |-> O]]
      /\ NoteDocument(t, document) /\ document' = document
      /\ store' = [store EXCEPT ![t] = R]
  BY <1>1 DEF EffectConflict
<1> HIDE DEF O, R
<1>9. \A u \in Tab : /\ u = t => queue'[u].nodes = O
                     /\ u # t => queue'[u] = queue[u] /\ store'[u] = store[u]
                     /\ observed'[u].nodes \in {observed[u].nodes, document.nodes}
  BY <1>3, <1>4, <1>8, NotedIsTyped DEF CanvasTypes
<1> HIDE DEF t
<1>10. QED
  BY <1>2, <1>4, <1>5, <1>6, <1>7, <1>8, <1>9 DEF UncommittedIsUnseen, UnderWay

LEMMA EffectFailsKeepsStamp ==
    ASSUME CanvasTypes, StampInv, OneEffect, NEW f \in Effect, EffectFails(f) PROVE StampInv'
<1> SUFFICES ASSUME NEW e \in Effect PROVE UncommittedIsUnseen(e)'
  BY DEF StampInv
<1> DEFINE t == effect[e].tab
           O == Ordinary(t, store[t], document.nodes, effect)
<1>1. e = f /\ effect[e].state = "draining" /\ t \in Tab
  BY EffectFailsTypes DEF OneEffect, EffectFails
<1>2. UncommittedIsUnseen(e) /\ Wrote(effect[e], e)
  BY <1>1 DEF StampInv, Committed, UncommittedIsUnseen, UnderWay
<1>3. /\ document \in Stored /\ document.nodes \in Nodes /\ CleanAll(document.nodes, e)
      /\ store[t] \in Nodes /\ ShowsAll(store[t], e)
  BY <1>1, <1>2 DEF CanvasTypes, Stored, UncommittedIsUnseen
<1>4. CleanAll(O, e) /\ ShowsAll(O, e)
  BY <1>2, <1>3, OrdinaryIsClean, CleanShows
<1>5. effect'[e].state = "idle"
  BY <1>1 DEF EffectFails, EffectEnds, CanvasTypes, Idle
<1>6. store' \in {store, [store EXCEPT ![t] = O]} /\ UNCHANGED <<document, queue>>
  BY <1>1 DEF EffectFails
<1> HIDE DEF O
<1>7. \A u \in Tab : /\ store'[u] \in {store[u], O}
                     /\ observed'[u].nodes \in {observed[u].nodes, document.nodes}
  BY <1>1, <1>3, <1>6, NotedIsTyped DEF CanvasTypes, EffectFails
<1> HIDE DEF t
<1>8. QED
  BY <1>2, <1>3, <1>4, <1>5, <1>6, <1>7 DEF UncommittedIsUnseen, UnderWay

\* The only effect is committed with the steps that remain.
LEMMA CommittingKeepsStamp ==
    ASSUME CanvasTypes, OneEffect, NEW f \in Effect,
           CommitEffect(f) \/ SettleEffect(f) \/ PublishEffect(f) \/ PublishUndrained(f)
    PROVE  StampInv'
<1>1. effect[f] \in Attempt
  BY AttemptIsTyped DEF CommitEffect, SettleEffect, PublishEffect, PublishUndrained
<1>2. \E s \in {"written", "publishing", "applied"} : effect' = [effect EXCEPT ![f].state = s]
  BY DEF CommitEffect, SettleEffect, PublishEffect, PublishUndrained
<1>3. Committed(effect'[f])
  BY <1>1, <1>2 DEF Committed, CanvasTypes, Attempt
<1>4. QED
  BY <1>3 DEF StampInv, OneEffect

LEMMA LockKeepsStamp ==
    ASSUME CanvasTypes, StampInv, OneEffect, NEW f \in Effect, LockStorage(f) PROVE StampInv'
<1> SUFFICES ASSUME NEW e \in Effect PROVE UncommittedIsUnseen(e)'
  BY DEF StampInv
<1>1. e = f /\ effect[e].state = "waiting" /\ effect[e] \in Attempt
  BY AttemptIsTyped DEF OneEffect, LockStorage
<1>2. UncommittedIsUnseen(e) /\ Wrote(effect[e], e)
  BY <1>1 DEF StampInv, Committed, UncommittedIsUnseen, UnderWay
<1>3. effect'[e].before = effect[e].before /\ effect'[e].after = effect[e].after
  BY <1>1 DEF LockStorage, CanvasTypes, Attempt
<1>4. Wrote(effect'[e], e)
  BY <1>2, <1>3 DEF Wrote
<1>5. QED
  BY <1>2, <1>4 DEF LockStorage, UncommittedIsUnseen

LEMMA StampStep ==
    ASSUME OneEffect, CanvasTypes, StampInv, [CanvasNext]_canvasVars PROVE StampInv'
<1>1. ASSUME NEW t \in Tab, NEW n \in Node,
             (\E f \in Field : Edit(t, n, f)) \/ DeleteNode(t, n) \/ RestoreNode(t, n)
      PROVE  StampInv'
  BY <1>1, EditsAreSteps, EditKeepsStamp
<1>2. UNCHANGED <<document, store, observed, queue, effect>> => StampInv'
  BY DEF StampInv, UncommittedIsUnseen
<1>3. ASSUME NEW t \in Tab, SaveQueue(t, Queue) \/ SettleSave(t) \/ SaveFails(t) \/ ReloadTab(t)
      PROVE  StampInv'
  BY <1>2, <1>3, SaveQueueKeepsStamp, SettleSaveKeepsStamp, ReloadKeepsStamp DEF SaveFails
<1>4. ASSUME NEW t \in Tab, NEW e \in Effect, NEW shown \in BOOLEAN, BeginEffect(t, e, shown)
      PROVE  StampInv'
  BY <1>4, BeginKeepsStamp
<1>5. ASSUME NEW e \in Effect, EffectStep(e) PROVE StampInv'
  <2>1. CASE SaveQueue(effect[e].tab, e)
    <3>1. effect[e].tab \in Tab
      BY <2>1, AttemptIsTyped, CanvasAssumption DEF SaveQueue, MayWrite, Queue
    <3>2. QED
      BY <2>1, <3>1, SaveQueueKeepsStamp
  <2>2. QED
    BY <1>5, <2>1, LockKeepsStamp, CommittingKeepsStamp, EffectConflictKeepsStamp DEF EffectStep
<1>6. ASSUME NEW e \in Effect, EffectFails(e) \/ PublishUndrained(e) PROVE StampInv'
  BY <1>6, EffectFailsKeepsStamp, CommittingKeepsStamp
<1>7. CASE UNCHANGED canvasVars
  BY <1>2, <1>7 DEF canvasVars
<1>8. QED
  BY <1>1, <1>3, <1>4, <1>5, <1>6, <1>7 DEF CanvasNext

\* With one effect, neither its stamp nor its result reaches the document but by
\* its commit, whatever the tabs edit, save, abort, retry and reload.
THEOREM StampsComeWithCommits == OneEffect => (CanvasSpec => []StampsAreCommitted)
<1> SUFFICES ASSUME OneEffect PROVE CanvasSpec => []StampsAreCommitted
  OBVIOUS
<1>1. CanvasTypes /\ StampInv => StampsAreCommitted
  BY DEF StampInv, UncommittedIsUnseen, CleanAll, Clean, Gone, Committed, StampsAreCommitted
<1>2. CanvasTypes /\ StampInv /\ [CanvasNext]_canvasVars => StampInv'
  BY StampStep
<1>3. QED
  BY <1>1, <1>2, CanvasTypesInit, CanvasTypesStep, StampInit, PTL DEF CanvasSpec

-----------------------------------------------------------------------------
(* Stamps, of any effects, on a node that stays in the document.           *)

\* A save that is queued drops no stamp that its base has.
SaveKeepsStamps(q, n, seen) ==
    q # NoSave =>
        /\ q.base[n].keys \subseteq seen
        /\ q.nodes[n] # Gone => /\ q.base[n].keys \subseteq q.nodes[n].keys
                                /\ q.nodes[n].keys \subseteq seen

\* Nor does the save that is queued while another is being sent, once it is
\* based on that one.
SentKeepsStamps(w, n) ==
    w.sent # <<>> =>
        /\ w.sent[n].keys \subseteq observed[w.tab].nodes[n].keys
        /\ queue[w.tab].nodes[n] # Gone => w.sent[n].keys \subseteq queue[w.tab].nodes[n].keys

StampsOnlyAdded(n) ==
    /\ \A t \in Tab : /\ observed[t].nodes[n].keys \subseteq document.nodes[n].keys
                      /\ SaveKeepsStamps(queue[t], n, observed[t].nodes[n].keys)
    /\ SentKeepsStamps(writer, n)
    /\ \A e \in Effect : effect[e].state # "idle" =>
            effect[e].before[n].keys \subseteq effect[e].after[n].keys

DocumentKeepsStamps(n) == document.nodes[n].keys \subseteq document'.nodes[n].keys

LEMMA GoneHasNoStamp == Gone.keys = {}
  BY DEF Gone

LEMMA MergeKeepsStamps ==
    ASSUME NEW doc \in Stored, NEW base \in Nodes, NEW local \in Nodes, NEW r \in Nat,
           NEW n \in Node, doc.nodes[n] # Gone, Rebase(doc, base, local, r).nodes[n] # Gone,
           local[n] # Gone => base[n].keys \subseteq local[n].keys
    PROVE  doc.nodes[n].keys \subseteq Rebase(doc, base, local, r).nodes[n].keys
<1> DEFINE b == base[n]
           l == local[n]
           d == doc.nodes[n]
           x == Rebase(doc, base, local, r).nodes[n]
<1>1. x = CASE Deletes(b, l) -> Gone
            [] ~Deletes(b, l) /\ ~Changes(b, l) -> d
            [] Orphans(b, l, d, doc.tombstone[n], r) -> Gone
            [] OTHER -> IF d = Gone THEN l ELSE MergeNode(b, l, d)
  BY DEF Rebase
<1>2. BaseOf(b).keys = b.keys
  BY GoneHasNoStamp DEF BaseOf
<1>3. x = d \/ (Changes(b, l) /\ x = MergeNode(b, l, d))
  BY <1>1 DEF Deletes, Changes
<1>4. CASE x = d
  BY <1>4
<1>5. CASE Changes(b, l) /\ x = MergeNode(b, l, d)
  <2>1. x.keys = MergeKeys(b.keys, l.keys, d.keys) /\ b.keys \subseteq l.keys
    BY <1>2, <1>5 DEF MergeNode, Changes
  <2> HIDE DEF b, l, d, x
  <2>2. d.keys \subseteq x.keys
    BY <2>1 DEF MergeKeys
  <2>3. QED
    BY <2>2 DEF d, x
<1>6. QED
  BY <1>3, <1>4, <1>5

LEMMA OrdinaryHasSeen ==
    ASSUME NEW t, NEW nodes \in Nodes, NEW durable \in Nodes, NEW attempts, NEW n \in Node,
           Ordinary(t, nodes, durable, attempts)[n] # Gone
    PROVE  Ordinary(t, nodes, durable, attempts)[n].keys = durable[n].keys
<1> DEFINE l == nodes[n]
           d == durable[n]
           mine == {e \in l.keys : attempts[e].tab = t /\ attempts[e].state \in UnderWay}
           g(e) == RolledBack(attempts[e].before[n], attempts[e].after[n], l, d)
           x == Ordinary(t, nodes, durable, attempts)[n]
<1>1. x = IF l = Gone \/ l.keys \subseteq d.keys
          THEN IF l = Gone THEN Gone ELSE [l EXCEPT !.keys = d.keys]
          ELSE IF d = Gone THEN Gone
          ELSE IF mine = {} THEN d
          ELSE [field |-> g(CHOOSE y \in mine : TRUE), keys |-> d.keys]
  BY DEF Ordinary
<1>2. l # Gone => [l EXCEPT !.keys = d.keys].keys = d.keys
  <2>1. l \in AnyNode
    BY NodesAreNodes
  <2>2. l # Gone => l = [field |-> l.field, keys |-> l.keys]
    BY <2>1, NodeIsTyped
  <2> HIDE DEF l, d
  <2>3. QED
    BY <2>2
<1> HIDE DEF l, d, mine, g
<1>3. x # Gone => x.keys = d.keys
  BY <1>1, <1>2
<1>4. QED
  BY <1>3 DEF d

-----------------------------------------------------------------------------
LEMMA StampsInit == ASSUME NEW n \in Node, CanvasInit PROVE StampsOnlyAdded(n)
<1> DEFINE N == [m \in Node |-> [field |-> [f \in Field |-> 0], keys |-> {}]]
<1>1. N[n].keys = {}
  OBVIOUS
<1> HIDE DEF N
<1>2. /\ document = [nodes |-> N, revision |-> 1, tombstone |-> [m \in Node |-> 0]]
      /\ observed = [t \in Tab |-> [nodes |-> N, revision |-> 1]]
  BY DEF CanvasInit, N
<1>3. writer.sent = <<>> /\ \A t \in Tab : queue[t] = NoSave
  BY DEF CanvasInit, NoWriter
<1>4. \A e \in Effect : effect[e].state = "idle"
  BY DEF CanvasInit, Idle
<1>5. QED
  BY <1>1, <1>2, <1>3, <1>4 DEF StampsOnlyAdded, SaveKeepsStamps, SentKeepsStamps

\* A tab queues a save of what it shows.
LEMMA QueuedKeepsStamps ==
    ASSUME CanvasTypes, NEW n \in Node, StampsOnlyAdded(n), NEW t \in Tab, NEW nodes \in Nodes,
           NEW attempts, QueueSave(t, nodes, attempts)
    PROVE  /\ \A u \in Tab : SaveKeepsStamps(queue'[u], n, observed[u].nodes[n].keys)
           /\ writer.sent # <<>> =>
                (queue'[writer.tab].nodes[n] # Gone =>
                    writer.sent[n].keys \subseteq queue'[writer.tab].nodes[n].keys)
<1> DEFINE O == Ordinary(t, nodes, observed[t].nodes, attempts)
           seen == observed[t].nodes[n].keys
           q == [base |-> BaseQueued(t), revision |-> RevisionQueued(t), sent |-> FALSE,
                 nodes |-> O]
<1>1. observed[t].nodes \in Nodes
  BY DEF CanvasTypes
<1>2. O[n] # Gone => O[n].keys = seen
  BY <1>1, OrdinaryHasSeen
<1>3. queue' = [queue EXCEPT ![t] = q]
  BY DEF QueueSave
<1> HIDE DEF O
<1>4. BaseQueued(t)[n].keys \subseteq seen
  BY DEF BaseQueued, Queued, StampsOnlyAdded, SaveKeepsStamps
<1>5. SaveKeepsStamps(q, n, seen) /\ q.nodes = O
  BY <1>2, <1>4 DEF SaveKeepsStamps
<1> HIDE DEF q
<1>6. \A u \in Tab : queue'[u] = IF u = t THEN q ELSE queue[u]
  BY <1>3 DEF CanvasTypes
<1>7. \A u \in Tab : SaveKeepsStamps(queue'[u], n, observed[u].nodes[n].keys)
  BY <1>5, <1>6 DEF StampsOnlyAdded
<1>8. writer.sent # <<>> => writer.tab \in Tab /\ SentKeepsStamps(writer, n)
  BY SenderIsTyped DEF StampsOnlyAdded
<1>9. ASSUME writer.sent # <<>>, queue'[writer.tab].nodes[n] # Gone
      PROVE  writer.sent[n].keys \subseteq queue'[writer.tab].nodes[n].keys
  <2>1. CASE writer.tab = t
    <3>1. queue'[t] = q /\ O[n] # Gone
      BY <1>5, <1>6, <1>9, <2>1
    <3>2. writer.sent[n].keys \subseteq seen
      BY <1>8, <1>9, <2>1 DEF SentKeepsStamps
    <3>3. QED
      BY <1>2, <1>5, <2>1, <3>1, <3>2
  <2>2. CASE writer.tab # t
    BY <1>6, <1>8, <1>9, <2>2 DEF SentKeepsStamps
  <2>3. QED
    BY <2>1, <2>2
<1>10. QED
  BY <1>7, <1>9

\* Nothing that is queued or observed is disturbed by stamps that are added to
\* the document.
LEMMA AddedToDocument ==
    ASSUME NEW n \in Node, StampsOnlyAdded(n), DocumentKeepsStamps(n),
           UNCHANGED <<observed, queue, writer>>,
           \A e \in Effect : effect'[e].state # "idle" =>
                effect[e].state # "idle" /\ effect'[e].before = effect[e].before
                /\ effect'[e].after = effect[e].after
    PROVE  StampsOnlyAdded(n)'
  BY DEF StampsOnlyAdded, SaveKeepsStamps, SentKeepsStamps, DocumentKeepsStamps

LEMMA NotedIsSeen ==
    ASSUME CanvasTypes, NEW t \in Tab, NoteDocument(t, document), NEW n \in Node,
           StampsOnlyAdded(n)
    PROVE  /\ \A u \in Tab : observed'[u].nodes =
                IF u = t THEN document.nodes ELSE observed[u].nodes
           /\ \A u \in Tab : /\ observed'[u].nodes[n].keys \subseteq document.nodes[n].keys
                             /\ observed[u].nodes[n].keys \subseteq observed'[u].nodes[n].keys
<1>1. \A u \in Tab : observed'[u].nodes = IF u = t THEN document.nodes ELSE observed[u].nodes
  BY DEF NoteDocument, CanvasTypes
<1>2. QED
  BY <1>1 DEF StampsOnlyAdded

\* A save stays one that drops no stamp when its tab sees more of them.
LEMMA SeenMore ==
    ASSUME NEW q, NEW n, NEW a, NEW b, SaveKeepsStamps(q, n, a), a \subseteq b
    PROVE  SaveKeepsStamps(q, n, b)
  BY DEF SaveKeepsStamps

LEMMA EditAddsStamps ==
    ASSUME CanvasTypes, NEW n \in Node, StampsOnlyAdded(n), NEW t \in Tab, EditStep(t)
    PROVE  StampsOnlyAdded(n)' /\ DocumentKeepsStamps(n)
<1>1. PICK nodes : EditsTo(t, nodes) /\ QueueSave(t, nodes, effect)
  BY DEF EditStep
<1>2. nodes \in Nodes
  BY <1>1, EditedIsTyped
<1>3. /\ \A u \in Tab : SaveKeepsStamps(queue'[u], n, observed[u].nodes[n].keys)
      /\ writer.sent # <<>> =>
            (queue'[writer.tab].nodes[n] # Gone =>
                writer.sent[n].keys \subseteq queue'[writer.tab].nodes[n].keys)
  BY <1>1, <1>2, QueuedKeepsStamps
<1>4. UNCHANGED <<document, observed, writer, effect>>
  BY DEF EditStep
<1>5. QED
  BY <1>3, <1>4 DEF StampsOnlyAdded, SentKeepsStamps, DocumentKeepsStamps

LEMMA SaveQueueAddsStamps ==
    ASSUME CanvasTypes, NEW n \in Node, StampsOnlyAdded(n), NEW t \in Tab, NEW job, SaveQueue(t, job),
           document.nodes[n] # Gone, document'.nodes[n] # Gone
    PROVE  StampsOnlyAdded(n)' /\ DocumentKeepsStamps(n)
<1>1. queue[t] \in SaveRow /\ queue[t] # NoSave /\ document \in Stored
  BY DEF CanvasTypes, SaveQueue, Queued
<1>2. SaveKeepsStamps(queue[t], n, observed[t].nodes[n].keys)
  BY DEF StampsOnlyAdded
<1>3. DocumentKeepsStamps(n)
  <2>1. document' = Rebase(document, queue[t].base, queue[t].nodes, queue[t].revision)
    BY DEF SaveQueue
  <2>2. queue[t].nodes[n] # Gone => queue[t].base[n].keys \subseteq queue[t].nodes[n].keys
    BY <1>1, <1>2 DEF SaveKeepsStamps
  <2>3. queue[t].base \in Nodes /\ queue[t].nodes \in Nodes /\ queue[t].revision \in Nat
    BY <1>1 DEF SaveRow
  <2>4. QED
    BY <1>1, <2>1, <2>2, <2>3, MergeKeepsStamps DEF DocumentKeepsStamps
<1>4. queue' = [queue EXCEPT ![t] = [queue[t] EXCEPT !.sent = TRUE]]
  BY DEF SaveQueue, CanvasTypes
<1>5. \A u \in Tab : /\ queue'[u] # NoSave => queue[u] # NoSave
                     /\ queue'[u].base = queue[u].base /\ queue'[u].nodes = queue[u].nodes
  BY <1>1, <1>4 DEF CanvasTypes, SaveRow
<1>6. writer'.tab = t /\ writer'.sent = queue[t].nodes
  BY DEF SaveQueue
<1>7. queue[t].nodes[n].keys \subseteq observed[t].nodes[n].keys
  BY <1>1, <1>2, GoneHasNoStamp DEF SaveKeepsStamps
<1>8. SentKeepsStamps(writer, n)'
  BY <1>5, <1>6, <1>7 DEF SentKeepsStamps, SaveQueue
<1>9. \A u \in Tab : SaveKeepsStamps(queue'[u], n, observed[u].nodes[n].keys)
  BY <1>5 DEF StampsOnlyAdded, SaveKeepsStamps
<1>10. QED
  BY <1>3, <1>8, <1>9 DEF StampsOnlyAdded, DocumentKeepsStamps, SaveQueue

LEMMA SettleSaveAddsStamps ==
    ASSUME CanvasTypes, NEW n \in Node, StampsOnlyAdded(n), NEW t \in Tab, SettleSave(t)
    PROVE  StampsOnlyAdded(n)' /\ DocumentKeepsStamps(n)
<1>1. /\ writer.tab = t /\ writer.sent # <<>> /\ queue[t] \in SaveRow
      /\ writer \in WriterRow /\ queue[t] # NoSave
  <2>1. writer.tab = t /\ writer.sent # <<>> /\ queue[t] \in SaveRow /\ writer \in WriterRow
    BY SenderIsTyped DEF SettleSave
  <2>2. queue[t] # NoSave
    <3>1. DOMAIN queue[t].nodes = Node
      BY <2>1 DEF SaveRow, Nodes
    <3>2. DOMAIN NoSave.nodes = {}
      BY DEF NoSave
    <3>3. QED
      BY <3>1, <3>2
  <2>3. QED
    BY <2>1, <2>2
<1>2. /\ \A u \in Tab : observed'[u].nodes[n].keys \subseteq document.nodes[n].keys
      /\ \A u \in Tab : observed[u].nodes[n].keys \subseteq observed'[u].nodes[n].keys
  BY NotedIsSeen DEF SettleSave
<1>3. writer'.sent = <<>>
  BY <1>1, NobodySends DEF SettleSave, WriterRow
<1>4. \A u \in Tab : SaveKeepsStamps(queue[u], n, observed'[u].nodes[n].keys)
  BY <1>2, SeenMore DEF StampsOnlyAdded
<1>5. \A u \in Tab : SaveKeepsStamps(queue'[u], n, observed'[u].nodes[n].keys)
  <2>1. CASE queue[t].sent
    BY <1>4, <2>1 DEF SettleSave, CanvasTypes, SaveKeepsStamps
  <2>2. CASE ~queue[t].sent
    <3> DEFINE q == [queue[t] EXCEPT !.base = writer.sent, !.revision = document.revision]
    <3>1. q.nodes = queue[t].nodes /\ q.base = writer.sent
      BY <1>1 DEF SaveRow
    <3>2. queue' = [queue EXCEPT ![t] = q]
      BY <2>2 DEF SettleSave, CanvasTypes
    <3> HIDE DEF q
    <3>3. SentKeepsStamps(writer, n)
      BY DEF StampsOnlyAdded
    <3>4. SaveKeepsStamps(queue[t], n, observed[t].nodes[n].keys)
      BY DEF StampsOnlyAdded
    <3>5. SaveKeepsStamps(q, n, observed[t].nodes[n].keys)
      BY <1>1, <3>1, <3>3, <3>4 DEF SaveKeepsStamps, SentKeepsStamps
    <3>6. SaveKeepsStamps(q, n, observed'[t].nodes[n].keys)
      BY <1>2, <3>5, SeenMore
    <3>7. \A u \in Tab : queue'[u] = IF u = t THEN q ELSE queue[u]
      BY <3>2 DEF CanvasTypes
    <3>8. QED
      BY <1>4, <3>6, <3>7
  <2>3. QED
    BY <2>1, <2>2
<1>6. QED
  BY <1>2, <1>3, <1>5 DEF SettleSave, StampsOnlyAdded, SentKeepsStamps, DocumentKeepsStamps

LEMMA ReloadAddsStamps ==
    ASSUME CanvasTypes, NEW n \in Node, StampsOnlyAdded(n), NEW t \in Tab, ReloadTab(t)
    PROVE  StampsOnlyAdded(n)' /\ DocumentKeepsStamps(n)
<1>1. /\ \A u \in Tab : observed'[u].nodes = IF u = t THEN document.nodes ELSE observed[u].nodes
      /\ \A u \in Tab : observed'[u].nodes[n].keys \subseteq document.nodes[n].keys
      /\ \A u \in Tab : observed[u].nodes[n].keys \subseteq observed'[u].nodes[n].keys
  BY NotedIsSeen DEF ReloadTab
<1>2. \A u \in Tab : queue'[u] = IF u = t THEN NoSave ELSE queue[u]
  BY DEF ReloadTab, CanvasTypes
<1>3. \A u \in Tab : SaveKeepsStamps(queue'[u], n, observed'[u].nodes[n].keys)
  <2>1. \A u \in Tab : SaveKeepsStamps(queue[u], n, observed'[u].nodes[n].keys)
    BY <1>1, SeenMore DEF StampsOnlyAdded
  <2>2. QED
    BY <1>2, <2>1 DEF SaveKeepsStamps
<1>4. SentKeepsStamps(writer, n)'
  <2>1. CASE writer.tab = t
    BY <2>1, NobodySends DEF ReloadTab, SentKeepsStamps
  <2>2. CASE writer.tab # t
    <3>1. writer' = writer
      BY <2>2 DEF ReloadTab
    <3>2. writer.sent # <<>> => /\ observed'[writer.tab].nodes = observed[writer.tab].nodes
                                /\ queue'[writer.tab] = queue[writer.tab]
      BY <1>1, <1>2, <2>2, SenderIsTyped
    <3>3. QED
      BY <3>1, <3>2 DEF StampsOnlyAdded, SentKeepsStamps
  <2>3. QED
    BY <2>1, <2>2
<1>5. ASSUME NEW e \in Effect, effect'[e].state # "idle"
      PROVE  effect'[e].before[n].keys \subseteq effect'[e].after[n].keys
  <2>1. effect'[e] = IF effect[e].tab # t \/ ~Running(e) THEN effect[e]
                     ELSE IF effect[e].state \in {"written", "publishing"}
                          THEN [effect[e] EXCEPT !.state = "applied"] ELSE Idle
    BY DEF ReloadTab
  <2>2. Running(e) => effect[e] \in Attempt
    BY DEF CanvasTypes, Running, UnderWay, Idle
  <2>3. /\ effect'[e].before = effect[e].before /\ effect'[e].after = effect[e].after
        /\ effect[e].state # "idle"
    BY <1>5, <2>1, <2>2 DEF Attempt, UnderWay, Running, Idle
  <2>4. QED
    BY <2>3 DEF StampsOnlyAdded
<1>6. document' = document
  BY DEF ReloadTab
<1>7. QED
  BY <1>1, <1>3, <1>4, <1>5, <1>6 DEF StampsOnlyAdded, DocumentKeepsStamps

LEMMA BeginAddsStamps ==
    ASSUME CanvasTypes, NEW n \in Node, StampsOnlyAdded(n), NEW t \in Tab, NEW e \in Effect,
           NEW shown \in BOOLEAN, BeginEffect(t, e, shown)
    PROVE  StampsOnlyAdded(n)' /\ DocumentKeepsStamps(n)
<1>1. /\ store[t] \in Nodes /\ Applied(store[t], e) \in Nodes
      /\ effect' = [effect EXCEPT ![e] = NewAttempt(t, e)]
      /\ store[t][Target[e]] # Gone
  BY BeginIsTyped DEF BeginEffect
<1>2. UNCHANGED <<document, observed, writer>>
  BY DEF BeginEffect
<1>3. ASSUME NEW x \in Effect, effect'[x].state # "idle"
      PROVE  effect'[x].before[n].keys \subseteq effect'[x].after[n].keys
  <2>1. CASE x = e
    <3>1. effect'[x].before = store[t] /\ effect'[x].after = Applied(store[t], e)
      BY <1>1, <2>1 DEF CanvasTypes, NewAttempt
    <3>2. store[t][n].keys \subseteq Applied(store[t], e)[n].keys
      BY <1>1, NodesAreNodes DEF Applied
    <3>3. QED
      BY <3>1, <3>2
  <2>2. CASE x # e
    BY <1>1, <1>3, <2>2 DEF CanvasTypes, StampsOnlyAdded
  <2>3. QED
    BY <2>1, <2>2
<1>4. /\ \A u \in Tab : SaveKeepsStamps(queue'[u], n, observed[u].nodes[n].keys)
      /\ writer.sent # <<>> =>
            (queue'[writer.tab].nodes[n] # Gone =>
                writer.sent[n].keys \subseteq queue'[writer.tab].nodes[n].keys)
  <2>1. CASE shown
    <3>1. QueueSave(t, Applied(store[t], e), effect')
      BY <2>1, BeginIsTyped
    <3>2. QED
      BY <1>1, <3>1, QueuedKeepsStamps
  <2>2. CASE ~shown
    <3> DEFINE O == Ordinary(t, store[t], observed[t].nodes, effect')
    <3>1. observed[t].nodes \in Nodes
      BY DEF CanvasTypes
    <3>2. O[n] # Gone => O[n].keys = observed[t].nodes[n].keys
      BY <1>1, <3>1, OrdinaryHasSeen
    <3>3. queue' = IF Queued(t) THEN [queue EXCEPT ![t].nodes = O] ELSE queue
      BY <2>2, BeginIsTyped
    <3> HIDE DEF O
    <3>4. Queued(t) => queue[t] \in SaveRow
      BY DEF Queued, CanvasTypes
    <3>5. \A u \in Tab : \/ queue'[u] = queue[u]
                         \/ /\ u = t /\ queue[u] # NoSave
                            /\ queue'[u].base = queue[u].base /\ queue'[u].nodes = O
      BY <3>3, <3>4 DEF CanvasTypes, SaveRow, Queued
    <3>6. \A u \in Tab : SaveKeepsStamps(queue'[u], n, observed[u].nodes[n].keys)
      BY <3>2, <3>5 DEF StampsOnlyAdded, SaveKeepsStamps
    <3>7. writer.sent # <<>> => writer.tab \in Tab /\ SentKeepsStamps(writer, n)
      BY SenderIsTyped DEF StampsOnlyAdded
    <3>8. QED
      BY <3>2, <3>5, <3>6, <3>7 DEF SentKeepsStamps
  <2>3. QED
    BY <2>1, <2>2
<1>5. QED
  BY <1>2, <1>3, <1>4 DEF StampsOnlyAdded, SentKeepsStamps, DocumentKeepsStamps

LEMMA CommitAddsStamps ==
    ASSUME CanvasTypes, NEW n \in Node, StampsOnlyAdded(n), NEW e \in Effect,
           LockStorage(e) \/ CommitEffect(e), document.nodes[n] # Gone, document'.nodes[n] # Gone
    PROVE  StampsOnlyAdded(n)' /\ DocumentKeepsStamps(n)
<1>1. /\ effect[e] \in Attempt /\ effect[e].state # "idle"
      /\ \E s \in {"draining", "written"} : effect' = [effect EXCEPT ![e].state = s]
      /\ UNCHANGED <<observed, queue>>
  BY AttemptIsTyped DEF LockStorage, CommitEffect
<1>2. \A x \in Effect : effect'[x].state # "idle" =>
        effect[x].state # "idle" /\ effect'[x].before = effect[x].before
        /\ effect'[x].after = effect[x].after
  BY <1>1 DEF CanvasTypes, Attempt
<1>3. CASE LockStorage(e)
  <2>1. writer'.sent = <<>> /\ document' = document
    BY <1>3 DEF LockStorage
  <2>2. QED
    BY <1>1, <1>2, <2>1 DEF StampsOnlyAdded, SentKeepsStamps, DocumentKeepsStamps
<1>4. CASE CommitEffect(e)
  <2>1. /\ document' = Rebase(document, effect[e].before, effect[e].after, effect[e].revision)
        /\ writer' = writer
    BY <1>4 DEF CommitEffect
  <2>2. /\ effect[e].before \in Nodes /\ effect[e].after \in Nodes /\ effect[e].revision \in Nat
        /\ document \in Stored
    BY <1>1 DEF Attempt, CanvasTypes
  <2>3. effect[e].before[n].keys \subseteq effect[e].after[n].keys
    BY <1>1 DEF StampsOnlyAdded
  <2>4. DocumentKeepsStamps(n)
    BY <2>1, <2>2, <2>3, MergeKeepsStamps DEF DocumentKeepsStamps
  <2>5. QED
    BY <1>1, <1>2, <2>1, <2>4, AddedToDocument
<1>5. QED
  BY <1>3, <1>4

\* What all the steps have in common that read the document again: the save of
\* the tab is left alone, dropped, or based on the document.
LEMMA ReadAddsStamps ==
    ASSUME CanvasTypes, NEW n \in Node, StampsOnlyAdded(n), NEW t \in Tab,
           NoteDocument(t, document), document' = document, NEW nodes \in Nodes, NEW attempts,
           NEW q, q.base = document.nodes,
           q.nodes = Ordinary(t, nodes, document.nodes, attempts),
           queue' \in {queue, [queue EXCEPT ![t] = q]},
           writer' = writer \/ writer'.sent = <<>>,
           \A e \in Effect : effect'[e].state # "idle" =>
                effect[e].state # "idle" /\ effect'[e].before = effect[e].before
                /\ effect'[e].after = effect[e].after
    PROVE  StampsOnlyAdded(n)' /\ DocumentKeepsStamps(n)
<1> DEFINE O == Ordinary(t, nodes, document.nodes, attempts)
<1>1. /\ \A u \in Tab : observed'[u].nodes = IF u = t THEN document.nodes ELSE observed[u].nodes
      /\ \A u \in Tab : observed'[u].nodes[n].keys \subseteq document.nodes[n].keys
      /\ \A u \in Tab : observed[u].nodes[n].keys \subseteq observed'[u].nodes[n].keys
  BY NotedIsSeen
<1>2. document.nodes \in Nodes
  BY DEF CanvasTypes, Stored
<1>3. O[n] # Gone => O[n].keys = document.nodes[n].keys
  BY <1>2, OrdinaryHasSeen
<1> HIDE DEF O
<1>4. q.nodes = O
  BY DEF O
<1>5. \A u \in Tab : queue'[u] = queue[u] \/ (u = t /\ queue'[u] = q)
  BY DEF CanvasTypes
<1>6. SaveKeepsStamps(q, n, document.nodes[n].keys)
  BY <1>3, <1>4 DEF SaveKeepsStamps
<1>7. \A u \in Tab : SaveKeepsStamps(queue'[u], n, observed'[u].nodes[n].keys)
  <2>1. \A u \in Tab : SaveKeepsStamps(queue[u], n, observed'[u].nodes[n].keys)
    BY <1>1, SeenMore DEF StampsOnlyAdded
  <2>2. QED
    BY <1>1, <1>5, <1>6, <2>1
<1>8. SentKeepsStamps(writer, n)'
  <2>1. SUFFICES ASSUME writer' = writer, writer.sent # <<>> PROVE SentKeepsStamps(writer, n)'
    BY DEF SentKeepsStamps
  <2>2. writer.tab \in Tab /\ SentKeepsStamps(writer, n)
    BY <2>1, SenderIsTyped DEF StampsOnlyAdded
  <2>3. /\ writer.sent[n].keys \subseteq observed[writer.tab].nodes[n].keys
        /\ observed[writer.tab].nodes[n].keys \subseteq observed'[writer.tab].nodes[n].keys
        /\ observed[writer.tab].nodes[n].keys \subseteq document.nodes[n].keys
    BY <1>1, <2>1, <2>2 DEF SentKeepsStamps, StampsOnlyAdded
  <2>4. queue'[writer.tab].nodes[n] # Gone =>
            writer.sent[n].keys \subseteq queue'[writer.tab].nodes[n].keys
    <3>1. CASE queue'[writer.tab] = queue[writer.tab]
      BY <2>1, <2>2, <3>1 DEF SentKeepsStamps
    <3>2. CASE queue'[writer.tab] = q
      BY <1>3, <1>4, <2>3, <3>2
    <3>3. QED
      BY <1>5, <2>2, <3>1, <3>2
  <2>5. QED
    BY <2>1, <2>3, <2>4 DEF SentKeepsStamps
<1>9. QED
  BY <1>1, <1>7, <1>8 DEF StampsOnlyAdded, DocumentKeepsStamps

\* Settling, publishing, falling back and failing read the document.
LEMMA SettleEffectAddsStamps ==
    ASSUME CanvasTypes, NEW n \in Node, StampsOnlyAdded(n), NEW e \in Effect,
           SettleEffect(e) \/ PublishEffect(e)
    PROVE  StampsOnlyAdded(n)' /\ DocumentKeepsStamps(n)
<1> DEFINE t == effect[e].tab
           q == [base |-> document.nodes, revision |-> document.revision,
                 nodes |-> Ordinary(t, store[t], document.nodes, effect), sent |-> FALSE]
<1>1. /\ effect[e] \in Attempt /\ effect[e].state # "idle" /\ t \in Tab
      /\ \E s \in {"publishing", "applied"} : effect' = [effect EXCEPT ![e].state = s]
  BY AttemptIsTyped DEF SettleEffect, PublishEffect
<1>2. \A x \in Effect : effect'[x].state # "idle" =>
        effect[x].state # "idle" /\ effect'[x].before = effect[x].before
        /\ effect'[x].after = effect[x].after
  BY <1>1 DEF CanvasTypes, Attempt
<1>3. /\ NoteDocument(t, document) /\ document' = document
      /\ queue' \in {queue, [queue EXCEPT ![t] = q]}
      /\ writer' = writer \/ writer'.sent = <<>>
  BY NobodySends DEF SettleEffect, PublishEffect
<1>4. store[t] \in Nodes
  BY <1>1 DEF CanvasTypes
<1>5. q.base = document.nodes /\ q.nodes = Ordinary(t, store[t], document.nodes, effect)
  OBVIOUS
<1> HIDE DEF q, t
<1>6. QED
  BY <1>1, <1>2, <1>3, <1>4, <1>5, ReadAddsStamps

LEMMA EffectConflictAddsStamps ==
    ASSUME CanvasTypes, NEW n \in Node, StampsOnlyAdded(n), NEW e \in Effect, EffectConflict(e)
    PROVE  StampsOnlyAdded(n)' /\ DocumentKeepsStamps(n)
<1> DEFINE t == effect[e].tab
           q == [base |-> document.nodes, revision |-> document.revision, sent |-> FALSE,
                 nodes |-> Ordinary(t, store'[t], document.nodes, effect')]
<1>1. t \in Tab /\ CanvasTypes'
  BY EffectConflictTypes
<1>2. store'[t] \in Nodes
  BY <1>1 DEF CanvasTypes
<1>3. \A x \in Effect : effect'[x].state # "idle" => effect'[x] = effect[x]
  BY DEF EffectConflict, EffectEnds, CanvasTypes, Idle
<1>4. /\ NoteDocument(t, document) /\ document' = document
      /\ queue' = [queue EXCEPT ![t] = q] /\ writer'.sent = <<>>
  BY NobodySends DEF EffectConflict, EffectEnds
<1>5. q.base = document.nodes /\ q.nodes = Ordinary(t, store'[t], document.nodes, effect')
  OBVIOUS
<1> HIDE DEF q, t
<1>6. QED
  BY <1>1, <1>2, <1>3, <1>4, <1>5, ReadAddsStamps

LEMMA EffectFailsAddsStamps ==
    ASSUME CanvasTypes, NEW n \in Node, StampsOnlyAdded(n), NEW e \in Effect, EffectFails(e)
    PROVE  StampsOnlyAdded(n)' /\ DocumentKeepsStamps(n)
<1> DEFINE t == effect[e].tab
           q == [base |-> document.nodes, nodes |-> Ordinary(t, store[t], document.nodes, effect)]
<1>1. t \in Tab
  BY EffectFailsTypes
<1>2. store[t] \in Nodes
  BY <1>1 DEF CanvasTypes
<1>3. \A x \in Effect : effect'[x].state # "idle" => effect'[x] = effect[x]
  BY DEF EffectFails, EffectEnds, CanvasTypes, Idle
<1>4. UNCHANGED <<document, queue>> /\ writer'.sent = <<>>
  BY NobodySends DEF EffectFails, EffectEnds
<1>5. CASE Drained(e)
  <2>1. NoteDocument(t, document)
    BY <1>5 DEF EffectFails
  <2>2. q.base = document.nodes /\ q.nodes = Ordinary(t, store[t], document.nodes, effect)
    OBVIOUS
  <2> HIDE DEF q, t
  <2>3. QED
    BY <1>1, <1>2, <1>3, <1>4, <2>1, <2>2, ReadAddsStamps
<1>6. CASE ~Drained(e)
  <2>1. observed' = observed
    BY <1>6 DEF EffectFails
  <2>2. QED
    BY <1>3, <1>4, <2>1 DEF StampsOnlyAdded, SentKeepsStamps, DocumentKeepsStamps
<1>7. QED
  BY <1>5, <1>6

LEMMA PublishUndrainedAddsStamps ==
    ASSUME CanvasTypes, NEW n \in Node, StampsOnlyAdded(n), NEW e \in Effect, PublishUndrained(e)
    PROVE  StampsOnlyAdded(n)' /\ DocumentKeepsStamps(n)
<1>1. /\ effect[e] \in Attempt /\ effect[e].state # "idle"
      /\ effect' = [effect EXCEPT ![e].state = "applied"]
      /\ QueueSave(effect[e].tab, Published(e), effect')
      /\ UNCHANGED <<document, observed>> /\ writer'.sent = <<>>
  BY AttemptIsTyped, NobodySends DEF PublishUndrained
<1>2. effect[e].tab \in Tab /\ Published(e) \in Nodes
  BY PublishedIsTyped DEF PublishUndrained
<1>3. \A u \in Tab : SaveKeepsStamps(queue'[u], n, observed[u].nodes[n].keys)
  BY <1>1, <1>2, QueuedKeepsStamps
<1>4. \A x \in Effect : effect'[x].state # "idle" =>
        effect[x].state # "idle" /\ effect'[x].before = effect[x].before
        /\ effect'[x].after = effect[x].after
  BY <1>1 DEF CanvasTypes, Attempt
<1>5. QED
  BY <1>1, <1>3, <1>4 DEF StampsOnlyAdded, SentKeepsStamps, DocumentKeepsStamps

LEMMA StampsStep ==
    ASSUME CanvasTypes, NEW n \in Node, StampsOnlyAdded(n), [CanvasNext]_canvasVars,
           document.nodes[n] # Gone, document'.nodes[n] # Gone
    PROVE  StampsOnlyAdded(n)' /\ DocumentKeepsStamps(n)
<1>1. UNCHANGED <<document, observed, queue, effect>> /\ (writer' = writer \/ writer'.sent = <<>>)
        => StampsOnlyAdded(n)' /\ DocumentKeepsStamps(n)
  BY DEF StampsOnlyAdded, SentKeepsStamps, DocumentKeepsStamps
<1>2. ASSUME NEW t \in Tab, NEW m \in Node,
             (\E f \in Field : Edit(t, m, f)) \/ DeleteNode(t, m) \/ RestoreNode(t, m)
      PROVE  StampsOnlyAdded(n)' /\ DocumentKeepsStamps(n)
  BY <1>2, EditsAreSteps, EditAddsStamps
<1>3. ASSUME NEW t \in Tab, SaveQueue(t, Queue) \/ SettleSave(t) \/ SaveFails(t) \/ ReloadTab(t)
      PROVE  StampsOnlyAdded(n)' /\ DocumentKeepsStamps(n)
  <2>1. CASE SaveFails(t)
    BY <1>1, <2>1, NobodySends DEF SaveFails
  <2>2. QED
    BY <1>3, <2>1, SaveQueueAddsStamps, SettleSaveAddsStamps, ReloadAddsStamps
<1>4. ASSUME NEW t \in Tab, NEW e \in Effect, NEW shown \in BOOLEAN, BeginEffect(t, e, shown)
      PROVE  StampsOnlyAdded(n)' /\ DocumentKeepsStamps(n)
  BY <1>4, BeginAddsStamps
<1>5. ASSUME NEW e \in Effect, EffectStep(e) PROVE StampsOnlyAdded(n)' /\ DocumentKeepsStamps(n)
  <2>1. CASE SaveQueue(effect[e].tab, e)
    <3>1. effect[e].tab \in Tab
      BY <2>1, AttemptIsTyped, CanvasAssumption DEF SaveQueue, MayWrite, Queue
    <3>2. QED
      BY <2>1, <3>1, SaveQueueAddsStamps
  <2>2. QED
    BY <1>5, <2>1, CommitAddsStamps, SettleEffectAddsStamps, EffectConflictAddsStamps DEF EffectStep
<1>6. ASSUME NEW e \in Effect, EffectFails(e) \/ PublishUndrained(e)
      PROVE  StampsOnlyAdded(n)' /\ DocumentKeepsStamps(n)
  BY <1>6, EffectFailsAddsStamps, PublishUndrainedAddsStamps
<1>7. CASE UNCHANGED canvasVars
  BY <1>1, <1>7 DEF canvasVars
<1>8. QED
  BY <1>2, <1>3, <1>4, <1>5, <1>6, <1>7 DEF CanvasNext

\* As long as a node stays in the document no save takes the stamp of a
\* committed effect from it, whichever tab saves whichever copy of it: a replay
\* finds the stamp, and does not apply the effect again.
THEOREM StampsStayWithNodes == ASSUME NEW n \in Node PROVE CanvasSpec => StampsStay(n)
<1>1. CanvasInit => CanvasTypes /\ StampsOnlyAdded(n)
  BY CanvasTypesInit, StampsInit
<1>2. CanvasTypes /\ StampsOnlyAdded(n) /\ [CanvasNext]_canvasVars
        /\ document.nodes[n] # Gone /\ (document.nodes[n] # Gone)'
        => StampsOnlyAdded(n)' /\ document.nodes[n].keys \subseteq document'.nodes[n].keys
  BY StampsStep DEF DocumentKeepsStamps
<1>3. QED
  BY <1>1, <1>2, CanvasTypesStep, PTL DEF CanvasSpec, StampsStay

-----------------------------------------------------------------------------
\* What the publication leaves of a tab's store.
KeepsEdits(e, n) ==
    LET t == effect[e].tab
        before == effect[e].before
    IN  /\ before[n] # Gone /\ store[t][n] = Gone => store'[t][n] = Gone
        /\ before[n] # Gone /\ store[t][n] # Gone /\ store'[t][n] # Gone =>
            \A f \in Field : store[t][n].field[f] # before[n].field[f] =>
                store'[t][n].field[f] = store[t][n].field[f]

LEMMA PublishedKeepsEdits ==
    ASSUME CanvasTypes, NEW e \in Effect, PublishEffect(e) \/ PublishUndrained(e), NEW n \in Node
    PROVE  KeepsEdits(e, n)
<1> DEFINE t == effect[e].tab
           b == effect[e].before[n]
           l == document.nodes[n]
           d == store[t][n]
           x == Published(e)[n]
<1>1. t \in Tab /\ store'[t] = Published(e)
  BY PublishedIsTyped DEF PublishEffect, PublishUndrained, QueueSave, CanvasTypes
<1>2. document \in Stored
  BY DEF CanvasTypes
<1>3. x = CASE Deletes(b, l) -> Gone
            [] ~Deletes(b, l) /\ ~Changes(b, l) -> d
            [] Orphans(b, l, d, document.tombstone[n], effect[e].revision) -> Gone
            [] OTHER -> IF d = Gone THEN l ELSE MergeNode(b, l, d)
  BY <1>2 DEF Published, Rebase, Stored
<1>4. b # Gone /\ d = Gone => x = Gone
  BY <1>3 DEF Deletes, Changes, Orphans
<1>5. ASSUME b # Gone, d # Gone, x # Gone, NEW f \in Field, d.field[f] # b.field[f]
      PROVE  x.field[f] = d.field[f]
  <2>1. x = d \/ x = MergeNode(b, l, d)
    BY <1>3, <1>5
  <2>2. MergeNode(b, l, d).field[f] = Merge(b.field[f], l.field[f], d.field[f])
    BY <1>5 DEF MergeNode, BaseOf
  <2>3. QED
    BY <1>5, <2>1, <2>2 DEF Merge
<1>6. QED
  BY <1>1, <1>4, <1>5 DEF KeepsEdits

\* The publication of a committed effect undoes nothing that the user of the tab
\* has edited or deleted since the attempt began.
THEOREM PublishingSparesEdits == CanvasSpec => PublishingKeepsEdits
<1>1. CanvasTypes =>
        [\A e \in Effect : PublishEffect(e) \/ PublishUndrained(e) =>
            \A n \in Node : KeepsEdits(e, n)]_canvasVars
  BY PublishedKeepsEdits
<1>2. QED
  BY <1>1, CanvasTypesInit, CanvasTypesStep, PTL DEF CanvasSpec, PublishingKeepsEdits, KeepsEdits

-----------------------------------------------------------------------------
(* Part 3: a single tab.                                                   *)

\* Nobody deleted a node after the revision the document has.
TombsPast(doc) == \A n \in Node : doc.tombstone[n] <= doc.revision

\* A write keeps it so.
LEMMA RebaseTombs ==
    ASSUME NEW doc \in Stored, NEW base, NEW local, NEW r, TombsPast(doc)
    PROVE  /\ TombsPast(Rebase(doc, base, local, r))
           /\ Rebase(doc, base, local, r).revision = doc.revision + 1
<1> DEFINE R == Rebase(doc, base, local, r)
<1>1. doc.revision \in Nat /\ doc.tombstone \in [Node -> Nat]
  BY DEF Stored
<1>2. R.revision = doc.revision + 1
  BY DEF Rebase
<1>3. \A n \in Node : R.tombstone[n] \in {doc.revision + 1, 0, doc.tombstone[n]}
  BY DEF Rebase
<1>4. \A n \in Node : doc.tombstone[n] <= doc.revision /\ doc.tombstone[n] \in Nat
  BY <1>1 DEF TombsPast
<1> HIDE DEF R
<1>5. QED
  <2>1. ASSUME NEW n \in Node PROVE R.tombstone[n] <= R.revision
    BY <1>1, <1>2, <1>3, <1>4
  <2>2. QED
    BY <1>2, <2>1 DEF TombsPast, R

\* A write based on the very document it finds leaves what is written.
LEMMA OwnBaseIsReplaced ==
    ASSUME NEW doc \in Stored, NEW local \in Nodes, TombsPast(doc)
    PROVE  Rebase(doc, doc.nodes, local, doc.revision).nodes = local
<1> DEFINE R == Rebase(doc, doc.nodes, local, doc.revision).nodes
<1>1. doc.nodes \in [Node -> AnyNode] /\ local \in [Node -> AnyNode]
      /\ doc.revision \in Nat /\ doc.tombstone \in [Node -> Nat]
  BY NodesAreNodes DEF Stored
<1>2. ASSUME NEW n \in Node PROVE R[n] = local[n]
  <2> DEFINE d == doc.nodes[n]
             l == local[n]
             k == doc.tombstone[n]
  <2>1. d \in AnyNode /\ l \in AnyNode /\ ~(k > doc.revision)
    BY <1>1 DEF TombsPast
  <2>2. R[n] = CASE Deletes(d, l) -> Gone
                 [] ~Deletes(d, l) /\ ~Changes(d, l) -> d
                 [] Orphans(d, l, d, k, doc.revision) -> Gone
                 [] OTHER -> IF d = Gone THEN l ELSE MergeNode(d, l, d)
    BY DEF Rebase
  <2>3. ASSUME l # Gone, d # Gone PROVE MergeNode(d, l, d) = l
    <3>1. l.field \in [Field -> Value] /\ l = [field |-> l.field, keys |-> l.keys]
      BY <2>1, <2>3, NodeIsTyped
    <3>2. BaseOf(d) = d
      BY <2>3 DEF BaseOf
    <3>3. \A f \in Field : Merge(d.field[f], l.field[f], d.field[f]) = l.field[f]
      BY DEF Merge
    <3>4. [f \in Field |-> Merge(d.field[f], l.field[f], d.field[f])] = l.field
      BY <3>1, <3>3
    <3>5. MergeKeys(d.keys, l.keys, d.keys) = l.keys
      BY DEF MergeKeys
    <3>6. QED
      BY <3>1, <3>2, <3>4, <3>5 DEF MergeNode
  <2>4. ~Orphans(d, l, d, k, doc.revision)
    BY <2>1 DEF Orphans
  <2> HIDE DEF d, l, k, R
  <2>5. R[n] = l
    BY <2>2, <2>3, <2>4 DEF Deletes, Changes
  <2>6. QED
    BY <2>5 DEF l
<1>3. R = [n \in Node |-> R[n]]
  BY DEF Rebase
<1> HIDE DEF R
<1>4. R = local
  BY <1>1, <1>2, <1>3
<1>5. QED
  BY <1>4 DEF R

\* The attempts of tab t that are under way and whose stamp l shows.
Mine(l, t, attempts) ==
    {e \in l.keys : attempts[e].tab = t /\ attempts[e].state \in UnderWay}

\* What an ordinary save makes of the node l of the tab, where the document is
\* known to have d.
Projects(x, l, d, n, t, attempts) ==
    /\ x \in AnyNode
    /\ x.keys \subseteq d.keys
    /\ l = Gone => x = Gone
    /\ l # Gone /\ d # Gone => x # Gone
    /\ l # Gone /\ l.keys \subseteq d.keys => x.field = l.field /\ x.keys = d.keys
    /\ ~(l.keys \subseteq d.keys) /\ x # Gone =>
        /\ d # Gone
        /\ Mine(l, t, attempts) = {} => x = d
        /\ Mine(l, t, attempts) # {} =>
            \E e \in Mine(l, t, attempts) :
                x.field = RolledBack(attempts[e].before[n], attempts[e].after[n], l, d)

\* An ordinary save projects every node.
LEMMA OrdinaryNode ==
    ASSUME NEW t, NEW nodes \in Nodes, NEW durable \in Nodes, NEW attempts, NEW n \in Node
    PROVE  Projects(Ordinary(t, nodes, durable, attempts)[n], nodes[n], durable[n], n, t, attempts)
<1> DEFINE O == Ordinary(t, nodes, durable, attempts)
           l == nodes[n]
           d == durable[n]
           mine == Mine(l, t, attempts)
           c == CHOOSE x \in mine : TRUE
           g == RolledBack(attempts[c].before[n], attempts[c].after[n], l, d)
           y == [field |-> g, keys |-> d.keys]
           z == [l EXCEPT !.keys = d.keys]
<1>1. O[n] = IF l = Gone \/ l.keys \subseteq d.keys
             THEN IF l = Gone THEN Gone ELSE z
             ELSE IF d = Gone THEN Gone
             ELSE IF mine = {} THEN d
             ELSE y
  BY DEF Ordinary, Mine
<1>2. l \in AnyNode /\ d \in AnyNode /\ O[n] \in AnyNode /\ Gone.keys = {}
  <2>1. O \in [Node -> AnyNode]
    BY OrdinaryIsTyped, NodesAreNodes
  <2>2. QED
    BY <2>1, NodesAreNodes DEF Gone
<1>3. mine # {} => \E e \in mine :
            y.field = RolledBack(attempts[e].before[n], attempts[e].after[n], l, d)
  <2>1. mine # {} => c \in mine
    OBVIOUS
  <2>2. y.field = g
    OBVIOUS
  <2>3. QED
    BY <2>1, <2>2
<1>4. DOMAIN Gone.field = {} /\ DOMAIN y.field = Field /\ y.keys = d.keys
  BY DEF RolledBack, Gone
<1>5. l # Gone => z.field = l.field /\ z.keys = d.keys /\ DOMAIN z.field = Field
  <2>1. l # Gone => l.field \in [Field -> Value] /\ l = [field |-> l.field, keys |-> l.keys]
    BY <1>2, NodeIsTyped
  <2>2. QED
    BY <2>1
<1> HIDE DEF y, z, O, l, d, mine
<1>6. y # Gone /\ (l # Gone => z # Gone)
  BY <1>4, <1>5, CanvasAssumption
<1>7. \/ l = Gone /\ O[n] = Gone
      \/ l # Gone /\ l.keys \subseteq d.keys /\ O[n] = z
      \/ l # Gone /\ ~(l.keys \subseteq d.keys) /\ d = Gone /\ O[n] = Gone
      \/ l # Gone /\ ~(l.keys \subseteq d.keys) /\ d # Gone /\ mine = {} /\ O[n] = d
      \/ l # Gone /\ ~(l.keys \subseteq d.keys) /\ d # Gone /\ mine # {} /\ O[n] = y
  BY <1>1
<1>8. /\ O[n].keys \subseteq d.keys
      /\ l = Gone => O[n] = Gone
      /\ l # Gone /\ d # Gone => O[n] # Gone
      /\ l # Gone /\ l.keys \subseteq d.keys => O[n].field = l.field /\ O[n].keys = d.keys
  BY <1>2, <1>4, <1>5, <1>6, <1>7
<1>9. ~(l.keys \subseteq d.keys) /\ O[n] # Gone =>
        /\ d # Gone
        /\ mine = {} => O[n] = d
        /\ mine # {} => \E e \in mine :
                O[n].field = RolledBack(attempts[e].before[n], attempts[e].after[n], l, d)
  BY <1>2, <1>3, <1>7
<1>10. QED
  BY <1>2, <1>8, <1>9 DEF Projects, O, l, d, mine

\* t is the only tab, and it has something to show.
Sole(t) == t \in Tab /\ (\A u \in Tab : u = t) /\ Node # {}
\* What is queued has not been written.
Unsaved(t) == Queued(t) /\ ~queue[t].sent
\* The states of an effect that has the lock.
LockStates == {"draining", "written", "publishing"}

\* Who works on an effect has the lock.
LockHeld == \A e \in Effect : effect[e].state \in LockStates => writer.job = e

\* Nothing has been written that the tab has not taken note of.
AllNoted == writer.sent = <<>> /\ \A e \in Effect : effect[e].state # "written"

\* Where nothing waits to be settled, the tab knows the document, and what it
\* has queued is based on it.
ReadsCurrent(t) ==
    AllNoted =>
        /\ observed[t].nodes = document.nodes /\ observed[t].revision = document.revision
        /\ Queued(t) => /\ queue[t].base = document.nodes
                        /\ queue[t].revision = document.revision
                        /\ ~queue[t].sent

\* What is being sent is what the document holds.
SendsCurrent(t) ==
    writer.sent # <<>> =>
        /\ writer.sent = document.nodes /\ Queued(t)
        /\ \A e \in Effect : effect[e].state # "written"

\* What a single tab knows of the document.
SoleReads(t) == ReadsCurrent(t) /\ SendsCurrent(t) /\ LockHeld /\ TombsPast(document)

\* No record of a save is the absence of one.
LEMMA RowsAreSaves == ASSUME Node # {} PROVE NoSave \notin SaveRow /\ <<>> \notin Nodes
<1>1. DOMAIN NoSave.nodes = {}
  BY DEF NoSave
<1>2. \A x \in SaveRow : DOMAIN x.nodes = Node
  BY DEF SaveRow, Nodes
<1>3. \A x \in Nodes : DOMAIN x = Node
  BY DEF Nodes
<1>4. DOMAIN <<>> = {}
  OBVIOUS
<1>5. QED
  BY <1>1, <1>2, <1>3, <1>4


\* A save is queued.
LEMMA SaveMoves ==
    ASSUME CanvasTypes, NEW t, Sole(t), NEW nodes \in Nodes, NEW attempts,
           QueueSave(t, nodes, attempts)
    PROVE  /\ store'[t] = nodes
           /\ queue'[t] # NoSave
           /\ queue'[t].base = BaseQueued(t) /\ queue'[t].revision = RevisionQueued(t)
           /\ queue'[t].sent = FALSE
           /\ queue'[t].nodes = Ordinary(t, nodes, observed[t].nodes, attempts)
<1> DEFINE O == Ordinary(t, nodes, observed[t].nodes, attempts)
           q == [base |-> BaseQueued(t), revision |-> RevisionQueued(t), sent |-> FALSE,
                 nodes |-> O]
<1>1. t \in Tab /\ Node # {}
  BY DEF Sole
<1>2. queue' = [queue EXCEPT ![t] = q] /\ store' = [store EXCEPT ![t] = nodes]
  BY DEF QueueSave
<1>3. q.base = BaseQueued(t) /\ q.revision = RevisionQueued(t) /\ q.sent = FALSE /\ q.nodes = O
  OBVIOUS
<1>4. O \in Nodes
  BY <1>1, OrdinaryIsTyped DEF CanvasTypes
<1> HIDE DEF O, q
<1>5. q # NoSave
  <2>1. NoSave.nodes = <<>>
    BY DEF NoSave
  <2>2. QED
    BY <1>1, <1>3, <1>4, <2>1, RowsAreSaves
<1>6. queue'[t] = q /\ store'[t] = nodes
  BY <1>1, <1>2 DEF CanvasTypes
<1>7. QED
  BY <1>3, <1>5, <1>6 DEF O

\* An effect changes its state only.
LEMMA StateMoves ==
    ASSUME CanvasTypes, NEW e \in Effect, effect[e].state # "idle", NEW s,
           effect' = [effect EXCEPT ![e].state = s]
    PROVE  /\ effect'[e].state = s /\ effect'[e].tab = effect[e].tab
           /\ effect'[e].before = effect[e].before /\ effect'[e].after = effect[e].after
           /\ effect'[e].revision = effect[e].revision
           /\ \A f \in Effect : f # e => effect'[f] = effect[f]
<1>1. effect[e] \in Attempt
  BY AttemptIsTyped
<1>2. effect \in [Effect -> Attempt \cup {Idle}]
  BY DEF CanvasTypes
<1>3. effect'[e] = [effect[e] EXCEPT !.state = s] /\ \A f \in Effect : f # e => effect'[f] = effect[f]
  BY <1>2
<1>4. QED
  BY <1>1, <1>3 DEF Attempt

\* The only tab has the attempts.
LEMMA SoleEffect ==
    ASSUME CanvasTypes, NEW t, Sole(t), NEW e \in Effect, effect[e].state # "idle"
    PROVE  effect[e].tab = t
  BY AttemptIsTyped DEF Sole

\* The lock is not the one of an ordinary save while an effect holds it.
LEMMA HeldByOne ==
    ASSUME LockHeld
    PROVE  /\ writer.job = Queue => \A e \in Effect : effect[e].state \notin LockStates
           /\ \A e, f \in Effect : effect[e].state \in LockStates /\ effect[f].state \in LockStates => e = f
           /\ NoWriter.job = Queue /\ NoWriter.sent = <<>>
<1>1. \A e \in Effect : e # Queue
  BY CanvasAssumption DEF Queue
<1>2. QED
  BY <1>1 DEF LockHeld, NoWriter, Queue

\* Sending writes what is queued over the document, since it is based on it.
LEMMA SaveQueueMoves ==
    ASSUME CanvasTypes, NEW t, Sole(t), SoleReads(t), NEW job \in {Queue} \cup Effect,
           SaveQueue(t, job)
    PROVE  /\ AllNoted /\ Unsaved(t)
           /\ document'.nodes = queue[t].nodes /\ TombsPast(document)'
           /\ queue'[t] # NoSave /\ queue'[t].sent = TRUE /\ queue'[t].nodes = queue[t].nodes
           /\ writer'.sent = queue[t].nodes /\ writer'.sent # <<>> /\ writer'.job = writer.job
           /\ UNCHANGED <<store, observed, effect>>
<1>1. t \in Tab /\ Node # {}
  BY DEF Sole
<1>2. queue[t] \in SaveRow /\ writer.sent = <<>>
  BY <1>1 DEF CanvasTypes, SaveQueue, Queued
<1>3. writer.job = job /\ \A e \in Effect : effect[e].state # "written"
  <2>1. CASE job = Queue
    <3>1. writer.job = Queue
      BY <2>1 DEF SaveQueue, MayWrite, NoWriter, Queue
    <3>2. QED
      BY <2>1, <3>1, HeldByOne DEF SoleReads, LockStates
  <2>2. CASE job # Queue
    <3>1. job \in Effect /\ effect[job].state \in {"draining", "publishing"} /\ writer.job = job
      BY <2>2 DEF SaveQueue, MayWrite
    <3>2. QED
      BY <3>1, HeldByOne DEF SoleReads, LockStates
  <2>3. QED
    BY <2>1, <2>2
<1>4. AllNoted
  BY <1>2, <1>3 DEF AllNoted
<1>5. queue[t].base = document.nodes /\ queue[t].revision = document.revision /\ ~queue[t].sent
      /\ Queued(t)
  BY <1>4 DEF SoleReads, ReadsCurrent, SaveQueue
<1>6. document' = Rebase(document, document.nodes, queue[t].nodes, document.revision)
  BY <1>5 DEF SaveQueue
<1>7. document \in Stored /\ queue[t].nodes \in Nodes /\ TombsPast(document)
  BY <1>2 DEF CanvasTypes, SaveRow, SoleReads
<1>8. document'.nodes = queue[t].nodes
  BY <1>6, <1>7, OwnBaseIsReplaced
<1>9. TombsPast(document')
  BY <1>6, <1>7, RebaseTombs
<1>10. queue' = [queue EXCEPT ![t] = [queue[t] EXCEPT !.sent = TRUE]]
  BY DEF SaveQueue, CanvasTypes
<1>11. LET q == [queue[t] EXCEPT !.sent = TRUE] IN
       q \in SaveRow /\ q.sent = TRUE /\ q.nodes = queue[t].nodes
  BY <1>2 DEF SaveRow
<1>12. queue'[t] # NoSave /\ queue'[t].sent = TRUE /\ queue'[t].nodes = queue[t].nodes
  BY <1>1, <1>10, <1>11, RowsAreSaves DEF CanvasTypes
<1>13. writer'.sent = queue[t].nodes /\ writer'.job = job
  BY DEF SaveQueue
<1>14. writer'.sent # <<>>
  BY <1>1, <1>7, <1>13, RowsAreSaves
<1>15. TombsPast(document)'
  BY <1>9 DEF TombsPast
<1>16. QED
  BY <1>3, <1>4, <1>5, <1>8, <1>12, <1>13, <1>14, <1>15 DEF SaveQueue, Unsaved

\* The write has resolved.
LEMMA SettleSaveMoves ==
    ASSUME CanvasTypes, NEW t, Sole(t), SettleSave(t)
    PROVE  /\ writer.sent # <<>> /\ writer'.sent = <<>> /\ writer'.job = writer.job
           /\ observed'[t].nodes = document.nodes /\ observed'[t].revision = document.revision
           /\ queue[t] # NoSave
           /\ queue[t].sent => queue'[t] = NoSave
           /\ ~queue[t].sent => /\ queue'[t] # NoSave /\ queue'[t].nodes = queue[t].nodes
                                /\ queue'[t].base = writer.sent /\ queue'[t].sent = FALSE
                                /\ queue'[t].revision = document.revision
           /\ UNCHANGED <<document, store, effect>>
<1>1. t \in Tab /\ Node # {}
  BY DEF Sole
<1>2. writer.tab = t /\ writer \in WriterRow /\ writer.sent \in Nodes /\ queue[t] \in SaveRow
  BY SenderIsTyped DEF SettleSave
<1>3. queue[t] # NoSave
  BY <1>1, <1>2, RowsAreSaves
<1>4. observed'[t] = [nodes |-> document.nodes, revision |-> document.revision]
  BY <1>1 DEF SettleSave, NoteDocument, CanvasTypes
<1>5. writer'.sent = <<>> /\ writer'.job = writer.job
  BY <1>2 DEF SettleSave, WriterRow, NoWriter, Queue
<1>6. ASSUME queue[t].sent PROVE queue'[t] = NoSave
  BY <1>1, <1>6 DEF SettleSave, CanvasTypes
<1>7. ASSUME ~queue[t].sent
      PROVE  /\ queue'[t] # NoSave /\ queue'[t].nodes = queue[t].nodes
             /\ queue'[t].base = writer.sent /\ queue'[t].sent = FALSE
             /\ queue'[t].revision = document.revision
  <2> DEFINE q == [queue[t] EXCEPT !.base = writer.sent, !.revision = document.revision]
  <2>1. queue' = [queue EXCEPT ![t] = q]
    BY <1>7 DEF SettleSave, CanvasTypes
  <2>2. document.revision \in Nat
    BY DEF CanvasTypes, Stored
  <2>3. q \in SaveRow /\ q.nodes = queue[t].nodes /\ q.base = writer.sent /\ q.sent = FALSE
        /\ q.revision = document.revision
    BY <1>2, <1>7, <2>2 DEF SaveRow
  <2> HIDE DEF q
  <2>4. queue'[t] = q
    BY <1>1, <2>1 DEF CanvasTypes
  <2>5. QED
    BY <1>1, <2>3, <2>4, RowsAreSaves
<1>8. writer.sent # <<>> /\ UNCHANGED <<document, store, effect>>
  BY DEF SettleSave
<1>9. observed'[t].nodes = document.nodes /\ observed'[t].revision = document.revision
  BY <1>4
<1>10. QED
  BY <1>3, <1>5, <1>6, <1>7, <1>8, <1>9, Zenon

\* After a reload, the tab shows the document.
LEMMA ReloadMoves ==
    ASSUME CanvasTypes, NEW t, Sole(t), ReloadTab(t)
    PROVE  /\ store'[t] = document.nodes /\ queue'[t] = NoSave /\ writer' = NoWriter
           /\ observed'[t].nodes = document.nodes /\ observed'[t].revision = document.revision
           /\ \A e \in Effect : effect'[e].state \notin UnderWay
           /\ document' = document
<1>1. t \in Tab /\ \A u \in Tab : u = t
  BY DEF Sole
<1>2. store'[t] = document.nodes /\ queue'[t] = NoSave
      /\ observed'[t] = [nodes |-> document.nodes, revision |-> document.revision]
  BY <1>1 DEF ReloadTab, NoteDocument, CanvasTypes
<1>3. writer' = NoWriter
  <2>1. writer = NoWriter \/ writer.tab = t
    BY <1>1 DEF CanvasTypes, WriterRow
  <2>2. QED
    BY <2>1 DEF ReloadTab
<1>4. ASSUME NEW e \in Effect PROVE effect'[e].state \notin UnderWay
  <2>1. effect'[e] = IF effect[e].tab # t \/ ~Running(e) THEN effect[e]
                     ELSE IF effect[e].state \in {"written", "publishing"}
                          THEN [effect[e] EXCEPT !.state = "applied"] ELSE Idle
    BY DEF ReloadTab
  <2>2. CASE ~Running(e)
    BY <2>1, <2>2 DEF Running
  <2>3. CASE Running(e)
    <3>1. effect[e] \in Attempt /\ effect[e].tab = t
      BY <2>3, AttemptIsTyped, SoleEffect DEF Running, UnderWay
    <3>2. [effect[e] EXCEPT !.state = "applied"].state = "applied"
      BY <3>1 DEF Attempt
    <3>3. QED
      BY <2>1, <2>3, <3>1, <3>2 DEF Idle, UnderWay
  <2>4. QED
    BY <2>2, <2>3
<1>5. QED
  BY <1>2, <1>3, <1>4 DEF ReloadTab

\* An attempt begins, whether the page shows the result already or not.
Begins(t, e) == \E shown \in BOOLEAN : BeginEffect(t, e, shown)

\* The attempt keeps what the store showed.
LEMMA BeginSets ==
    ASSUME CanvasTypes, NEW t, Sole(t), NEW e \in Effect, Begins(t, e)
    PROVE  /\ effect[e].state = "idle"
           /\ effect'[e].state = "waiting" /\ effect'[e].tab = t
           /\ effect'[e].before = store[t] /\ effect'[e].after = Applied(store[t], e)
           /\ \A f \in Effect : f # e => effect'[f] = effect[f]
           /\ store[t][Target[e]] # Gone /\ e \notin store[t][Target[e]].keys
           /\ UNCHANGED <<document, observed, writer>>
<1>1. PICK shown \in BOOLEAN : BeginEffect(t, e, shown)
  BY DEF Begins
<1>2. t \in Tab
  BY DEF Sole
<1>3. effect' = [effect EXCEPT ![e] = NewAttempt(t, e)] /\ effect'[e] = NewAttempt(t, e)
  BY <1>1, <1>2, BeginIsTyped
<1>4. \A f \in Effect : f # e => effect'[f] = effect[f]
  BY <1>3 DEF CanvasTypes
<1>5. /\ effect'[e].state = "waiting" /\ effect'[e].tab = t
      /\ effect'[e].before = store[t] /\ effect'[e].after = Applied(store[t], e)
  BY <1>3 DEF NewAttempt
<1>6. QED
  BY <1>1, <1>4, <1>5 DEF BeginEffect

\* What is queued is projected once more.
LEMMA BeginQueues ==
    ASSUME CanvasTypes, NEW t, Sole(t), NEW e \in Effect, Begins(t, e)
    PROVE  /\ store'[t] = store[t] \/ store'[t] = Applied(store[t], e)
           /\ Queued(t) \/ store'[t] # store[t] => queue'[t] # NoSave
           /\ queue'[t] # NoSave =>
                /\ queue'[t].nodes = Ordinary(t, store'[t], observed[t].nodes, effect')
                /\ queue'[t].base = BaseQueued(t) /\ queue'[t].revision = RevisionQueued(t)
                /\ \/ queue'[t].sent = FALSE
                   \/ queue'[t].sent = queue[t].sent /\ store'[t] = store[t] /\ Queued(t)
<1>1. PICK shown \in BOOLEAN : BeginEffect(t, e, shown)
  BY DEF Begins
<1>2. t \in Tab /\ Node # {}
  BY DEF Sole
<1>3. store[t] \in Nodes /\ Applied(store[t], e) \in Nodes
  BY <1>1, <1>2, BeginIsTyped
<1>4. CASE shown
  <2>1. QueueSave(t, Applied(store[t], e), effect')
    BY <1>1, <1>2, <1>4, BeginIsTyped
  <2>2. /\ store'[t] = Applied(store[t], e) /\ queue'[t] # NoSave
        /\ queue'[t].nodes = Ordinary(t, Applied(store[t], e), observed[t].nodes, effect')
        /\ queue'[t].base = BaseQueued(t) /\ queue'[t].revision = RevisionQueued(t)
        /\ queue'[t].sent = FALSE
    BY <1>3, <2>1, SaveMoves
  <2>3. QED
    BY <2>2
<1>5. CASE ~shown
  <2> DEFINE O == Ordinary(t, store[t], observed[t].nodes, effect')
  <2>1. store' = store
    BY <1>1, <1>2, <1>5, BeginIsTyped
  <2>2. queue' = IF Queued(t) THEN [queue EXCEPT ![t].nodes = O] ELSE queue
    BY <1>1, <1>2, <1>5, BeginIsTyped
  <2>3. O \in Nodes
    BY <1>2, <1>3, OrdinaryIsTyped DEF CanvasTypes
  <2> HIDE DEF O
  <2>4. CASE Queued(t)
    <3> DEFINE q == [queue[t] EXCEPT !.nodes = O]
    <3>1. queue[t] \in SaveRow
      BY <1>2, <2>4 DEF Queued, CanvasTypes
    <3>2. queue' = [queue EXCEPT ![t] = q]
      BY <2>2, <2>4 DEF CanvasTypes
    <3>3. /\ q \in SaveRow /\ q.nodes = O /\ q.base = queue[t].base
          /\ q.revision = queue[t].revision /\ q.sent = queue[t].sent
      BY <2>3, <3>1 DEF SaveRow
    <3> HIDE DEF q
    <3>4. queue'[t] = q /\ q # NoSave
      BY <1>2, <3>2, <3>3, RowsAreSaves DEF CanvasTypes
    <3>5. BaseQueued(t) = queue[t].base /\ RevisionQueued(t) = queue[t].revision
      BY <2>4 DEF BaseQueued, RevisionQueued
    <3>6. QED
      BY <2>1, <2>4, <3>3, <3>4, <3>5 DEF O
  <2>5. CASE ~Queued(t)
    BY <2>1, <2>2, <2>5 DEF Queued
  <2>6. QED
    BY <2>4, <2>5
<1>6. QED
  BY <1>4, <1>5

-----------------------------------------------------------------------------
(* What the steps of an effect do to the tab.                              *)

\* The effect that has the lock is alone with it.
LEMMA HolderIs ==
    ASSUME CanvasTypes, NEW t, Sole(t), LockHeld, NEW e \in Effect, effect[e].state \in LockStates
    PROVE  /\ effect[e].tab = t /\ writer.job = e
           /\ effect[e].before \in Nodes /\ effect[e].after \in Nodes /\ effect[e].revision \in Nat
           /\ \A f \in Effect : f # e => effect[f].state \notin LockStates
<1>1. effect[e].state # "idle"
  BY DEF LockStates
<1>2. QED
  BY <1>1, AttemptIsTyped, SoleEffect, HeldByOne DEF LockHeld

LEMMA LockMoves ==
    ASSUME CanvasTypes, NEW t, Sole(t), NEW e \in Effect, LockStorage(e)
    PROVE  /\ writer = NoWriter /\ writer'.sent = <<>> /\ writer'.job = e
           /\ effect[e].state = "waiting" /\ effect'[e].state = "draining"
           /\ effect[e].tab = t /\ effect'[e].tab = t
           /\ effect'[e].before = effect[e].before /\ effect'[e].after = effect[e].after
           /\ \A f \in Effect : f # e => effect'[f] = effect[f]
           /\ UNCHANGED <<document, store, observed, queue>>
<1>1. effect[e].state = "waiting" /\ writer = NoWriter
      /\ effect' = [effect EXCEPT ![e].state = "draining"]
  BY DEF LockStorage
<1>2. writer'.sent = <<>> /\ writer'.job = e /\ UNCHANGED <<document, store, observed, queue>>
  BY DEF LockStorage
<1>3. QED
  BY <1>1, <1>2, StateMoves, SoleEffect

LEMMA CommitMoves ==
    ASSUME CanvasTypes, NEW t, Sole(t), SoleReads(t), NEW e \in Effect, CommitEffect(e)
    PROVE  /\ AllNoted /\ ~Queued(t)
           /\ effect[e].state = "draining" /\ effect'[e].state = "written"
           /\ effect'[e].tab = t
           /\ effect'[e].before = effect[e].before /\ effect'[e].after = effect[e].after
           /\ \A f \in Effect : f # e => effect'[f] = effect[f]
           /\ EffectConflicts(e) = {}
           /\ document' = Rebase(document, effect[e].before, effect[e].after, effect[e].revision)
           /\ TombsPast(document)'
           /\ UNCHANGED <<store, observed, queue, writer>>
<1>1. /\ effect[e].state = "draining" /\ effect' = [effect EXCEPT ![e].state = "written"]
      /\ EffectConflicts(e) = {} /\ Drained(e)
      /\ document' = Rebase(document, effect[e].before, effect[e].after, effect[e].revision)
      /\ UNCHANGED <<store, observed, queue, writer>>
  BY DEF CommitEffect
<1>2. effect[e].tab = t /\ \A f \in Effect : f # e => effect[f].state \notin LockStates
  BY <1>1, HolderIs DEF LockStates, SoleReads
<1>3. AllNoted /\ ~Queued(t)
  BY <1>1, <1>2 DEF AllNoted, Drained, LockStates
<1>4. TombsPast(document')
  BY <1>1, RebaseTombs DEF SoleReads, CanvasTypes
<1>5. TombsPast(document)'
  BY <1>4 DEF TombsPast
<1>6. QED
  BY <1>1, <1>2, <1>3, <1>5, StateMoves

LEMMA SettleEffectMoves ==
    ASSUME CanvasTypes, NEW t, Sole(t), SoleReads(t), NEW e \in Effect, SettleEffect(e)
    PROVE  /\ effect[e].state = "written" /\ effect'[e].state = "publishing"
           /\ effect'[e].tab = t
           /\ effect'[e].before = effect[e].before /\ effect'[e].after = effect[e].after
           /\ \A f \in Effect : f # e => effect'[f] = effect[f] /\ effect[f].state \notin LockStates
           /\ observed'[t].nodes = document.nodes /\ observed'[t].revision = document.revision
           /\ writer.sent = <<>>
           /\ ~Queued(t) => queue'[t] = NoSave
           /\ Queued(t) =>
                /\ queue'[t] # NoSave
                /\ queue'[t].base = document.nodes /\ queue'[t].revision = document.revision
                /\ queue'[t].sent = FALSE
                /\ queue'[t].nodes = Ordinary(t, store[t], document.nodes, effect)
           /\ UNCHANGED <<document, store, writer>>
<1>1. /\ effect[e].state = "written" /\ effect' = [effect EXCEPT ![e].state = "publishing"]
      /\ UNCHANGED <<document, store, writer>>
  BY DEF SettleEffect
<1>2. /\ effect[e].tab = t /\ \A f \in Effect : f # e => effect[f].state \notin LockStates
      /\ t \in Tab /\ Node # {}
  BY <1>1, HolderIs DEF LockStates, SoleReads, Sole
<1>3. writer.sent = <<>>
  BY <1>1 DEF SoleReads, SendsCurrent
<1>4. observed'[t] = [nodes |-> document.nodes, revision |-> document.revision]
  BY <1>2 DEF SettleEffect, NoteDocument, CanvasTypes
<1> DEFINE O == Ordinary(t, store[t], document.nodes, effect)
           q == [base |-> document.nodes, revision |-> document.revision, nodes |-> O,
                 sent |-> FALSE]
<1>5. queue' = IF Queued(t) THEN [queue EXCEPT ![t] = q] ELSE queue
  BY <1>2 DEF SettleEffect
<1>6. O \in Nodes
  BY <1>2, OrdinaryIsTyped DEF CanvasTypes, Stored
<1> HIDE DEF O
<1>7. q # NoSave
  <2>1. NoSave.nodes = <<>> /\ q.nodes = O
    BY DEF NoSave
  <2> HIDE DEF q
  <2>2. QED
    BY <1>2, <1>6, <2>1, RowsAreSaves
<1>8. q.base = document.nodes /\ q.revision = document.revision /\ q.sent = FALSE /\ q.nodes = O
  OBVIOUS
<1> HIDE DEF q
<1>9. Queued(t) => queue'[t] = q
  BY <1>2, <1>5 DEF CanvasTypes
<1>10. ~Queued(t) => queue'[t] = NoSave
  BY <1>5 DEF Queued
<1>11. /\ effect'[e].state = "publishing" /\ effect'[e].tab = t
       /\ effect'[e].before = effect[e].before /\ effect'[e].after = effect[e].after
       /\ \A f \in Effect : f # e => effect'[f] = effect[f]
  BY <1>1, <1>2, StateMoves
<1>12. QED
  BY <1>1, <1>2, <1>3, <1>4, <1>7, <1>8, <1>9, <1>10, <1>11 DEF O

LEMMA PublishMoves ==
    ASSUME CanvasTypes, NEW t, Sole(t), SoleReads(t), NEW e \in Effect, PublishEffect(e)
    PROVE  /\ AllNoted /\ ~Queued(t)
           /\ effect[e].state = "publishing" /\ effect'[e].state = "applied"
           /\ \A f \in Effect : f # e => effect'[f] = effect[f] /\ effect[f].state \notin LockStates
           /\ store'[t] = Published(e)
           /\ observed'[t].nodes = document.nodes /\ observed'[t].revision = document.revision
           /\ writer' = NoWriter
           /\ UNCHANGED <<document, queue>>
<1>1. /\ effect[e].state = "publishing" /\ effect' = [effect EXCEPT ![e].state = "applied"]
      /\ Drained(e) /\ writer' = NoWriter
      /\ UNCHANGED <<document, queue>>
  BY DEF PublishEffect
<1>2. /\ effect[e].tab = t /\ \A f \in Effect : f # e => effect[f].state \notin LockStates
      /\ t \in Tab
  BY <1>1, HolderIs DEF LockStates, SoleReads, Sole
<1>3. AllNoted /\ ~Queued(t)
  BY <1>1, <1>2 DEF AllNoted, Drained, LockStates
<1>4. observed'[t] = [nodes |-> document.nodes, revision |-> document.revision]
      /\ store'[t] = Published(e)
  BY <1>2 DEF PublishEffect, NoteDocument, CanvasTypes
<1>5. effect'[e].state = "applied" /\ \A f \in Effect : f # e => effect'[f] = effect[f]
  BY <1>1, StateMoves
<1>6. QED
  BY <1>1, <1>2, <1>3, <1>4, <1>5

LEMMA PublishUndrainedMoves ==
    ASSUME CanvasTypes, NEW t, Sole(t), SoleReads(t), NEW e \in Effect, PublishUndrained(e)
    PROVE  /\ AllNoted /\ Unsaved(t)
           /\ effect[e].state = "publishing" /\ effect'[e].state = "applied"
           /\ \A f \in Effect : f # e => effect'[f] = effect[f] /\ effect[f].state \notin LockStates
           /\ store'[t] = Published(e) /\ Published(e) \in Nodes
           /\ queue'[t] # NoSave
           /\ queue'[t].base = BaseQueued(t) /\ queue'[t].revision = RevisionQueued(t)
           /\ queue'[t].sent = FALSE
           /\ queue'[t].nodes = Ordinary(t, Published(e), observed[t].nodes, effect')
           /\ writer' = NoWriter
           /\ UNCHANGED <<document, observed>>
<1>1. /\ effect[e].state = "publishing" /\ effect' = [effect EXCEPT ![e].state = "applied"]
      /\ Queued(effect[e].tab) /\ writer.sent = <<>> /\ writer' = NoWriter
      /\ QueueSave(effect[e].tab, Published(e), effect')
      /\ UNCHANGED <<document, observed>>
  BY DEF PublishUndrained
<1>2. /\ effect[e].tab = t /\ \A f \in Effect : f # e => effect[f].state \notin LockStates
  BY <1>1, HolderIs DEF LockStates, SoleReads
<1>3. AllNoted
  BY <1>1, <1>2 DEF AllNoted, LockStates
<1>4. Unsaved(t)
  BY <1>1, <1>2, <1>3 DEF Unsaved, SoleReads, ReadsCurrent
<1>5. Published(e) \in Nodes
  BY <1>1, PublishedIsTyped
<1>6. effect'[e].state = "applied" /\ \A f \in Effect : f # e => effect'[f] = effect[f]
  BY <1>1, StateMoves
<1>7. /\ store'[t] = Published(e) /\ queue'[t] # NoSave
      /\ queue'[t].base = BaseQueued(t) /\ queue'[t].revision = RevisionQueued(t)
      /\ queue'[t].sent = FALSE
      /\ queue'[t].nodes = Ordinary(t, Published(e), observed[t].nodes, effect')
  BY <1>1, <1>2, <1>5, SaveMoves
<1>8. QED
  BY <1>1, <1>2, <1>3, <1>4, <1>5, <1>6, <1>7

LEMMA ConflictMoves ==
    ASSUME CanvasTypes, NEW t, Sole(t), SoleReads(t), NEW e \in Effect, EffectConflict(e)
    PROVE  /\ AllNoted /\ ~Queued(t)
           /\ effect[e].state = "draining" /\ effect'[e] = Idle /\ effect'[e].state = "idle"
           /\ \A f \in Effect : f # e => effect'[f] = effect[f] /\ effect[f].state \notin LockStates
           /\ store'[t] = Rebase(document, effect[e].after, store[t], document.revision).nodes
           /\ store'[t] \in Nodes
           /\ observed'[t].nodes = document.nodes /\ observed'[t].revision = document.revision
           /\ queue'[t] # NoSave
           /\ queue'[t].base = document.nodes /\ queue'[t].revision = document.revision
           /\ queue'[t].sent = FALSE
           /\ queue'[t].nodes = Ordinary(t, store'[t], document.nodes, effect')
           /\ writer' = NoWriter
           /\ UNCHANGED document
<1> DEFINE O == Ordinary(t, store'[t], document.nodes, effect')
           q == [base |-> document.nodes, revision |-> document.revision, sent |-> FALSE,
                 nodes |-> O]
<1>1. /\ effect[e].state = "draining" /\ Drained(e) /\ UNCHANGED document
      /\ effect' = [effect EXCEPT ![e] = Idle] /\ writer' = NoWriter
  BY DEF EffectConflict, EffectEnds
<1>2. /\ effect[e].tab = t /\ \A f \in Effect : f # e => effect[f].state \notin LockStates
      /\ t \in Tab /\ Node # {}
  BY <1>1, HolderIs DEF LockStates, SoleReads, Sole
<1>3. AllNoted /\ ~Queued(t)
  BY <1>1, <1>2 DEF AllNoted, Drained, LockStates
<1>4. observed'[t] = [nodes |-> document.nodes, revision |-> document.revision]
  BY <1>2 DEF EffectConflict, NoteDocument, CanvasTypes
<1>5. CanvasTypes' /\ store'[t] = Rebase(document, effect[e].after, store[t], document.revision).nodes
  BY <1>2, EffectConflictTypes
<1>6. store'[t] \in Nodes /\ document.nodes \in Nodes
  BY <1>2, <1>5 DEF CanvasTypes, Stored
<1>7. queue' = [queue EXCEPT ![t] = q]
  BY <1>2 DEF EffectConflict
<1>8. O \in Nodes
  BY <1>6, OrdinaryIsTyped
<1> HIDE DEF O
<1>9. q.base = document.nodes /\ q.revision = document.revision /\ q.sent = FALSE /\ q.nodes = O
  OBVIOUS
<1> HIDE DEF q
<1>10. q # NoSave
  <2>1. NoSave.nodes = <<>>
    BY DEF NoSave
  <2>2. QED
    BY <1>2, <1>8, <1>9, <2>1, RowsAreSaves
<1>11. queue'[t] = q
  BY <1>2, <1>7 DEF CanvasTypes
<1>12. effect'[e] = Idle /\ \A f \in Effect : f # e => effect'[f] = effect[f]
  BY <1>1 DEF CanvasTypes
<1>13. Idle.state = "idle"
  BY DEF Idle
<1>14. QED
  BY <1>1, <1>2, <1>3, <1>4, <1>5, <1>6, <1>9, <1>10, <1>11, <1>12, <1>13 DEF O

LEMMA FailsMoves ==
    ASSUME CanvasTypes, NEW t, Sole(t), SoleReads(t), NEW e \in Effect, EffectFails(e)
    PROVE  /\ AllNoted
           /\ effect[e].state = "draining" /\ effect'[e] = Idle /\ effect'[e].state = "idle"
           /\ \A f \in Effect : f # e => effect'[f] = effect[f] /\ effect[f].state \notin LockStates
           /\ observed'[t].nodes = document.nodes /\ observed'[t].revision = document.revision
           /\ Queued(t) => Unsaved(t) /\ store'[t] = store[t]
           /\ ~Queued(t) => store'[t] = Ordinary(t, store[t], document.nodes, effect)
           /\ writer' = NoWriter
           /\ UNCHANGED <<document, queue>>
<1>1. /\ effect[e].state = "draining" /\ writer.sent = <<>> /\ UNCHANGED <<document, queue>>
      /\ effect' = [effect EXCEPT ![e] = Idle] /\ writer' = NoWriter
  BY DEF EffectFails, EffectEnds
<1>2. /\ effect[e].tab = t /\ \A f \in Effect : f # e => effect[f].state \notin LockStates
      /\ t \in Tab
  BY <1>1, HolderIs DEF LockStates, SoleReads, Sole
<1>3. AllNoted
  BY <1>1, <1>2 DEF AllNoted, LockStates
<1>4. observed[t].nodes = document.nodes /\ observed[t].revision = document.revision
      /\ (Queued(t) => ~queue[t].sent)
  BY <1>3 DEF SoleReads, ReadsCurrent
<1>5. ASSUME Queued(t)
      PROVE  /\ observed'[t].nodes = document.nodes /\ observed'[t].revision = document.revision
             /\ Unsaved(t) /\ store'[t] = store[t]
  <2>1. UNCHANGED <<observed, store>>
    BY <1>2, <1>5 DEF EffectFails, Drained
  <2>2. observed'[t].nodes = document.nodes /\ observed'[t].revision = document.revision
        /\ store'[t] = store[t]
    BY <1>4, <2>1
  <2>3. Unsaved(t)
    BY <1>4, <1>5 DEF Unsaved
  <2>4. QED
    BY <1>5, <2>2, <2>3
<1>6. ASSUME ~Queued(t)
      PROVE  /\ observed'[t].nodes = document.nodes /\ observed'[t].revision = document.revision
             /\ store'[t] = Ordinary(t, store[t], document.nodes, effect)
  <2>1. /\ NoteDocument(t, document)
        /\ store' = [store EXCEPT ![t] = Ordinary(t, store[t], document.nodes, effect)]
    BY <1>1, <1>2, <1>6 DEF EffectFails, Drained
  <2> DEFINE O == Ordinary(t, store[t], document.nodes, effect)
  <2>2. store' = [store EXCEPT ![t] = O]
    BY <2>1
  <2> HIDE DEF O
  <2>3. observed'[t] = [nodes |-> document.nodes, revision |-> document.revision] /\ store'[t] = O
    BY <1>2, <2>1, <2>2 DEF NoteDocument, CanvasTypes
  <2>4. observed'[t].nodes = document.nodes /\ observed'[t].revision = document.revision
    BY <2>3
  <2>5. QED
    BY <1>6, <2>3, <2>4 DEF O
<1>7. effect'[e] = Idle /\ \A f \in Effect : f # e => effect'[f] = effect[f]
  BY <1>1 DEF CanvasTypes
<1>8. Idle.state = "idle"
  BY DEF Idle
<1>9. /\ observed'[t].nodes = document.nodes /\ observed'[t].revision = document.revision
      /\ Queued(t) => Unsaved(t) /\ store'[t] = store[t]
      /\ ~Queued(t) => store'[t] = Ordinary(t, store[t], document.nodes, effect)
  BY <1>4, <1>5, <1>6
<1>10. QED
  BY <1>1, <1>2, <1>3, <1>7, <1>8, <1>9

-----------------------------------------------------------------------------
(* A single tab writes on top of what it has read.                         *)

\* A save is sent or has resolved.
SavingStep(t)  == (\E job \in {Queue} \cup Effect : SaveQueue(t, job)) \/ SettleSave(t)
\* An effect takes a step other than to save what is queued.
EffectMove(t, e) ==
    \/ Begins(t, e) \/ LockStorage(e) \/ CommitEffect(e) \/ SettleEffect(e)
    \/ PublishEffect(e) \/ PublishUndrained(e) \/ EffectConflict(e) \/ EffectFails(e)

\* No node comes back.
NoneRestored(t) == \A n \in Node : store[t][n] = Gone => store'[t][n] = Gone

\* The steps there are, with a single tab.
LEMMA SoleSteps ==
    ASSUME CanvasTypes, NEW t, Sole(t), [CanvasNext]_canvasVars
    PROVE  \/ EditStep(t) /\ (UsersRestore \/ NoneRestored(t))
           \/ SavingStep(t) \/ SaveFails(t) \/ ReloadTab(t)
           \/ \E e \in Effect : EffectMove(t, e)
           \/ UNCHANGED canvasVars
<1>1. t \in Tab /\ \A u \in Tab : u = t
  BY DEF Sole
<1>2. ASSUME NEW n \in Node, (\E f \in Field : Edit(t, n, f)) \/ DeleteNode(t, n) \/ RestoreNode(t, n)
      PROVE  EditStep(t) /\ (UsersRestore \/ NoneRestored(t))
  <2>1. store[t] \in [Node -> AnyNode] /\ store \in [Tab -> Nodes]
    BY <1>1, NodesAreNodes DEF CanvasTypes
  <2>2. ASSUME NEW f \in Field, Edit(t, n, f) PROVE NoneRestored(t)
    <3>1. store' = [store EXCEPT ![t] = [store[t] EXCEPT ![n].field[f] = edits + 1]]
          /\ store[t][n] # Gone
      BY <2>2 DEF Edit, QueueSave
    <3> DEFINE s == [store[t] EXCEPT ![n].field[f] = edits + 1]
    <3>2. \A m \in Node \ {n} : s[m] = store[t][m]
      BY <2>1
    <3>3. store' = [store EXCEPT ![t] = s]
      BY <3>1
    <3> HIDE DEF s
    <3>4. store'[t] = s
      BY <1>1, <2>1, <3>3
    <3>5. QED
      BY <3>1, <3>2, <3>4 DEF NoneRestored
  <2>3. ASSUME DeleteNode(t, n) PROVE NoneRestored(t)
    <3> DEFINE s == [store[t] EXCEPT ![n] = Gone]
    <3>1. store' = [store EXCEPT ![t] = s]
      BY <2>3 DEF DeleteNode, QueueSave
    <3>2. \A m \in Node : s[m] = store[t][m] \/ s[m] = Gone
      BY <2>1
    <3> HIDE DEF s
    <3>3. store'[t] = s
      BY <1>1, <2>1, <3>1
    <3>4. QED
      BY <3>2, <3>3 DEF NoneRestored
  <2>4. RestoreNode(t, n) => UsersRestore
    BY DEF RestoreNode
  <2>5. QED
    BY <1>1, <1>2, <2>2, <2>3, <2>4, EditsAreSteps
<1>3. ASSUME NEW e \in Effect, SaveQueue(effect[e].tab, e) PROVE SavingStep(t)
  <2>1. effect[e].tab = t
    BY <1>3, SoleEffect, CanvasAssumption DEF SaveQueue, MayWrite, Queue
  <2>2. QED
    BY <1>3, <2>1 DEF SavingStep
<1>4. ASSUME NEW e \in Effect, EffectStep(e) PROVE SavingStep(t) \/ EffectMove(t, e)
  BY <1>3, <1>4 DEF EffectStep, EffectMove
<1>5. CASE \E u \in Tab, n \in Node :
               (\E f \in Field : Edit(u, n, f)) \/ DeleteNode(u, n) \/ RestoreNode(u, n)
  BY <1>1, <1>2, <1>5
<1>6. CASE \E u \in Tab : SaveQueue(u, Queue) \/ SettleSave(u) \/ SaveFails(u) \/ ReloadTab(u)
  BY <1>1, <1>6 DEF SavingStep
<1>7. CASE \E u \in Tab, e \in Effect, shown \in BOOLEAN : BeginEffect(u, e, shown)
  BY <1>1, <1>7 DEF EffectMove, Begins
<1>8. CASE \E e \in Effect : EffectStep(e) \/ EffectFails(e) \/ PublishUndrained(e)
  BY <1>4, <1>8 DEF EffectMove
<1>9. QED
  BY <1>5, <1>6, <1>7, <1>8 DEF CanvasNext

\* It knows the document it starts with.
LEMMA SoleInit == ASSUME CanvasInit, NEW t, Sole(t) PROVE SoleReads(t)
<1> DEFINE N == [n \in Node |-> [field |-> [f \in Field |-> 0], keys |-> {}]]
<1>1. document = [nodes |-> N, revision |-> 1, tombstone |-> [n \in Node |-> 0]]
      /\ observed = [u \in Tab |-> [nodes |-> N, revision |-> 1]]
      /\ queue = [u \in Tab |-> NoSave] /\ writer = NoWriter /\ effect = [e \in Effect |-> Idle]
  BY DEF CanvasInit
<1> HIDE DEF N
<1>2. t \in Tab
  BY DEF Sole
<1>3. ReadsCurrent(t)
  BY <1>1, <1>2 DEF ReadsCurrent, Queued
<1>4. SendsCurrent(t)
  BY <1>1 DEF SendsCurrent, NoWriter
<1>5. LockHeld /\ TombsPast(document)
  BY <1>1 DEF LockHeld, TombsPast, Idle, LockStates
<1>6. QED
  BY <1>3, <1>4, <1>5 DEF SoleReads

\* A step that writes nothing keeps what is queued based on the document.
LEMMA ReadsStay ==
    ASSUME NEW t, SoleReads(t), UNCHANGED <<document, observed>>, writer'.sent = writer.sent,
           \A e \in Effect : effect'[e].state = "written" <=> effect[e].state = "written",
           Queued(t) => queue'[t] # NoSave,
           queue'[t] # NoSave =>
                /\ queue'[t].base = BaseQueued(t) /\ queue'[t].revision = RevisionQueued(t)
                /\ queue'[t].sent \in {FALSE, queue[t].sent},
           LockHeld'
    PROVE  SoleReads(t)'
<1>1. SendsCurrent(t)'
  BY DEF SoleReads, SendsCurrent, Queued
<1>2. ReadsCurrent(t)'
  <2> SUFFICES ASSUME AllNoted'
               PROVE  /\ observed[t].nodes = document.nodes /\ observed[t].revision = document.revision
                      /\ queue'[t] # NoSave =>
                            /\ queue'[t].base = document.nodes
                            /\ queue'[t].revision = document.revision
                            /\ ~queue'[t].sent
    BY DEF ReadsCurrent, Queued
  <2>1. AllNoted
    BY DEF AllNoted
  <2>2. /\ observed[t].nodes = document.nodes /\ observed[t].revision = document.revision
        /\ Queued(t) => /\ queue[t].base = document.nodes
                        /\ queue[t].revision = document.revision
                        /\ ~queue[t].sent
    BY <2>1 DEF SoleReads, ReadsCurrent
  <2>3. ~Queued(t) => queue[t].sent = FALSE
    BY DEF Queued, NoSave
  <2>4. BaseQueued(t) = document.nodes /\ RevisionQueued(t) = document.revision
    BY <2>2 DEF BaseQueued, RevisionQueued
  <2>5. queue'[t] # NoSave => ~queue'[t].sent
    <3>1. CASE Queued(t)
      BY <2>2, <3>1
    <3>2. CASE ~Queued(t)
      BY <2>3, <3>2
    <3>3. QED
      BY <3>1, <3>2
  <2>6. QED
    BY <2>2, <2>4, <2>5
<1>3. TombsPast(document)'
  BY DEF SoleReads, TombsPast
<1>4. QED
  BY <1>1, <1>2, <1>3 DEF SoleReads

\* Edits are queued on the document that the tab knows.
LEMMA EditKeepsReads ==
    ASSUME CanvasTypes, NEW t, Sole(t), SoleReads(t), EditStep(t) PROVE SoleReads(t)'
<1>1. PICK nodes : EditsTo(t, nodes) /\ QueueSave(t, nodes, effect)
  BY DEF EditStep
<1>2. nodes \in Nodes
  BY <1>1, EditedIsTyped DEF Sole
<1>3. /\ queue'[t] # NoSave
      /\ queue'[t].base = BaseQueued(t) /\ queue'[t].revision = RevisionQueued(t)
      /\ queue'[t].sent = FALSE
  BY <1>1, <1>2, SaveMoves
<1>4. UNCHANGED <<document, observed, writer, effect>>
  BY DEF EditStep
<1>5. LockHeld'
  BY <1>4 DEF LockHeld, SoleReads
<1>6. QED
  BY <1>3, <1>4, <1>5, ReadsStay

\* What was sent is the base of what is queued next.
LEMMA SavingKeepsReads ==
    ASSUME CanvasTypes, NEW t, Sole(t), SoleReads(t), SavingStep(t) PROVE SoleReads(t)'
<1>1. ASSUME NEW job \in {Queue} \cup Effect, SaveQueue(t, job) PROVE SoleReads(t)'
  <2>1. /\ AllNoted
        /\ document'.nodes = queue[t].nodes /\ TombsPast(document)' /\ queue'[t] # NoSave
        /\ writer'.sent = queue[t].nodes /\ writer'.sent # <<>> /\ writer'.job = writer.job
        /\ UNCHANGED <<store, observed, effect>>
    BY <1>1, SaveQueueMoves
  <2>2. ReadsCurrent(t)'
    BY <2>1 DEF ReadsCurrent, AllNoted
  <2>3. SendsCurrent(t)'
    BY <2>1 DEF SendsCurrent, AllNoted, Queued
  <2>4. LockHeld'
    BY <2>1 DEF SoleReads, LockHeld
  <2>5. QED
    BY <2>1, <2>2, <2>3, <2>4 DEF SoleReads
<1>2. ASSUME SettleSave(t) PROVE SoleReads(t)'
  <2>1. /\ writer.sent # <<>> /\ writer'.sent = <<>> /\ writer'.job = writer.job
        /\ observed'[t].nodes = document.nodes /\ observed'[t].revision = document.revision
        /\ UNCHANGED <<document, store, effect>>
    BY <1>2, SettleSaveMoves
  <2>2. /\ queue[t].sent => queue'[t] = NoSave
        /\ ~queue[t].sent => /\ queue'[t].base = writer.sent /\ queue'[t].sent = FALSE
                             /\ queue'[t].revision = document.revision
    BY <1>2, SettleSaveMoves, Zenon
  <2>3. writer.sent = document.nodes
    BY <2>1 DEF SoleReads, SendsCurrent
  <2>4. queue'[t] # NoSave => /\ queue'[t].base = document.nodes
                              /\ queue'[t].revision = document.revision
                              /\ queue'[t].sent = FALSE
    BY <2>2, <2>3
  <2>5. ReadsCurrent(t)'
    BY <2>1, <2>4 DEF ReadsCurrent, Queued
  <2>6. SendsCurrent(t)' /\ LockHeld' /\ TombsPast(document)'
    BY <2>1 DEF SendsCurrent, SoleReads, LockHeld, TombsPast
  <2>7. QED
    BY <2>5, <2>6 DEF SoleReads
<1>3. QED
  BY <1>1, <1>2 DEF SavingStep

\* A failed save keeps its base, a reload drops the queue.
LEMMA FailAndReloadKeepReads ==
    ASSUME CanvasTypes, NEW t, Sole(t), SoleReads(t), SaveFails(t) \/ ReloadTab(t)
    PROVE  SoleReads(t)'
<1>1. NoWriter.sent = <<>> /\ NoWriter.job = Queue
  BY DEF NoWriter, Queue
<1>2. CASE SaveFails(t)
  <2>1. /\ writer.job = Queue /\ writer.sent = <<>> /\ writer' = NoWriter
        /\ UNCHANGED <<document, observed, queue, effect>> /\ Queued(t)
    BY <1>1, <1>2 DEF SaveFails, MayWrite
  <2>2. LockHeld'
    BY <1>1, <2>1 DEF SoleReads, LockHeld
  <2>3. BaseQueued(t) = queue[t].base /\ RevisionQueued(t) = queue[t].revision
    BY <2>1 DEF BaseQueued, RevisionQueued
  <2>4. QED
    BY <1>1, <2>1, <2>2, <2>3, ReadsStay DEF Queued
<1>3. CASE ReloadTab(t)
  <2>1. /\ queue'[t] = NoSave /\ writer' = NoWriter
        /\ observed'[t].nodes = document.nodes /\ observed'[t].revision = document.revision
        /\ \A e \in Effect : effect'[e].state \notin UnderWay
        /\ document' = document
    BY <1>3, ReloadMoves
  <2>2. LockHeld'
    BY <2>1 DEF LockHeld, LockStates, UnderWay
  <2>3. ReadsCurrent(t)' /\ SendsCurrent(t)' /\ TombsPast(document)'
    BY <1>1, <2>1 DEF ReadsCurrent, SendsCurrent, TombsPast, SoleReads, Queued
  <2>4. QED
    BY <2>2, <2>3 DEF SoleReads
<1>4. QED
  BY <1>2, <1>3

\* What is queued while an effect is written is based on what it wrote.
LEMMA EffectKeepsReads ==
    ASSUME CanvasTypes, NEW t, Sole(t), SoleReads(t), NEW e \in Effect, EffectMove(t, e)
    PROVE  SoleReads(t)'
<1>1. NoWriter.sent = <<>> /\ NoWriter.job = Queue
  BY DEF NoWriter, Queue
<1>2. LockHeld /\ e # Queue
  BY CanvasAssumption DEF SoleReads, Queue
<1>3. ASSUME Begins(t, e) PROVE SoleReads(t)'
  <2>1. /\ effect[e].state = "idle" /\ effect'[e].state = "waiting"
        /\ \A f \in Effect : f # e => effect'[f] = effect[f]
        /\ UNCHANGED <<document, observed, writer>>
    BY <1>3, BeginSets
  <2>2. /\ Queued(t) => queue'[t] # NoSave
        /\ queue'[t] # NoSave =>
                /\ queue'[t].base = BaseQueued(t) /\ queue'[t].revision = RevisionQueued(t)
                /\ queue'[t].sent \in {FALSE, queue[t].sent}
    BY <1>3, BeginQueues
  <2>3. LockHeld'
    BY <1>2, <2>1 DEF LockHeld, LockStates
  <2>4. QED
    BY <2>1, <2>2, <2>3, ReadsStay
<1>4. ASSUME LockStorage(e) PROVE SoleReads(t)'
  <2>1. /\ writer = NoWriter /\ writer'.sent = <<>> /\ writer'.job = e
        /\ effect[e].state = "waiting" /\ effect'[e].state = "draining"
        /\ \A f \in Effect : f # e => effect'[f] = effect[f]
        /\ UNCHANGED <<document, store, observed, queue>>
    BY <1>4, LockMoves
  <2>2. \A f \in Effect : effect[f].state \notin LockStates
    BY <1>1, <1>2, <2>1, HeldByOne
  <2>3. LockHeld'
    BY <2>1, <2>2 DEF LockHeld
  <2>4. ReadsCurrent(t)'
    BY <1>1, <2>1, <2>2 DEF ReadsCurrent, SoleReads, AllNoted, Queued, LockStates
  <2>5. SendsCurrent(t)' /\ TombsPast(document)'
    BY <2>1 DEF SendsCurrent, TombsPast, SoleReads
  <2>6. QED
    BY <2>3, <2>4, <2>5 DEF SoleReads
<1>5. ASSUME CommitEffect(e) PROVE SoleReads(t)'
  <2>1. /\ AllNoted /\ effect[e].state = "draining" /\ effect'[e].state = "written"
        /\ \A f \in Effect : f # e => effect'[f] = effect[f]
        /\ TombsPast(document)' /\ writer' = writer
    BY <1>5, CommitMoves
  <2>2. ReadsCurrent(t)' /\ SendsCurrent(t)'
    BY <2>1 DEF ReadsCurrent, SendsCurrent, AllNoted
  <2>3. LockHeld'
    BY <1>2, <2>1 DEF LockHeld, LockStates
  <2>4. QED
    BY <2>1, <2>2, <2>3 DEF SoleReads
<1>6. ASSUME SettleEffect(e) PROVE SoleReads(t)'
  <2>1. /\ effect[e].state = "written" /\ effect'[e].state = "publishing"
        /\ \A f \in Effect : f # e => effect'[f] = effect[f]
        /\ observed'[t].nodes = document.nodes /\ observed'[t].revision = document.revision
        /\ writer.sent = <<>> /\ UNCHANGED <<document, store, writer>>
    BY <1>6, SettleEffectMoves
  <2>2. /\ ~Queued(t) => queue'[t] = NoSave
        /\ Queued(t) =>
                /\ queue'[t].base = document.nodes /\ queue'[t].revision = document.revision
                /\ queue'[t].sent = FALSE
    BY <1>6, SettleEffectMoves
  <2>3. ReadsCurrent(t)'
    BY <2>1, <2>2 DEF ReadsCurrent, Queued
  <2>4. SendsCurrent(t)' /\ TombsPast(document)'
    BY <2>1 DEF SendsCurrent, TombsPast, SoleReads
  <2>5. LockHeld'
    BY <1>2, <2>1 DEF LockHeld, LockStates
  <2>6. QED
    BY <2>3, <2>4, <2>5 DEF SoleReads
<1>7. ASSUME PublishEffect(e) PROVE SoleReads(t)'
  <2>1. /\ ~Queued(t) /\ effect'[e].state = "applied"
        /\ \A f \in Effect : f # e => effect'[f] = effect[f] /\ effect[f].state \notin LockStates
        /\ observed'[t].nodes = document.nodes /\ observed'[t].revision = document.revision
        /\ writer' = NoWriter /\ UNCHANGED <<document, queue>>
    BY <1>7, PublishMoves
  <2>2. ReadsCurrent(t)' /\ SendsCurrent(t)' /\ TombsPast(document)'
    BY <1>1, <2>1 DEF ReadsCurrent, SendsCurrent, TombsPast, SoleReads, Queued
  <2>3. LockHeld'
    BY <2>1 DEF LockHeld, LockStates
  <2>4. QED
    BY <2>2, <2>3 DEF SoleReads
<1>8. ASSUME PublishUndrained(e) PROVE SoleReads(t)'
  <2>1. /\ AllNoted /\ effect[e].state = "publishing" /\ effect'[e].state = "applied"
        /\ \A f \in Effect : f # e => effect'[f] = effect[f] /\ effect[f].state \notin LockStates
        /\ writer' = NoWriter /\ UNCHANGED <<document, observed>>
    BY <1>8, PublishUndrainedMoves
  <2>2. /\ queue'[t] # NoSave
        /\ queue'[t].base = BaseQueued(t) /\ queue'[t].revision = RevisionQueued(t)
        /\ queue'[t].sent = FALSE
    BY <1>8, PublishUndrainedMoves
  <2>3. LockHeld'
    BY <2>1 DEF LockHeld, LockStates
  <2>4. QED
    BY <1>1, <2>1, <2>2, <2>3, ReadsStay DEF AllNoted
<1>9. ASSUME EffectConflict(e) PROVE SoleReads(t)'
  <2>1. /\ effect'[e].state = "idle"
        /\ \A f \in Effect : f # e => effect'[f] = effect[f] /\ effect[f].state \notin LockStates
        /\ observed'[t].nodes = document.nodes /\ observed'[t].revision = document.revision
        /\ queue'[t].base = document.nodes /\ queue'[t].revision = document.revision
        /\ queue'[t].sent = FALSE /\ writer' = NoWriter /\ UNCHANGED document
    BY <1>9, ConflictMoves
  <2>2. ReadsCurrent(t)' /\ SendsCurrent(t)' /\ TombsPast(document)'
    BY <1>1, <2>1 DEF ReadsCurrent, SendsCurrent, TombsPast, SoleReads, Queued
  <2>3. LockHeld'
    BY <2>1 DEF LockHeld, LockStates
  <2>4. QED
    BY <2>2, <2>3 DEF SoleReads
<1>10. ASSUME EffectFails(e) PROVE SoleReads(t)'
  <2>1. /\ AllNoted /\ effect'[e].state = "idle"
        /\ \A f \in Effect : f # e => effect'[f] = effect[f] /\ effect[f].state \notin LockStates
        /\ observed'[t].nodes = document.nodes /\ observed'[t].revision = document.revision
        /\ writer' = NoWriter /\ UNCHANGED <<document, queue>>
    BY <1>10, FailsMoves
  <2>2. Queued(t) => queue[t].base = document.nodes /\ queue[t].revision = document.revision
                     /\ ~queue[t].sent
    BY <2>1 DEF SoleReads, ReadsCurrent
  <2>3. ReadsCurrent(t)' /\ SendsCurrent(t)' /\ TombsPast(document)'
    BY <1>1, <2>1, <2>2 DEF ReadsCurrent, SendsCurrent, TombsPast, SoleReads, Queued
  <2>4. LockHeld'
    BY <2>1 DEF LockHeld, LockStates
  <2>5. QED
    BY <2>3, <2>4 DEF SoleReads
<1>11. QED
  BY <1>3, <1>4, <1>5, <1>6, <1>7, <1>8, <1>9, <1>10 DEF EffectMove

\* A single tab never writes over what it does not know.
LEMMA SoleReadsStep ==
    ASSUME CanvasTypes, NEW t, Sole(t), SoleReads(t), [CanvasNext]_canvasVars
    PROVE  SoleReads(t)'
<1>1. UNCHANGED canvasVars => SoleReads(t)'
  BY DEF canvasVars, SoleReads, ReadsCurrent, SendsCurrent, LockHeld, TombsPast, AllNoted, Queued
<1>2. QED
  BY <1>1, SoleSteps, EditKeepsReads, SavingKeepsReads, FailAndReloadKeepReads, EffectKeepsReads

-----------------------------------------------------------------------------
(* A deleted node stays deleted.                                           *)

\* An attempt that is under way knows a node it may write to.
Attempted(e) ==
    Running(e) => /\ effect[e].before[Target[e]] # Gone
                  /\ e \notin effect[e].before[Target[e]].keys
                  /\ effect[e].after = Applied(effect[e].before, e)

\* What the tab shows is in the document and known to be, and a queued save
\* carries what the tab shows, and no other node.
NoneMissing(t) ==
    \A n \in Node :
        /\ store[t][n] # Gone => document.nodes[n] # Gone /\ observed[t].nodes[n] # Gone
        /\ Queued(t) => (queue[t].nodes[n] = Gone <=> store[t][n] = Gone)

NoneMissingInv(t) == NoneMissing(t) /\ \A e \in Effect : Attempted(e)

\* A commit changes its target only.
LEMMA CommittedNodes ==
    ASSUME NEW doc \in Stored, NEW before \in Nodes, NEW e \in Effect, NEW r,
           before[Target[e]] # Gone
    PROVE  LET R == Rebase(doc, before, Applied(before, e), r).nodes
               b == before[Target[e]]
               l == Applied(before, e)[Target[e]]
               d == doc.nodes[Target[e]]
           IN  /\ \A n \in Node \ {Target[e]} : R[n] = doc.nodes[n]
               /\ R[Target[e]] = IF l = b THEN d ELSE IF d = Gone THEN Gone ELSE MergeNode(b, l, d)
<1> DEFINE R == Rebase(doc, before, Applied(before, e), r).nodes
           after == Applied(before, e)
<1>1. /\ after[Target[e]] # Gone
      /\ \A n \in Node \ {Target[e]} : after[n] = before[n]
  BY AppliedIsTyped
<1>2. Target[e] \in Node
  BY CanvasAssumption
<1> HIDE DEF after
<1>3. \A n \in Node :
        R[n] = CASE Deletes(before[n], after[n]) -> Gone
                 [] ~Deletes(before[n], after[n]) /\ ~Changes(before[n], after[n]) -> doc.nodes[n]
                 [] Orphans(before[n], after[n], doc.nodes[n], doc.tombstone[n], r) -> Gone
                 [] OTHER -> IF doc.nodes[n] = Gone THEN after[n]
                             ELSE MergeNode(before[n], after[n], doc.nodes[n])
  BY DEF Rebase, after
<1> HIDE DEF R
<1>4. ASSUME NEW n \in Node \ {Target[e]} PROVE R[n] = doc.nodes[n]
  <2>1. after[n] = before[n]
    BY <1>1
  <2>2. ~Deletes(before[n], after[n]) /\ ~Changes(before[n], after[n])
    BY <2>1 DEF Deletes, Changes
  <2> HIDE DEF R
  <2> DEFINE b == before[n]  l == after[n]  d == doc.nodes[n]  k == doc.tombstone[n]
             o == IF d = Gone THEN l ELSE MergeNode(b, l, d)
  <2>3. R[n] = CASE Deletes(b, l) -> Gone
                 [] ~Deletes(b, l) /\ ~Changes(b, l) -> d
                 [] Orphans(b, l, d, k, r) -> Gone
                 [] OTHER -> o
    BY <1>3
  <2>4. ~Deletes(b, l) /\ ~Changes(b, l)
    BY <2>2
  <2> HIDE DEF b, l, d, k, o
  <2>5. R[n] = d
    BY <2>3, <2>4 DEF Deletes, Changes, Orphans
  <2>6. QED
    BY <2>5 DEF d
<1>5. LET b == before[Target[e]]
          l == after[Target[e]]
          d == doc.nodes[Target[e]]
      IN  R[Target[e]] = IF l = b THEN d ELSE IF d = Gone THEN Gone ELSE MergeNode(b, l, d)
  BY <1>1, <1>2, <1>3 DEF Deletes, Changes, Orphans
<1>6. QED
  BY <1>4, <1>5 DEF R, after

\* A commit adds no node and deletes none.
LEMMA CommitKeepsNodes ==
    ASSUME NEW doc \in Stored, NEW before \in Nodes, NEW e \in Effect, NEW r,
           before[Target[e]] # Gone
    PROVE  \A n \in Node :
            Rebase(doc, before, Applied(before, e), r).nodes[n] = Gone <=> doc.nodes[n] = Gone
<1> DEFINE R == Rebase(doc, before, Applied(before, e), r).nodes
           after == Applied(before, e)
           T == Target[e]
<1>1. /\ \A n \in Node \ {T} : R[n] = doc.nodes[n]
      /\ R[T] = IF after[T] = before[T] THEN doc.nodes[T]
                ELSE IF doc.nodes[T] = Gone THEN Gone
                ELSE MergeNode(before[T], after[T], doc.nodes[T])
  BY CommittedNodes
<1>2. T \in Node /\ after \in Nodes /\ after[T] # Gone
  BY AppliedIsTyped, CanvasAssumption
<1>3. before[T] \in AnyNode /\ after[T] \in AnyNode /\ doc.nodes[T] \in AnyNode
  BY <1>2, NodesAreNodes DEF Stored
<1> HIDE DEF R, after, T
<1>4. doc.nodes[T] # Gone => MergeNode(before[T], after[T], doc.nodes[T]) # Gone
  BY <1>2, <1>3, MergedIsTyped
<1>5. \A n \in Node : R[n] = Gone <=> doc.nodes[n] = Gone
  BY <1>1, <1>4
<1>6. QED
  BY <1>5 DEF R

\* Nor does an ordinary save, if the document has what the tab shows.
LEMMA OrdinaryPresent ==
    ASSUME NEW t, NEW nodes \in Nodes, NEW durable \in Nodes, NEW attempts,
           \A n \in Node : nodes[n] # Gone => durable[n] # Gone
    PROVE  \A n \in Node : Ordinary(t, nodes, durable, attempts)[n] = Gone <=> nodes[n] = Gone
<1>1. \A n \in Node :
        Projects(Ordinary(t, nodes, durable, attempts)[n], nodes[n], durable[n], n, t, attempts)
  BY OrdinaryNode
<1>2. QED
  BY <1>1 DEF Projects

\* A merge brings back nothing that both sides lack.
LEMMA RebasedPresent ==
    ASSUME NEW doc \in Stored, NEW base \in Nodes, NEW local \in Nodes, NEW r \in Nat
    PROVE  \A n \in Node : Rebase(doc, base, local, r).nodes[n] # Gone =>
                                local[n] # Gone \/ doc.nodes[n] # Gone
  BY RebasedIsTyped

\* An attempt keeps what it knows until it ends.
LEMMA AttemptedStays ==
    ASSUME CanvasTypes, NEW e \in Effect, Attempted(e),
           \/ effect'[e] = effect[e]
           \/ effect'[e].state \notin UnderWay
           \/ /\ Running(e)
              /\ effect'[e].before = effect[e].before /\ effect'[e].after = effect[e].after
    PROVE  Attempted(e)'
  BY DEF Attempted, Running

\* So every step keeps the attempts.
LEMMA AttemptsStay ==
    ASSUME CanvasTypes, NEW t, Sole(t), SoleReads(t), \A e \in Effect : Attempted(e),
           [CanvasNext]_canvasVars
    PROVE  \A e \in Effect : Attempted(e)'
<1> SUFFICES ASSUME NEW e \in Effect PROVE Attempted(e)'
  OBVIOUS
<1>1. CASE effect' = effect
  BY <1>1, AttemptedStays
<1>2. ASSUME NEW f \in Effect, EffectMove(t, f) PROVE Attempted(e)'
  <2>1. CASE Begins(t, f)
    <3>1. /\ effect'[f].before = store[t] /\ effect'[f].after = Applied(store[t], f)
          /\ store[t][Target[f]] # Gone /\ f \notin store[t][Target[f]].keys
          /\ \A g \in Effect : g # f => effect'[g] = effect[g]
      BY <2>1, BeginSets
    <3>2. e = f => Attempted(e)'
      BY <3>1 DEF Attempted
    <3>3. QED
      BY <3>1, <3>2, AttemptedStays
  <2>2. CASE LockStorage(f) \/ CommitEffect(f) \/ SettleEffect(f)
    <3>1. ASSUME LockStorage(f)
          PROVE  /\ effect[f].state \in UnderWay
                 /\ effect'[f].before = effect[f].before /\ effect'[f].after = effect[f].after
                 /\ \A g \in Effect : g # f => effect'[g] = effect[g]
      BY <3>1, LockMoves DEF UnderWay
    <3>2. ASSUME CommitEffect(f)
          PROVE  /\ effect[f].state \in UnderWay
                 /\ effect'[f].before = effect[f].before /\ effect'[f].after = effect[f].after
                 /\ \A g \in Effect : g # f => effect'[g] = effect[g]
      BY <3>2, CommitMoves DEF UnderWay
    <3>3. ASSUME SettleEffect(f)
          PROVE  /\ effect[f].state \in UnderWay
                 /\ effect'[f].before = effect[f].before /\ effect'[f].after = effect[f].after
                 /\ \A g \in Effect : g # f => effect'[g] = effect[g]
      <4>1. /\ effect[f].state = "written"
            /\ effect'[f].before = effect[f].before /\ effect'[f].after = effect[f].after
        BY <3>3, SettleEffectMoves
      <4>2. \A g \in Effect : g # f => effect'[g] = effect[g]
        BY <3>3 DEF SettleEffect, CanvasTypes
      <4>3. QED
        BY <4>1, <4>2 DEF UnderWay
    <3>4. QED
      BY <2>2, <3>1, <3>2, <3>3, AttemptedStays DEF Running
  <2>3. CASE PublishEffect(f) \/ PublishUndrained(f) \/ EffectConflict(f) \/ EffectFails(f)
    <3>1. effect'[f].state \in {"applied", "idle"}
      <4>1. PublishEffect(f) => effect'[f].state = "applied"
        BY PublishMoves
      <4>2. PublishUndrained(f) => effect'[f].state = "applied"
        BY PublishUndrainedMoves
      <4>3. EffectConflict(f) => effect'[f].state = "idle"
        BY ConflictMoves
      <4>4. EffectFails(f) => effect'[f].state = "idle"
        BY FailsMoves
      <4>5. QED
        BY <2>3, <4>1, <4>2, <4>3, <4>4
    <3>2. \A g \in Effect : g # f => effect'[g] = effect[g]
      BY <2>3 DEF PublishEffect, PublishUndrained, EffectConflict, EffectFails, EffectEnds,
                  CanvasTypes
    <3>3. QED
      BY <3>1, <3>2, AttemptedStays DEF UnderWay
  <2>4. QED
    BY <1>2, <2>1, <2>2, <2>3 DEF EffectMove
<1>3. CASE ReloadTab(t)
  BY <1>3, ReloadMoves, AttemptedStays
<1>4. CASE EditStep(t) \/ SavingStep(t) \/ SaveFails(t) \/ UNCHANGED canvasVars
  <2>1. effect' = effect
    BY <1>4 DEF EditStep, SavingStep, SaveQueue, SettleSave, SaveFails, canvasVars
  <2>2. QED
    BY <1>1, <2>1
<1>5. QED
  BY <1>2, <1>3, <1>4, SoleSteps

\* The types of what the tab has.
LEMMA SoleIsTyped ==
    ASSUME CanvasTypes, NEW t, Sole(t)
    PROVE  /\ store[t] \in Nodes /\ observed[t].nodes \in Nodes /\ document \in Stored
           /\ document.nodes \in Nodes /\ document.revision \in Nat
           /\ Queued(t) => queue[t].nodes \in Nodes
           /\ t \in Tab
  BY DEF CanvasTypes, Stored, Sole, Queued, SaveRow

\* Edits show nothing that was deleted, since no user undoes a deletion.
LEMMA EditKeepsPresent ==
    ASSUME CanvasTypes, NEW t, Sole(t), NoneMissing(t), EditStep(t), NoneRestored(t)
    PROVE  NoneMissing(t)'
<1>1. PICK nodes : EditsTo(t, nodes) /\ QueueSave(t, nodes, effect)
  BY DEF EditStep
<1>2. nodes \in Nodes
  BY <1>1, EditedIsTyped DEF Sole
<1>3. store'[t] = nodes /\ queue'[t].nodes = Ordinary(t, nodes, observed[t].nodes, effect)
  BY <1>1, <1>2, SaveMoves
<1>4. \A n \in Node : nodes[n] # Gone => store[t][n] # Gone
  BY <1>3 DEF NoneRestored
<1>5. \A n \in Node : Ordinary(t, nodes, observed[t].nodes, effect)[n] = Gone <=> nodes[n] = Gone
  BY <1>2, <1>4, SoleIsTyped, OrdinaryPresent DEF NoneMissing
<1>6. UNCHANGED <<document, observed>>
  BY DEF EditStep
<1>7. QED
  BY <1>3, <1>4, <1>5, <1>6 DEF NoneMissing

\* No effect brings a node back.
LEMMA EffectKeepsPresent ==
    ASSUME CanvasTypes, NEW t, Sole(t), SoleReads(t), NoneMissingInv(t), NEW e \in Effect, EffectMove(t, e)
    PROVE  NoneMissing(t)' /\ \A n \in Node : document.nodes[n] = Gone => document'.nodes[n] = Gone
<1>1. NoneMissing(t) /\ Attempted(e)
  BY DEF NoneMissingInv
<1>2. /\ store[t] \in Nodes /\ observed[t].nodes \in Nodes /\ document \in Stored
      /\ document.nodes \in Nodes /\ document.revision \in Nat
  BY SoleIsTyped
<1>3. \A n \in Node : store[t][n] # Gone => document.nodes[n] # Gone /\ observed[t].nodes[n] # Gone
  BY <1>1 DEF NoneMissing
<1>4. ASSUME Begins(t, e)
      PROVE  NoneMissing(t)' /\ UNCHANGED document
  <2>1. /\ store[t][Target[e]] # Gone /\ UNCHANGED <<document, observed>>
    BY <1>4, BeginSets
  <2>2. store'[t] \in Nodes /\ \A n \in Node : store'[t][n] = Gone <=> store[t][n] = Gone
    <3>1. store'[t] = store[t] \/ store'[t] = Applied(store[t], e)
      BY <1>4, BeginQueues
    <3>2. QED
      BY <1>2, <2>1, <3>1, AppliedIsTyped
  <2>3. queue'[t] # NoSave => queue'[t].nodes = Ordinary(t, store'[t], observed[t].nodes, effect')
    BY <1>4, BeginQueues
  <2>4. \A n \in Node : store'[t][n] # Gone => observed[t].nodes[n] # Gone
    BY <1>3, <2>2
  <2>5. \A n \in Node : Ordinary(t, store'[t], observed[t].nodes, effect')[n] = Gone
                            <=> store'[t][n] = Gone
    BY <1>2, <2>2, <2>4, OrdinaryPresent
  <2>6. QED
    BY <1>3, <2>1, <2>2, <2>3, <2>5 DEF NoneMissing, Queued
<1>5. ASSUME LockStorage(e) PROVE NoneMissing(t)' /\ UNCHANGED document
  BY <1>1, <1>5, LockMoves DEF NoneMissing, Queued
<1>6. ASSUME CommitEffect(e)
      PROVE  NoneMissing(t)' /\ \A n \in Node : document'.nodes[n] = Gone <=> document.nodes[n] = Gone
  <2>1. /\ effect[e].state = "draining" /\ UNCHANGED <<store, observed, queue>>
        /\ document' = Rebase(document, effect[e].before, effect[e].after, effect[e].revision)
    BY <1>6, CommitMoves
  <2>2. /\ effect[e].before[Target[e]] # Gone /\ effect[e].after = Applied(effect[e].before, e)
        /\ effect[e].before \in Nodes
    BY <1>1, <2>1, AttemptIsTyped DEF Attempted, Running, UnderWay
  <2>3. \A n \in Node : document'.nodes[n] = Gone <=> document.nodes[n] = Gone
    BY <1>2, <2>1, <2>2, CommitKeepsNodes
  <2>4. QED
    BY <1>1, <2>1, <2>3 DEF NoneMissing, Queued
<1>7. ASSUME SettleEffect(e) PROVE NoneMissing(t)' /\ UNCHANGED document
  <2>1. /\ observed'[t].nodes = document.nodes
        /\ queue'[t] # NoSave => queue'[t].nodes = Ordinary(t, store[t], document.nodes, effect)
        /\ UNCHANGED <<document, store>>
    BY <1>7, SettleEffectMoves
  <2>2. \A n \in Node : Ordinary(t, store[t], document.nodes, effect)[n] = Gone <=> store[t][n] = Gone
    BY <1>2, <1>3, OrdinaryPresent
  <2>3. QED
    BY <1>3, <2>1, <2>2 DEF NoneMissing, Queued
<1>8. ASSUME effect[e].state = "publishing"
      PROVE  Published(e) \in Nodes /\ \A n \in Node : Published(e)[n] # Gone => document.nodes[n] # Gone
  <2> DEFINE doc == [document EXCEPT !.nodes = store[t]]
  <2>1. /\ effect[e].tab = t /\ effect[e].before \in Nodes /\ effect[e].revision \in Nat
    BY <1>8, AttemptIsTyped, SoleEffect
  <2>2. doc \in Stored /\ doc.nodes = store[t]
    BY <1>2 DEF Stored
  <2>3. Published(e) = Rebase(doc, effect[e].before, document.nodes, effect[e].revision).nodes
    BY <2>1 DEF Published
  <2> HIDE DEF doc
  <2>4. \A n \in Node : Published(e)[n] # Gone => document.nodes[n] # Gone \/ store[t][n] # Gone
    BY <1>2, <2>1, <2>2, <2>3, RebasedPresent
  <2>5. QED
    BY <1>3, <1>8, <2>4, PublishedIsTyped
<1>9. ASSUME PublishEffect(e) PROVE NoneMissing(t)' /\ UNCHANGED document
  <2>1. /\ effect[e].state = "publishing" /\ ~Queued(t) /\ store'[t] = Published(e)
        /\ observed'[t].nodes = document.nodes /\ UNCHANGED <<document, queue>>
    BY <1>9, PublishMoves
  <2>2. QED
    BY <1>8, <2>1 DEF NoneMissing, Queued
<1>10. ASSUME PublishUndrained(e) PROVE NoneMissing(t)' /\ UNCHANGED document
  <2>1. /\ effect[e].state = "publishing" /\ store'[t] = Published(e) /\ AllNoted
        /\ queue'[t].nodes = Ordinary(t, Published(e), observed[t].nodes, effect')
        /\ UNCHANGED <<document, observed>>
    BY <1>10, PublishUndrainedMoves
  <2>2. observed[t].nodes = document.nodes
    BY <2>1 DEF SoleReads, ReadsCurrent
  <2>3. \A n \in Node : Ordinary(t, Published(e), observed[t].nodes, effect')[n] = Gone
                            <=> Published(e)[n] = Gone
    BY <1>2, <1>8, <2>1, <2>2, OrdinaryPresent
  <2>4. QED
    BY <1>8, <2>1, <2>2, <2>3 DEF NoneMissing
<1>11. ASSUME EffectConflict(e) PROVE NoneMissing(t)' /\ UNCHANGED document
  <2>1. /\ effect[e].state = "draining" /\ store'[t] \in Nodes
        /\ store'[t] = Rebase(document, effect[e].after, store[t], document.revision).nodes
        /\ observed'[t].nodes = document.nodes
        /\ queue'[t].nodes = Ordinary(t, store'[t], document.nodes, effect')
        /\ UNCHANGED document
    BY <1>11, ConflictMoves
  <2>2. effect[e].after \in Nodes
    BY <2>1, AttemptIsTyped
  <2>3. \A n \in Node : store'[t][n] # Gone => document.nodes[n] # Gone
    BY <1>2, <1>3, <2>1, <2>2, RebasedPresent
  <2>4. \A n \in Node : Ordinary(t, store'[t], document.nodes, effect')[n] = Gone
                            <=> store'[t][n] = Gone
    BY <1>2, <2>1, <2>3, OrdinaryPresent
  <2>5. QED
    BY <2>1, <2>3, <2>4 DEF NoneMissing
<1>12. ASSUME EffectFails(e) PROVE NoneMissing(t)' /\ UNCHANGED document
  <2>1. /\ observed'[t].nodes = document.nodes /\ UNCHANGED <<document, queue>>
        /\ Queued(t) => store'[t] = store[t]
        /\ ~Queued(t) => store'[t] = Ordinary(t, store[t], document.nodes, effect)
    BY <1>12, FailsMoves
  <2>2. \A n \in Node : Ordinary(t, store[t], document.nodes, effect)[n] = Gone <=> store[t][n] = Gone
    BY <1>2, <1>3, OrdinaryPresent
  <2>3. \A n \in Node : store'[t][n] = Gone <=> store[t][n] = Gone
    BY <2>1, <2>2
  <2>4. QED
    BY <1>1, <1>3, <2>1, <2>3 DEF NoneMissing, Queued
<1>13. QED
  BY <1>4, <1>5, <1>6, <1>7, <1>9, <1>10, <1>11, <1>12 DEF EffectMove

\* No save brings a node back.
LEMMA SavingKeepsPresent ==
    ASSUME CanvasTypes, NEW t, Sole(t), SoleReads(t), NoneMissing(t), SavingStep(t)
    PROVE  NoneMissing(t)' /\ \A n \in Node : document.nodes[n] = Gone => document'.nodes[n] = Gone
<1>1. ASSUME NEW job \in {Queue} \cup Effect, SaveQueue(t, job)
      PROVE  NoneMissing(t)' /\ \A n \in Node : document.nodes[n] = Gone => document'.nodes[n] = Gone
  <2>1. /\ Unsaved(t) /\ document'.nodes = queue[t].nodes
        /\ queue'[t].nodes = queue[t].nodes
        /\ UNCHANGED <<store, observed>>
    BY <1>1, SaveQueueMoves
  <2>2. \A n \in Node : queue[t].nodes[n] = Gone <=> store[t][n] = Gone
    BY <2>1 DEF NoneMissing, Unsaved
  <2>3. QED
    BY <2>1, <2>2 DEF NoneMissing
<1>2. ASSUME SettleSave(t) PROVE NoneMissing(t)' /\ UNCHANGED document
  <2>1. /\ observed'[t].nodes = document.nodes /\ UNCHANGED <<document, store>>
        /\ queue[t] # NoSave
    BY <1>2, SettleSaveMoves
  <2>2. queue'[t] # NoSave => queue'[t].nodes = queue[t].nodes
    BY <1>2, SettleSaveMoves, Zenon
  <2>3. QED
    BY <2>1, <2>2 DEF NoneMissing, Queued
<1>3. QED
  BY <1>1, <1>2 DEF SavingStep

\* No step brings a node back.
LEMMA PresentStep ==
    ASSUME CanvasTypes, NEW t, Sole(t), SoleReads(t), NoneMissingInv(t), ~UsersRestore,
           [CanvasNext]_canvasVars
    PROVE  NoneMissingInv(t)' /\ \A n \in Node : document.nodes[n] = Gone => document'.nodes[n] = Gone
<1>1. \A e \in Effect : Attempted(e)'
  BY AttemptsStay DEF NoneMissingInv
<1>2. CASE EditStep(t) /\ NoneRestored(t)
  <2>1. NoneMissing(t)' /\ UNCHANGED document
    BY <1>2, EditKeepsPresent DEF NoneMissingInv, EditStep
  <2>2. QED
    BY <1>1, <2>1 DEF NoneMissingInv
<1>3. CASE SavingStep(t)
  BY <1>1, <1>3, SavingKeepsPresent DEF NoneMissingInv
<1>4. CASE SaveFails(t)
  BY <1>1, <1>4 DEF SaveFails, NoneMissingInv, NoneMissing, Queued
<1>5. CASE ReloadTab(t)
  <2>1. NoneMissing(t)' /\ UNCHANGED document
    BY <1>5, ReloadMoves DEF NoneMissing, Queued
  <2>2. QED
    BY <1>1, <2>1 DEF NoneMissingInv
<1>6. ASSUME NEW e \in Effect, EffectMove(t, e)
      PROVE  NoneMissingInv(t)' /\ \A n \in Node : document.nodes[n] = Gone => document'.nodes[n] = Gone
  BY <1>1, <1>6, EffectKeepsPresent DEF NoneMissingInv
<1>7. CASE UNCHANGED canvasVars
  BY <1>1, <1>7 DEF canvasVars, NoneMissingInv, NoneMissing, Queued
<1>8. QED
  BY <1>2, <1>3, <1>4, <1>5, <1>6, <1>7, SoleSteps

\* At first every node is there.
LEMMA PresentInit == ASSUME CanvasInit, NEW t, Sole(t) PROVE NoneMissingInv(t)
<1> DEFINE N == [n \in Node |-> [field |-> [f \in Field |-> 0], keys |-> {}]]
<1>1. /\ document.nodes = N /\ store = [u \in Tab |-> N]
      /\ observed = [u \in Tab |-> [nodes |-> N, revision |-> 1]]
      /\ queue = [u \in Tab |-> NoSave] /\ effect = [e \in Effect |-> Idle]
  BY DEF CanvasInit
<1>2. \A n \in Node : N[n] # Gone
  <2> DEFINE z == [f \in Field |-> 0]
  <2>1. DOMAIN z = Field /\ DOMAIN Gone.field = {}
    BY DEF Gone
  <2> HIDE DEF z
  <2>2. [field |-> z, keys |-> {}] # Gone
    BY <2>1, CanvasAssumption
  <2>3. QED
    BY <2>2 DEF z
<1> HIDE DEF N
<1>3. NoneMissing(t)
  BY <1>1, <1>2 DEF NoneMissing, Sole, Queued
<1>4. \A e \in Effect : Attempted(e)
  BY <1>1 DEF Attempted, Running, Idle, UnderWay
<1>5. QED
  BY <1>3, <1>4 DEF NoneMissingInv

\* The canvas is open in one tab.
OneTab == \E t \in Tab : Tab = {t}

\* With a single tab in which no user undoes a deletion, a deleted node stays
\* deleted, whatever effects are committed, aborted or published meanwhile: a node
\* comes back by a save of another tab only.
THEOREM SoleTabDeletes == OneTab /\ ~UsersRestore => (CanvasSpec => DeletionsStay)
<1>1. CASE Node = {}
  <2>1. [\A n \in Node : document.nodes[n] = Gone => document'.nodes[n] = Gone]_canvasVars
    BY <1>1
  <2>2. QED
    BY <2>1, PTL DEF DeletionsStay
<1>2. ASSUME Node # {}, ~UsersRestore, NEW t \in Tab, Tab = {t}
      PROVE  CanvasSpec => DeletionsStay
  <2>1. Sole(t)
    BY <1>2 DEF Sole
  <2>2. CanvasInit => CanvasTypes /\ SoleReads(t) /\ NoneMissingInv(t)
    BY <2>1, CanvasTypesInit, SoleInit, PresentInit
  <2>3. CanvasTypes /\ SoleReads(t) /\ NoneMissingInv(t) /\ [CanvasNext]_canvasVars
            => /\ CanvasTypes' /\ SoleReads(t)' /\ NoneMissingInv(t)'
               /\ [\A n \in Node : document.nodes[n] = Gone => document'.nodes[n] = Gone]_canvasVars
    BY <1>2, <2>1, CanvasTypesStep, SoleReadsStep, PresentStep
  <2>4. QED
    BY <2>2, <2>3, PTL DEF CanvasSpec, DeletionsStay
<1>3. QED
  BY <1>1, <1>2 DEF OneTab

-----------------------------------------------------------------------------
(* No edit is lost: the nodes.                                             *)

\* A node of the tab and what a save of it says, or would say: they agree unless
\* the tab shows a result that the save leaves out.
Same(x, y) == x.keys \subseteq y.keys => y.field = x.field
AllSame(nodes, saved) == \A n \in Node : Same(nodes[n], saved[n])

\* x and y differ in the content only.
Others(x, y) == \A f \in Field \ {"content"} : x.field[f] = y.field[f]

\* x is what s is without the result of e.
TakesBack(s, x, e) ==
    x # Gone => /\ Others(s, x)
                /\ s.field["content"] # Result(e) => x.field["content"] = s.field["content"]

\* To show d, a tab that shows s has at most the result to take over, in the
\* place of what was there when the attempt began.
Catches(b, s, d) ==
    /\ b # Gone /\ (s = Gone <=> d = Gone)
    /\ s # Gone => /\ Others(s, d)
                   /\ \/ s.field["content"] = d.field["content"]
                      \/ /\ d.field["content"] # b.field["content"]
                         /\ s.field["content"] = b.field["content"]

\* No node but the target of e has a stamp.
Bare(nodes, e) == \A n \in Node \ {Target[e]} : nodes[n].keys = {}

\* An ordinary save says what the tab shows, and has no stamps of its own.
LEMMA OrdinarySame ==
    ASSUME NEW t, NEW nodes \in Nodes, NEW durable \in Nodes, NEW attempts
    PROVE  /\ AllSame(nodes, Ordinary(t, nodes, durable, attempts))
           /\ \A n \in Node :
                /\ Ordinary(t, nodes, durable, attempts)[n].keys \subseteq durable[n].keys
                /\ nodes[n].keys \subseteq durable[n].keys =>
                        nodes[n].keys \subseteq Ordinary(t, nodes, durable, attempts)[n].keys
           /\ \A e \in Effect : Bare(durable, e) => Bare(Ordinary(t, nodes, durable, attempts), e)
<1> DEFINE O == Ordinary(t, nodes, durable, attempts)
<1>1. \A n \in Node : Projects(O[n], nodes[n], durable[n], n, t, attempts)
  BY OrdinaryNode
<1> HIDE DEF O
<1>2. ASSUME NEW n \in Node
      PROVE  /\ O[n].keys \subseteq durable[n].keys
             /\ nodes[n].keys \subseteq durable[n].keys => nodes[n].keys \subseteq O[n].keys
  BY <1>1, GoneHasNoStamp DEF Projects
<1>3. AllSame(nodes, O)
  <2> SUFFICES ASSUME NEW n \in Node, nodes[n].keys \subseteq O[n].keys
               PROVE  O[n].field = nodes[n].field
    BY DEF AllSame, Same
  <2>1. nodes[n].keys \subseteq durable[n].keys
    BY <1>2
  <2>2. QED
    BY <1>1, <2>1 DEF Projects
<1>4. \A e \in Effect : Bare(durable, e) => Bare(O, e)
  BY <1>2 DEF Bare
<1>5. QED
  BY <1>2, <1>3, <1>4 DEF O

\* An attempt writes its result, over something else, and nothing more.
LEMMA WroteContent ==
    ASSUME NEW e \in Effect, NEW x, Wrote(x, e)
    PROVE  LET b == x.before[Target[e]]
               a == x.after[Target[e]]
           IN  /\ \A f \in Field \ {"content"} : b.field[f] = a.field[f]
               /\ a.field["content"] = Result(e) /\ b.field["content"] # Result(e)
<1> DEFINE b == x.before[Target[e]]
           a == x.after[Target[e]]
<1>1. Target[e] \in Node /\ "content" \in Field
  BY CanvasAssumption
<1>2. x.before \in Nodes /\ b # Gone /\ x.after = Applied(x.before, e) /\ Clean(b, e)
  BY <1>1 DEF Wrote, CleanAll
<1>3. a = [field |-> [b.field EXCEPT !["content"] = Result(e)], keys |-> b.keys \cup {e}]
  BY <1>1, <1>2, NodesAreNodes DEF Applied
<1>4. b.field \in [Field -> Value]
  BY <1>1, <1>2, NodesAreNodes, NodeIsTyped
<1> HIDE DEF a, b
<1>5. /\ \A f \in Field \ {"content"} : b.field[f] = a.field[f]
      /\ a.field["content"] = Result(e) /\ b.field["content"] # Result(e)
  BY <1>1, <1>2, <1>3, <1>4 DEF Clean
<1>6. QED
  BY <1>5 DEF a, b

\* A save of an attempt that is under way takes the result back.
LEMMA OrdinaryTakesBack ==
    ASSUME OneEffect, NEW e \in Effect, NEW t, NEW nodes \in Nodes, NEW durable \in Nodes,
           NEW attempts, CleanAll(durable, e), e \in nodes[Target[e]].keys,
           attempts[e].tab = t, attempts[e].state \in UnderWay, Wrote(attempts[e], e)
    PROVE  TakesBack(nodes[Target[e]], Ordinary(t, nodes, durable, attempts)[Target[e]], e)
<1> DEFINE O == Ordinary(t, nodes, durable, attempts)
           n == Target[e]
           l == nodes[n]
           d == durable[n]
           x == O[n]
<1>1. n \in Node /\ "content" \in Field
  BY CanvasAssumption
<1>2. Projects(x, l, d, n, t, attempts) /\ l \in AnyNode /\ d \in AnyNode
  BY <1>1, OrdinaryNode, NodesAreNodes
<1>3. ~(l.keys \subseteq d.keys)
  BY <1>1, GoneHasNoStamp DEF CleanAll, Clean
<1>4. Mine(l, t, attempts) = {e}
  <2>1. l.keys \in SUBSET Effect
    BY <1>2, NodeIsTyped, GoneHasNoStamp
  <2>2. \A f \in Effect : f = e
    BY DEF OneEffect
  <2>3. e \in Mine(l, t, attempts)
    BY DEF Mine
  <2>4. \A f \in Mine(l, t, attempts) : f = e
    BY <2>1, <2>2 DEF Mine
  <2>5. QED
    BY <2>3, <2>4
<1> DEFINE b == attempts[e].before[n]
           a == attempts[e].after[n]
<1>5. x # Gone => x.field = RolledBack(b, a, l, d)
  BY <1>2, <1>3, <1>4 DEF Projects
<1>6. /\ \A f \in Field \ {"content"} : b.field[f] = a.field[f]
      /\ a.field["content"] = Result(e) /\ b.field["content"] # Result(e)
  BY WroteContent
<1> HIDE DEF a, b, l, d, x, n, O
<1>7. \A f \in Field : RolledBack(b, a, l, d)[f] =
            IF b.field[f] = a.field[f] THEN l.field[f]
            ELSE IF l.field[f] = a.field[f] THEN d.field[f] ELSE l.field[f]
  BY DEF RolledBack
<1>8. TakesBack(l, x, e)
  BY <1>1, <1>5, <1>6, <1>7 DEF TakesBack, Others
<1>9. QED
  BY <1>8 DEF l, x, n, O

\* Where both sides agree, so does the merge.
LEMMA AgreedStays ==
    ASSUME NEW doc \in Stored, NEW base \in Nodes, NEW local \in Nodes, NEW r, NEW n \in Node,
           local[n] = doc.nodes[n]
    PROVE  Rebase(doc, base, local, r).nodes[n] = local[n]
<1> DEFINE R == Rebase(doc, base, local, r).nodes
           b == base[n]
           l == local[n]
           k == doc.tombstone[n]
<1>1. b \in AnyNode /\ l \in AnyNode
  BY NodesAreNodes DEF Stored
<1>2. R[n] = CASE Deletes(b, l) -> Gone
               [] ~Deletes(b, l) /\ ~Changes(b, l) -> l
               [] Orphans(b, l, l, k, r) -> Gone
               [] OTHER -> IF l = Gone THEN l ELSE MergeNode(b, l, l)
  BY DEF Rebase
<1>3. ASSUME l # Gone PROVE MergeNode(b, l, l) = l
  <2>1. l.field \in [Field -> Value] /\ l = [field |-> l.field, keys |-> l.keys]
    BY <1>1, <1>3, NodeIsTyped
  <2>2. \A f \in Field : Merge(BaseOf(b).field[f], l.field[f], l.field[f]) = l.field[f]
    BY DEF Merge
  <2>3. [f \in Field |-> Merge(BaseOf(b).field[f], l.field[f], l.field[f])] = l.field
    BY <2>1, <2>2
  <2>4. MergeKeys(BaseOf(b).keys, l.keys, l.keys) = l.keys
    BY DEF MergeKeys
  <2>5. QED
    BY <2>1, <2>3, <2>4 DEF MergeNode
<1> HIDE DEF b, l, k, R
<1>4. R[n] = l
  BY <1>2, <1>3 DEF Deletes, Changes, Orphans
<1>5. QED
  BY <1>4 DEF R, l

\* What is published is what the document says.
LEMMA CaughtUp ==
    ASSUME NEW doc \in Stored, NEW base \in Nodes, NEW local \in Nodes, NEW r, NEW n \in Node,
           Catches(base[n], doc.nodes[n], local[n])
    PROVE  Rebase(doc, base, local, r).nodes[n].field = local[n].field
<1> DEFINE R == Rebase(doc, base, local, r).nodes
           b == base[n]
           s == doc.nodes[n]
           d == local[n]
           k == doc.tombstone[n]
           m == MergeNode(b, d, s)
<1>1. b \in AnyNode /\ d \in AnyNode /\ s \in AnyNode
  BY NodesAreNodes DEF Stored
<1>2. R[n] = CASE Deletes(b, d) -> Gone
               [] ~Deletes(b, d) /\ ~Changes(b, d) -> s
               [] Orphans(b, d, s, k, r) -> Gone
               [] OTHER -> IF s = Gone THEN d ELSE m
  BY DEF Rebase
<1>3. ASSUME d # Gone, s # Gone PROVE m.field = d.field /\ (d = b => s.field = d.field)
  <2>1. /\ d.field \in [Field -> Value] /\ s.field \in [Field -> Value] /\ "content" \in Field
    BY <1>1, <1>3, NodeIsTyped, CanvasAssumption
  <2>2. m.field = [f \in Field |-> Merge(b.field[f], d.field[f], s.field[f])]
    BY DEF MergeNode, BaseOf, Catches
  <2>3. ASSUME NEW f \in Field
        PROVE  /\ Merge(b.field[f], d.field[f], s.field[f]) = d.field[f]
               /\ d = b => s.field[f] = d.field[f]
    <3>1. \/ s.field[f] = d.field[f]
          \/ d.field[f] # b.field[f] /\ s.field[f] = b.field[f]
      BY <1>3 DEF Catches, Others
    <3> HIDE DEF d, b, s
    <3>2. QED
      BY <3>1 DEF Merge
  <2> HIDE DEF b, s, d, m
  <2>4. QED
    BY <2>1, <2>2, <2>3
<1>4. b # Gone /\ (s = Gone <=> d = Gone)
  BY DEF Catches
<1> HIDE DEF b, s, d, k, m, R
<1>5. R[n].field = d.field
  BY <1>2, <1>3, <1>4 DEF Deletes, Changes, Orphans
<1>6. QED
  BY <1>5 DEF R, d

\* A commit without conflict puts the result in the place of what the attempt
\* found there.
LEMMA CommittedTarget ==
    ASSUME NEW doc \in Stored, NEW before \in Nodes, NEW e \in Effect, NEW r,
           before[Target[e]] # Gone,
           Clean(before[Target[e]], e), Clean(doc.nodes[Target[e]], e),
           Conflicts(doc, before, Applied(before, e), r) = {}
    PROVE  LET x == Rebase(doc, before, Applied(before, e), r).nodes[Target[e]]
               d == doc.nodes[Target[e]]
               b == before[Target[e]]
           IN  /\ d # Gone /\ x # Gone /\ e \in x.keys /\ Others(d, x)
               /\ d.field["content"] = b.field["content"]
               /\ b.field["content"] # Result(e) /\ x.field["content"] = Result(e)
<1> DEFINE n == Target[e]
           after == Applied(before, e)
           x == Rebase(doc, before, after, r).nodes[n]
           d == doc.nodes[n]
           b == before[n]
           l == after[n]
           k == doc.tombstone[n]
           m == MergeNode(b, l, d)
<1>1. n \in Node /\ "content" \in Field
  BY CanvasAssumption
<1>2. b \in AnyNode /\ d \in AnyNode
  BY <1>1, NodesAreNodes DEF Stored
<1>3. l = [field |-> [b.field EXCEPT !["content"] = Result(e)], keys |-> b.keys \cup {e}]
  BY <1>1, NodesAreNodes DEF Applied
<1>4. l # Gone
  BY AppliedIsTyped
<1>5. x = IF l = b THEN d ELSE IF d = Gone THEN Gone ELSE m
  BY CommittedNodes
<1>6. ~Orphans(b, l, d, k, r) /\ ~(Changes(b, l) /\ d # Gone /\ NodeClashes(b, l, d))
  BY <1>1 DEF Conflicts
<1>7. b # Gone /\ Clean(b, e) /\ Clean(d, e)
  OBVIOUS
<1> HIDE DEF n, after, x, d, b, l, k, m
<1>8. /\ b.field \in [Field -> Value] /\ b.keys \in SUBSET Effect
      /\ b.field["content"] # Result(e) /\ e \notin b.keys
  BY <1>2, <1>7, NodeIsTyped DEF Clean
<1>9. /\ l.field["content"] = Result(e) /\ l.keys = b.keys \cup {e}
      /\ \A f \in Field \ {"content"} : l.field[f] = b.field[f]
  BY <1>1, <1>3, <1>8
<1>10. l # b
  BY <1>8, <1>9
<1>11. d # Gone
  BY <1>4, <1>6, <1>7, <1>10 DEF Orphans, Changes
<1>12. d.field["content"] # Result(e) /\ e \notin d.keys
  BY <1>7, <1>11 DEF Clean
<1>13. d.field["content"] = b.field["content"]
  <2>1. ~Clashes(b.field["content"], l.field["content"], d.field["content"])
    BY <1>1, <1>4, <1>6, <1>7, <1>10, <1>11 DEF Changes, NodeClashes, BaseOf
  <2>2. QED
    BY <1>8, <1>9, <1>12, <2>1 DEF Clashes
<1>14. x = m
  BY <1>5, <1>10, <1>11
<1>15. m # Gone
  <2>1. l \in AnyNode
    <3>1. after \in Nodes
      BY <1>7, AppliedIsTyped DEF after, b, n
    <3>2. QED
      BY <1>1, <3>1, NodesAreNodes DEF l
  <2>2. QED
    BY <1>2, <1>4, <1>11, <2>1, MergedIsTyped DEF m
<1>16. /\ \A f \in Field : m.field[f] = Merge(b.field[f], l.field[f], d.field[f])
       /\ m.keys = MergeKeys(b.keys, l.keys, d.keys)
  BY <1>7 DEF m, MergeNode, BaseOf
<1>17. e \in m.keys
  BY <1>8, <1>9, <1>16 DEF MergeKeys
<1>18. Others(d, m)
  BY <1>9, <1>16 DEF Others, Merge
<1>19. m.field["content"] = Result(e)
  BY <1>1, <1>8, <1>9, <1>13, <1>16 DEF Merge
<1>20. QED
  BY <1>8, <1>11, <1>13, <1>14, <1>15, <1>17, <1>18, <1>19 DEF x, d, b, n, after

-----------------------------------------------------------------------------
(* No edit is lost: what the tab shows, has queued and has written.        *)

\* The result is in the document, but not published.
Committing(e) == effect[e].state \in {"written", "publishing"}

\* What the document will hold once what is queued is saved.
View(t) == IF Unsaved(t) THEN queue[t].nodes ELSE document.nodes

\* What will be in the document is what the tab shows.
ShowsSaved(t) ==
    Unsaved(t) \/ (\A e \in Effect : ~Committing(e)) => AllSame(store[t], View(t))

\* The stamp is nowhere but on the target.
Elsewhere(t, e) ==
    /\ Bare(store[t], e) /\ Bare(document.nodes, e) /\ Bare(observed[t].nodes, e)
    /\ Queued(t) => Bare(queue[t].nodes, e)

\* A result that is shown while it is committed is no longer taken back.
StampsCome(t, e) ==
    LET k == store[t][Target[e]].keys
    IN  /\ Committing(e) => k \subseteq document.nodes[Target[e]].keys
        /\ effect[e].state = "publishing" =>
            /\ k \subseteq observed[t].nodes[Target[e]].keys
            /\ Queued(t) => k \subseteq queue[t].nodes[Target[e]].keys

\* Where nothing is queued, the publication of a commit loses nothing.
CommitShows(t, e) ==
    Committing(e) /\ ~Unsaved(t) =>
        /\ Catches(effect[e].before[Target[e]], store[t][Target[e]], document.nodes[Target[e]])
        /\ \A n \in Node \ {Target[e]} : document.nodes[n].field = store[t][n].field

\* Before the commit, a save takes the result back and nothing else.
RollsBack(t, e) ==
    effect[e].state \in {"waiting", "draining"} /\ e \in store[t][Target[e]].keys =>
        TakesBack(store[t][Target[e]], View(t)[Target[e]], e)

\* What has to be known of each effect,
SavedWith(t, e) == Elsewhere(t, e) /\ StampsCome(t, e) /\ CommitShows(t, e) /\ RollsBack(t, e)
\* and of the tab.
SaveInv(t) == ShowsSaved(t) /\ \A e \in Effect : SavedWith(t, e)

\* A save that is queued anew shows the store.
LEMMA Requeued ==
    ASSUME NEW t, NEW nodes \in Nodes, NEW durable \in Nodes, NEW attempts,
           store'[t] = nodes, queue'[t] # NoSave, queue'[t].sent = FALSE,
           queue'[t].nodes = Ordinary(t, nodes, durable, attempts)
    PROVE  /\ Unsaved(t)' /\ View(t)' = queue'[t].nodes /\ ShowsSaved(t)'
           /\ \A e \in Effect : Bare(durable, e) => Bare(queue'[t].nodes, e)
<1>1. Unsaved(t)' /\ View(t)' = queue'[t].nodes
  BY DEF Unsaved, Queued, View
<1>2. /\ AllSame(nodes, queue'[t].nodes)
      /\ \A e \in Effect : Bare(durable, e) => Bare(queue'[t].nodes, e)
  BY OrdinarySame
<1>3. ShowsSaved(t)'
  BY <1>1, <1>2 DEF ShowsSaved
<1>4. QED
  BY <1>1, <1>2, <1>3

\* What is known of an effect before its commit.
LEMMA UncommittedIsClean ==
    ASSUME CanvasTypes, StampInv, NEW t, Sole(t), NEW e \in Effect, ~Committed(effect[e])
    PROVE  /\ CleanAll(document.nodes, e) /\ CleanAll(observed[t].nodes, e) /\ ShowsAll(store[t], e)
           /\ effect[e].state \in UnderWay => Wrote(effect[e], e)
  BY DEF StampInv, UncommittedIsUnseen, Sole

\* No edit adds a stamp.
LEMMA EditedIsBare ==
    ASSUME CanvasTypes, NEW t, Sole(t), NEW nodes, EditsTo(t, nodes)
    PROVE  \A n \in Node : nodes[n].keys \subseteq store[t][n].keys
<1>1. ASSUME NEW n \in Node PROVE nodes[n].keys \subseteq store[t][n].keys
  <2>1. nodes[n] # Gone => nodes[n] = store[t][n] \/ nodes[n].keys \in {{}, store[t][n].keys}
    BY EditedIsTyped DEF Sole
  <2>2. QED
    BY <2>1, GoneHasNoStamp
<1>2. QED
  BY <1>1

\* An edit is queued at once, and what is queued shows it.
LEMMA EditSaves ==
    ASSUME OneEffect, CanvasTypes, StampInv, NEW t, Sole(t), SaveInv(t), EditStep(t)
    PROVE  SaveInv(t)'
<1>1. PICK nodes : EditsTo(t, nodes) /\ QueueSave(t, nodes, effect)
  BY DEF EditStep
<1>2. nodes \in Nodes /\ observed[t].nodes \in Nodes
  BY <1>1, EditedIsTyped, SoleIsTyped DEF Sole
<1> DEFINE O == Ordinary(t, nodes, observed[t].nodes, effect)
<1>3. /\ store'[t] = nodes /\ queue'[t] # NoSave /\ queue'[t].sent = FALSE
      /\ queue'[t].nodes = O /\ UNCHANGED <<document, observed, effect>>
  BY <1>1, <1>2, SaveMoves DEF EditStep
<1>4. /\ Unsaved(t)' /\ View(t)' = queue'[t].nodes /\ ShowsSaved(t)'
      /\ \A e \in Effect : Bare(observed[t].nodes, e) => Bare(queue'[t].nodes, e)
  BY <1>2, <1>3, Requeued
<1>5. \A n \in Node : nodes[n].keys \subseteq store[t][n].keys
  BY <1>1, EditedIsBare
<1>6. ASSUME NEW e \in Effect PROVE SavedWith(t, e)'
  <2>1. SavedWith(t, e) /\ Target[e] \in Node
    BY CanvasAssumption DEF SaveInv
  <2>2. Elsewhere(t, e)'
    BY <1>3, <1>4, <1>5, <2>1 DEF SavedWith, Elsewhere, Bare
  <2>3. StampsCome(t, e)'
    <3>1. \A n \in Node : nodes[n].keys \subseteq observed[t].nodes[n].keys =>
                                nodes[n].keys \subseteq O[n].keys
      BY <1>2, OrdinarySame
    <3> HIDE DEF O
    <3>2. QED
      BY <1>3, <1>5, <2>1, <3>1 DEF SavedWith, StampsCome, Committing
  <2>4. CommitShows(t, e)'
    BY <1>4 DEF CommitShows
  <2>5. RollsBack(t, e)'
    <3> SUFFICES ASSUME effect[e].state \in {"waiting", "draining"}, e \in nodes[Target[e]].keys
                 PROVE  TakesBack(nodes[Target[e]], O[Target[e]], e)
      BY <1>3, <1>4 DEF RollsBack
    <3>1. /\ effect[e].tab = t /\ effect[e].state \in UnderWay /\ ~Committed(effect[e])
      BY SoleEffect DEF UnderWay, Committed
    <3>2. CleanAll(observed[t].nodes, e) /\ Wrote(effect[e], e)
      BY <3>1, UncommittedIsClean
    <3>3. QED
      BY <1>2, <3>1, <3>2, OrdinaryTakesBack
  <2>6. QED
    BY <2>2, <2>3, <2>4, <2>5 DEF SavedWith
<1>7. QED
  BY <1>4, <1>6 DEF SaveInv

\* What is written is what was queued, and nothing has changed since.
LEMMA SavingSaves ==
    ASSUME CanvasTypes, NEW t, Sole(t), SoleReads(t), \A e \in Effect : Attempted(e), SaveInv(t),
           SavingStep(t)
    PROVE  SaveInv(t)'
<1>1. ASSUME NEW job \in {Queue} \cup Effect, SaveQueue(t, job) PROVE SaveInv(t)'
  <2>1. /\ AllNoted /\ Unsaved(t)
        /\ document'.nodes = queue[t].nodes /\ queue'[t].nodes = queue[t].nodes
        /\ queue'[t].sent = TRUE
        /\ UNCHANGED <<store, observed, effect>>
    BY <1>1, SaveQueueMoves
  <2>2. View(t)' = queue[t].nodes /\ View(t) = queue[t].nodes /\ ~Unsaved(t)'
    BY <2>1 DEF View, Unsaved
  <2>3. AllSame(store[t], queue[t].nodes) /\ Queued(t)
    BY <2>1, <2>2 DEF SaveInv, ShowsSaved, Unsaved
  <2>4. ShowsSaved(t)'
    BY <2>1, <2>2, <2>3 DEF ShowsSaved
  <2>5. ASSUME NEW e \in Effect PROVE SavedWith(t, e)'
    <3>1. SavedWith(t, e) /\ Target[e] \in Node /\ effect[e].state # "written"
      BY <2>1, CanvasAssumption DEF SaveInv, AllNoted
    <3>2. Elsewhere(t, e)'
      BY <2>1, <2>3, <3>1 DEF SavedWith, Elsewhere
    <3>3. StampsCome(t, e)'
      BY <2>1, <2>3, <3>1 DEF SavedWith, StampsCome, Committing
    <3>4. RollsBack(t, e)'
      BY <2>1, <2>2, <3>1 DEF SavedWith, RollsBack
    <3>5. CommitShows(t, e)'
      <4> SUFFICES ASSUME effect[e].state = "publishing"
                   PROVE  /\ Catches(effect[e].before[Target[e]], store[t][Target[e]],
                                     queue[t].nodes[Target[e]])
                          /\ \A n \in Node \ {Target[e]} : queue[t].nodes[n].field = store[t][n].field
        BY <2>1, <3>1 DEF CommitShows, Committing
      <4>1. \A n \in Node : queue[t].nodes[n].field = store[t][n].field
        BY <2>3, <3>1 DEF SavedWith, Elsewhere, Bare, StampsCome, AllSame, Same
      <4>2. ASSUME NEW x \in AnyNode, NEW y \in AnyNode, x.field = y.field PROVE x = Gone <=> y = Gone
        <5>1. DOMAIN Gone.field = {}
          BY DEF Gone
        <5>2. \A z \in AnyNode : z # Gone => DOMAIN z.field = Field
          BY NodeIsTyped
        <5>3. QED
          BY <4>2, <5>1, <5>2, CanvasAssumption
      <4>3. store[t][Target[e]] = Gone <=> queue[t].nodes[Target[e]] = Gone
        <5>1. store[t][Target[e]] \in AnyNode /\ queue[t].nodes[Target[e]] \in AnyNode
          BY <2>3, <3>1, SoleIsTyped, NodesAreNodes
        <5>2. QED
          BY <3>1, <4>1, <4>2, <5>1
      <4>4. effect[e].before[Target[e]] # Gone
        BY DEF Attempted, Running, UnderWay
      <4>5. QED
        BY <3>1, <4>1, <4>3, <4>4 DEF Catches, Others
    <3>6. QED
      BY <3>2, <3>3, <3>4, <3>5 DEF SavedWith
  <2>6. QED
    BY <2>4, <2>5 DEF SaveInv
<1>2. ASSUME SettleSave(t) PROVE SaveInv(t)'
  <2>1. /\ observed'[t].nodes = document.nodes /\ queue[t] # NoSave
        /\ UNCHANGED <<document, store, effect>>
    BY <1>2, SettleSaveMoves
  <2>2. /\ queue[t].sent => queue'[t] = NoSave
        /\ ~queue[t].sent => queue'[t] # NoSave /\ queue'[t].nodes = queue[t].nodes
                             /\ queue'[t].sent = FALSE
    BY <1>2, SettleSaveMoves, Zenon
  <2>3. (Unsaved(t)' <=> Unsaved(t)) /\ (Queued(t)' => Queued(t) /\ queue'[t].nodes = queue[t].nodes)
    BY <2>1, <2>2, Zenon DEF Unsaved, Queued
  <2>4. View(t)' = View(t)
    BY <2>1, <2>3 DEF View, Unsaved
  <2>5. ShowsSaved(t)'
    BY <2>1, <2>3, <2>4 DEF SaveInv, ShowsSaved, Committing
  <2>6. ASSUME NEW e \in Effect PROVE SavedWith(t, e)'
    <3>1. SavedWith(t, e)
      BY DEF SaveInv
    <3>2. Elsewhere(t, e)'
      BY <2>1, <2>3, <3>1 DEF SavedWith, Elsewhere
    <3>3. StampsCome(t, e)'
      BY <2>1, <2>3, <3>1 DEF SavedWith, StampsCome, Committing
    <3>4. CommitShows(t, e)'
      BY <2>1, <2>3, <3>1 DEF SavedWith, CommitShows, Committing
    <3>5. RollsBack(t, e)'
      BY <2>1, <2>4, <3>1 DEF SavedWith, RollsBack
    <3>6. QED
      BY <3>2, <3>3, <3>4, <3>5 DEF SavedWith
  <2>7. QED
    BY <2>5, <2>6 DEF SaveInv
<1>3. QED
  BY <1>1, <1>2 DEF SavingStep

\* A failed save stays queued; after a reload the tab shows the document.
LEMMA FailAndReloadSave ==
    ASSUME CanvasTypes, NEW t, Sole(t), SaveInv(t), SaveFails(t) \/ ReloadTab(t)
    PROVE  SaveInv(t)'
<1>1. CASE SaveFails(t)
  BY <1>1 DEF SaveFails, SaveInv, ShowsSaved, AllSame, View, Unsaved, Queued, SavedWith, Elsewhere, StampsCome,
              CommitShows, RollsBack, Committing
<1>2. CASE ReloadTab(t)
  <2>1. /\ store'[t] = document.nodes /\ queue'[t] = NoSave
        /\ observed'[t].nodes = document.nodes
        /\ \A e \in Effect : effect'[e].state \notin UnderWay
        /\ document' = document
    BY <1>2, ReloadMoves
  <2>2. ShowsSaved(t)'
    BY <2>1 DEF ShowsSaved, View, Unsaved, Queued, AllSame, Same
  <2>3. ASSUME NEW e \in Effect PROVE SavedWith(t, e)'
    <3>1. Bare(document.nodes, e)
      BY DEF SaveInv, SavedWith, Elsewhere
    <3>2. Elsewhere(t, e)'
      BY <2>1, <3>1 DEF Elsewhere, Queued
    <3>3. StampsCome(t, e)' /\ CommitShows(t, e)' /\ RollsBack(t, e)'
      BY <2>1 DEF StampsCome, CommitShows, RollsBack, Committing, UnderWay
    <3>4. QED
      BY <3>2, <3>3 DEF SavedWith
  <2>4. QED
    BY <2>2, <2>3 DEF SaveInv
<1>3. QED
  BY <1>1, <1>2

\* An effect that is neither under way nor shown to be has nothing to keep.
LEMMA RestIsSaved ==
    ASSUME NEW t, NEW e \in Effect, effect'[e].state \notin UnderWay, Elsewhere(t, e)'
    PROVE  SavedWith(t, e)'
  BY DEF SavedWith, StampsCome, CommitShows, RollsBack, Committing, UnderWay

\* A result that is shown early is queued without it.
LEMMA BeginSaves ==
    ASSUME OneEffect, CanvasTypes, StampInv, NEW t, Sole(t), SaveInv(t), NEW e \in Effect, Begins(t, e)
    PROVE  SaveInv(t)'
<1>1. /\ effect[e].state = "idle"
      /\ effect'[e].state = "waiting" /\ effect'[e].tab = t
      /\ effect'[e].before = store[t] /\ effect'[e].after = Applied(store[t], e)
      /\ store[t][Target[e]] # Gone /\ e \notin store[t][Target[e]].keys
      /\ UNCHANGED <<document, observed, writer>>
  BY BeginSets
<1>2. /\ store'[t] = store[t] \/ store'[t] = Applied(store[t], e)
      /\ Queued(t) \/ store'[t] # store[t] => queue'[t] # NoSave
      /\ queue'[t] # NoSave =>
           /\ queue'[t].nodes = Ordinary(t, store'[t], observed[t].nodes, effect')
           /\ \/ queue'[t].sent = FALSE
              \/ queue'[t].sent = queue[t].sent /\ store'[t] = store[t] /\ Queued(t)
  BY BeginQueues
<1>3. store[t] \in Nodes /\ observed[t].nodes \in Nodes /\ Target[e] \in Node
  BY SoleIsTyped, CanvasAssumption
<1>4. store'[t] \in Nodes /\ \A n \in Node \ {Target[e]} : store'[t][n] = store[t][n]
  BY <1>1, <1>2, <1>3, AppliedIsTyped
<1> DEFINE O == Ordinary(t, store'[t], observed[t].nodes, effect')
<1>5. AllSame(store'[t], O) /\ (Bare(observed[t].nodes, e) => Bare(O, e))
  <2>1. AllSame(store'[t], O)
    BY <1>3, <1>4, OrdinarySame
  <2>2. \A f \in Effect : Bare(observed[t].nodes, f) => Bare(O, f)
    BY <1>3, <1>4, OrdinarySame
  <2>3. QED
    BY <2>1, <2>2
<1> HIDE DEF O
<1>6. /\ CleanAll(observed[t].nodes, e) /\ Wrote(effect'[e], e)
  <2>1. CleanAll(observed[t].nodes, e) /\ ShowsAll(store[t], e)
    BY <1>1, UncommittedIsClean DEF Committed
  <2>2. CleanAll(store[t], e)
    BY <1>1, <2>1 DEF ShowsAll, Shows, CleanAll, Clean
  <2>3. QED
    BY <1>1, <1>3, <2>1, <2>2 DEF Wrote
<1>7. Elsewhere(t, e) /\ \A f \in Effect : f = e
  BY DEF SaveInv, SavedWith, OneEffect
<1>8. ASSUME Unsaved(t)'
      PROVE  /\ View(t)' = queue'[t].nodes /\ ShowsSaved(t)' /\ Bare(queue'[t].nodes, e)
             /\ queue'[t].nodes = Ordinary(t, store'[t], observed[t].nodes, effect')
  <2>1. queue'[t] # NoSave /\ ~queue'[t].sent
    BY <1>8 DEF Unsaved, Queued
  <2>2. View(t)' = queue'[t].nodes
    BY <1>8 DEF View
  <2>3. queue'[t].nodes = Ordinary(t, store'[t], observed[t].nodes, effect')
    BY <1>2, <2>1
  <2>4. AllSame(store'[t], queue'[t].nodes) /\ Bare(queue'[t].nodes, e)
    BY <1>7, <1>5, <2>3 DEF Elsewhere, O
  <2>5. QED
    BY <2>2, <2>3, <2>4 DEF ShowsSaved
<1>9. ASSUME ~Unsaved(t)'
      PROVE  ~Unsaved(t) /\ store'[t] = store[t] /\ View(t)' = document.nodes
  <2>1. queue'[t] # NoSave => queue'[t].sent # FALSE
    BY <1>9, Zenon DEF Unsaved, Queued
  <2>2. store'[t] = store[t]
    <3>1. CASE queue'[t] = NoSave
      BY <1>2, <3>1
    <3>2. CASE queue'[t] # NoSave
      BY <1>2, <2>1, <3>2, Zenon
    <3>3. QED
      BY <3>1, <3>2
  <2>3. Queued(t) => queue'[t] # NoSave /\ queue'[t].sent = queue[t].sent
    BY <1>2, <2>1, Zenon
  <2>4. ~Unsaved(t)
    BY <1>9, <2>3, Zenon DEF Unsaved, Queued
  <2>5. QED
    BY <1>1, <1>9, <2>2, <2>4 DEF View
<1>10. ShowsSaved(t)'
  <2>1. CASE Unsaved(t)'
    BY <1>8, <2>1
  <2>2. CASE ~Unsaved(t)'
    <3>1. \A f \in Effect : ~Committing(f)
      BY <1>1, <1>7 DEF Committing
    <3>2. AllSame(store[t], document.nodes)
      BY <1>9, <2>2, <3>1 DEF SaveInv, ShowsSaved, View
    <3>3. QED
      BY <1>9, <2>2, <3>2 DEF ShowsSaved
  <2>3. QED
    BY <2>1, <2>2
<1>11. Elsewhere(t, e)'
  <2>1. Bare(store'[t], e)
    BY <1>4, <1>7 DEF Elsewhere, Bare
  <2>2. queue'[t] # NoSave => Bare(queue'[t].nodes, e)
    BY <1>2, <1>7, <1>5 DEF Elsewhere, O
  <2>3. QED
    BY <1>1, <1>7, <2>1, <2>2 DEF Elsewhere, Queued
<1>12. RollsBack(t, e)'
  <2> SUFFICES ASSUME e \in store'[t][Target[e]].keys
               PROVE  TakesBack(store'[t][Target[e]], View(t)'[Target[e]], e)
    BY DEF RollsBack
  <2>1. Unsaved(t)'
    BY <1>1, <1>9
  <2>2. View(t)' = Ordinary(t, store'[t], observed[t].nodes, effect')
    BY <1>8, <2>1
  <2>3. QED
    BY <1>1, <1>3, <1>4, <1>6, <2>2, OrdinaryTakesBack DEF UnderWay
<1>13. StampsCome(t, e)' /\ CommitShows(t, e)'
  BY <1>1 DEF StampsCome, CommitShows, Committing
<1>14. SavedWith(t, e)'
  BY <1>11, <1>12, <1>13 DEF SavedWith
<1>15. QED
  BY <1>7, <1>10, <1>14 DEF SaveInv

\* The lock changes nothing.
LEMMA LockSaves ==
    ASSUME CanvasTypes, NEW t, Sole(t), SaveInv(t), NEW e \in Effect, LockStorage(e)
    PROVE  SaveInv(t)'
<1>1. /\ effect[e].state = "waiting" /\ effect'[e].state = "draining"
      /\ \A f \in Effect : f # e => effect'[f] = effect[f]
      /\ UNCHANGED <<document, store, observed, queue>>
  BY LockMoves
<1>2. (View(t)' = View(t)) /\ (Unsaved(t)' <=> Unsaved(t)) /\ (Queued(t)' <=> Queued(t))
  BY <1>1 DEF View, Unsaved, Queued
<1>3. \A f \in Effect : Committing(f)' <=> Committing(f)
  BY <1>1 DEF Committing
<1>4. ShowsSaved(t)'
  BY <1>1, <1>2, <1>3 DEF SaveInv, ShowsSaved
<1>5. ASSUME NEW f \in Effect PROVE SavedWith(t, f)'
  <2>1. SavedWith(t, f)
    BY DEF SaveInv
  <2>2. Elsewhere(t, f)'
    BY <1>1, <1>2, <2>1 DEF SavedWith, Elsewhere
  <2>3. StampsCome(t, f)'
    BY <1>1, <1>2, <1>3, <2>1 DEF SavedWith, StampsCome
  <2>4. CommitShows(t, f)'
    BY <1>1, <1>2, <1>3, <2>1 DEF SavedWith, CommitShows, Committing
  <2>5. RollsBack(t, f)'
    BY <1>1, <1>2, <2>1 DEF SavedWith, RollsBack
  <2>6. QED
    BY <2>2, <2>3, <2>4, <2>5 DEF SavedWith
<1>6. QED
  BY <1>4, <1>5 DEF SaveInv

\* The commit merges with a document that says what the tab shows.
LEMMA CommitSaves ==
    ASSUME OneEffect, CanvasTypes, StampInv, NEW t, Sole(t), SoleReads(t), SaveInv(t),
           NEW e \in Effect, CommitEffect(e)
    PROVE  SaveInv(t)'
<1> DEFINE T == Target[e]
           s == store[t][T]
           d == document.nodes[T]
           b == effect[e].before[T]
           x == document'.nodes[T]
<1>1. /\ ~Queued(t)
      /\ effect[e].state = "draining" /\ effect'[e].state = "written"
      /\ effect'[e].before = effect[e].before
      /\ EffectConflicts(e) = {}
      /\ document' = Rebase(document, effect[e].before, effect[e].after, effect[e].revision)
      /\ UNCHANGED <<store, observed, queue>>
  BY CommitMoves
<1>2. CleanAll(document.nodes, e) /\ Wrote(effect[e], e)
  BY <1>1, UncommittedIsClean DEF Committed, UnderWay
<1>3. /\ T \in Node /\ document \in Stored /\ effect[e].before \in Nodes /\ b # Gone
      /\ effect[e].after = Applied(effect[e].before, e) /\ Clean(b, e) /\ Clean(d, e)
      /\ store[t] \in Nodes
  BY <1>2, SoleIsTyped, CanvasAssumption DEF Wrote, CleanAll
<1>4. /\ \A n \in Node \ {T} : document'.nodes[n] = document.nodes[n]
  BY <1>1, <1>3, CommittedNodes
<1>5. /\ d # Gone /\ x # Gone /\ e \in x.keys /\ Others(d, x)
      /\ d.field["content"] = b.field["content"]
      /\ b.field["content"] # Result(e) /\ x.field["content"] = Result(e)
  BY <1>1, <1>3, CommittedTarget DEF EffectConflicts
<1>6. Elsewhere(t, e) /\ RollsBack(t, e) /\ \A f \in Effect : f = e
  BY DEF SaveInv, SavedWith, OneEffect
<1>7. AllSame(store[t], document.nodes) /\ View(t) = document.nodes /\ ~Unsaved(t)
  <2>1. \A f \in Effect : ~Committing(f)
    BY <1>1, <1>6 DEF Committing
  <2>2. QED
    BY <1>1, <2>1 DEF SaveInv, ShowsSaved, View, Unsaved
<1>8. ~Unsaved(t)' /\ ~Queued(t)' /\ Committing(e)'
  BY <1>1 DEF Unsaved, Queued, Committing
<1>9. s.keys \subseteq {e} /\ s \in AnyNode /\ d \in AnyNode
  BY <1>3, <1>6, NodesAreNodes, NodeIsTyped, GoneHasNoStamp DEF Stored
<1>10. /\ s # Gone
       /\ e \notin s.keys => Others(s, d) /\ s.field["content"] = d.field["content"]
       /\ e \in s.keys => /\ Others(s, d)
                          /\ s.field["content"] # Result(e) => s.field["content"] = d.field["content"]
  <2>1. e \notin s.keys => d.field = s.field
    BY <1>3, <1>7, <1>9 DEF AllSame, Same
  <2>2. s # Gone
    <3>1. DOMAIN Gone.field = {} /\ DOMAIN d.field = Field
      BY <1>5, <1>9, NodeIsTyped DEF Gone
    <3>2. QED
      BY <2>1, <3>1, CanvasAssumption, GoneHasNoStamp
  <2>3. e \in s.keys => TakesBack(s, d, e)
    BY <1>1, <1>6, <1>7 DEF RollsBack
  <2> HIDE DEF s, d
  <2>4. QED
    BY <1>5, <2>1, <2>2, <2>3 DEF TakesBack, Others
<1>11. Catches(b, s, x)
  <2> HIDE DEF s, d, b, x
  <2>1. Others(s, x)
    BY <1>5, <1>10 DEF Others
  <2>2. QED
    BY <1>3, <1>5, <1>10, <2>1 DEF Catches
<1>12. \A n \in Node \ {T} : document'.nodes[n].field = store[t][n].field
  <2>1. \A n \in Node \ {T} : store[t][n].keys = {}
    BY <1>6 DEF Elsewhere, Bare
  <2>2. QED
    BY <1>4, <1>7, <2>1 DEF AllSame, Same
<1>13. CommitShows(t, e)'
  BY <1>1, <1>11, <1>12 DEF CommitShows
<1>14. Elsewhere(t, e)'
  BY <1>1, <1>4, <1>6, <1>8 DEF Elsewhere, Bare, Queued
<1>15. StampsCome(t, e)' /\ RollsBack(t, e)'
  BY <1>1, <1>5, <1>9 DEF StampsCome, RollsBack
<1>16. ShowsSaved(t)'
  BY <1>8 DEF ShowsSaved
<1>17. SavedWith(t, e)'
  BY <1>13, <1>14, <1>15 DEF SavedWith
<1>18. QED
  BY <1>6, <1>16, <1>17 DEF SaveInv

\* What was edited meanwhile is queued anew, with the stamp that was committed.
LEMMA SettleEffectSaves ==
    ASSUME OneEffect, CanvasTypes, NEW t, Sole(t), SoleReads(t), SaveInv(t), NEW e \in Effect,
           SettleEffect(e)
    PROVE  SaveInv(t)'
<1> DEFINE T == Target[e]
           O == Ordinary(t, store[t], document.nodes, effect)
<1>1. /\ effect[e].state = "written" /\ effect'[e].state = "publishing"
      /\ effect'[e].before = effect[e].before
      /\ observed'[t].nodes = document.nodes
      /\ ~Queued(t) => queue'[t] = NoSave
      /\ UNCHANGED <<document, store>>
  BY SettleEffectMoves
<1>2. Queued(t) => queue'[t] # NoSave /\ queue'[t].sent = FALSE /\ queue'[t].nodes = O
  BY SettleEffectMoves
<1>3. SavedWith(t, e) /\ T \in Node /\ \A f \in Effect : f = e
  BY CanvasAssumption DEF SaveInv, OneEffect
<1>4. /\ AllSame(store[t], O) /\ \A f \in Effect : Bare(document.nodes, f) => Bare(O, f)
      /\ \A n \in Node : store[t][n].keys \subseteq document.nodes[n].keys =>
                            store[t][n].keys \subseteq O[n].keys
  BY SoleIsTyped, OrdinarySame
<1> HIDE DEF O
<1>5. CASE Queued(t)
  <2>1. Unsaved(t)' /\ View(t)' = O
    BY <1>2, <1>5 DEF Unsaved, Queued, View
  <2>2. ShowsSaved(t)'
    BY <1>1, <1>4, <2>1 DEF ShowsSaved
  <2>3. Elsewhere(t, e)'
    BY <1>1, <1>2, <1>3, <1>4, <1>5 DEF SavedWith, Elsewhere
  <2>4. StampsCome(t, e)'
    BY <1>1, <1>2, <1>3, <1>4, <1>5 DEF SavedWith, StampsCome, Committing
  <2>5. CommitShows(t, e)' /\ RollsBack(t, e)'
    BY <1>1, <2>1 DEF CommitShows, RollsBack
  <2>6. QED
    BY <1>3, <2>2, <2>3, <2>4, <2>5 DEF SaveInv, SavedWith
<1>6. CASE ~Queued(t)
  <2>1. ~Unsaved(t) /\ ~Unsaved(t)' /\ ~Queued(t)' /\ Committing(e)' /\ Committing(e)
    BY <1>1, <1>6 DEF Unsaved, Queued, Committing
  <2>2. ShowsSaved(t)'
    BY <2>1 DEF ShowsSaved
  <2>3. Elsewhere(t, e)'
    BY <1>1, <1>3, <2>1 DEF SavedWith, Elsewhere
  <2>4. StampsCome(t, e)'
    BY <1>1, <1>3, <2>1 DEF SavedWith, StampsCome
  <2>5. CommitShows(t, e)' /\ RollsBack(t, e)'
    BY <1>1, <1>3, <2>1 DEF SavedWith, CommitShows, RollsBack
  <2>6. QED
    BY <1>3, <2>2, <2>3, <2>4, <2>5 DEF SaveInv, SavedWith
<1>7. QED
  BY <1>5, <1>6

\* A merge has no stamps that both sides lack.
LEMMA RebasedIsBare ==
    ASSUME NEW doc \in Stored, NEW base \in Nodes, NEW local \in Nodes, NEW r \in Nat, NEW e \in Effect,
           Bare(doc.nodes, e), Bare(local, e)
    PROVE  Bare(Rebase(doc, base, local, r).nodes, e)
<1> DEFINE R == Rebase(doc, base, local, r).nodes
<1> SUFFICES ASSUME NEW n \in Node \ {Target[e]} PROVE R[n].keys = {}
  BY DEF Bare
<1>1. base[n] \in AnyNode /\ local[n] \in AnyNode /\ doc.nodes[n] \in AnyNode
      /\ local[n].keys = {} /\ doc.nodes[n].keys = {}
  BY NodesAreNodes DEF Stored, Bare
<1>2. \/ R[n] \in {Gone, doc.nodes[n], local[n]}
      \/ /\ doc.nodes[n] # Gone /\ local[n] # Gone
         /\ R[n] = MergeNode(base[n], local[n], doc.nodes[n])
  BY RebasedIsTyped
<1> HIDE DEF R
<1>3. QED
  BY <1>1, <1>2, MergedIsTyped, GoneHasNoStamp

\* Nodes without stamps that have the same fields are the same.
LEMMA BareNodes ==
    ASSUME NEW x \in AnyNode, NEW y \in AnyNode, x.keys = {}, y.keys = {}, x.field = y.field
    PROVE  x = y
<1>1. DOMAIN Gone.field = {}
  BY DEF Gone
<1>2. \A z \in AnyNode : z # Gone => DOMAIN z.field = Field /\ z = [field |-> z.field, keys |-> z.keys]
  BY NodeIsTyped
<1>3. QED
  BY <1>1, <1>2, CanvasAssumption

\* Without edits the publication shows the document, with edits it is queued.
LEMMA PublishingSaves ==
    ASSUME OneEffect, CanvasTypes, NEW t, Sole(t), SoleReads(t), \A e \in Effect : Attempted(e),
           SaveInv(t), NEW e \in Effect, PublishEffect(e) \/ PublishUndrained(e)
    PROVE  SaveInv(t)'
<1> DEFINE T == Target[e]
           P == Published(e)
           doc == [document EXCEPT !.nodes = store[t]]
<1>1. /\ effect[e].state = "publishing" /\ effect'[e].state = "applied"
      /\ store'[t] = P /\ UNCHANGED document /\ observed'[t].nodes = document.nodes
      /\ Bare(observed'[t].nodes, e) <=> Bare(document.nodes, e)
  <2>1. CASE PublishEffect(e)
    BY <2>1, PublishMoves
  <2>2. CASE PublishUndrained(e)
    <3>1. /\ effect[e].state = "publishing" /\ effect'[e].state = "applied"
          /\ store'[t] = P /\ AllNoted /\ UNCHANGED <<document, observed>>
      BY <2>2, PublishUndrainedMoves
    <3>2. observed[t].nodes = document.nodes
      BY <3>1 DEF SoleReads, ReadsCurrent
    <3>3. QED
      BY <3>1, <3>2
  <2>3. QED
    BY <2>1, <2>2
<1>2. SavedWith(t, e) /\ T \in Node /\ \A f \in Effect : f = e
  BY CanvasAssumption DEF SaveInv, OneEffect
<1>3. /\ effect[e].tab = t /\ effect[e].before \in Nodes /\ effect[e].revision \in Nat
      /\ doc \in Stored /\ doc.nodes = store[t] /\ document.nodes \in Nodes /\ store[t] \in Nodes
  BY <1>1, AttemptIsTyped, SoleEffect, SoleIsTyped DEF Stored
<1>4. P = Rebase(doc, effect[e].before, document.nodes, effect[e].revision).nodes
  BY <1>3 DEF Published
<1>5. P \in Nodes
  BY <1>1, PublishedIsTyped
<1> HIDE DEF doc
<1>6. Bare(P, e)
  BY <1>2, <1>3, <1>4, RebasedIsBare DEF SavedWith, Elsewhere
<1>7. ASSUME PublishUndrained(e) PROVE SaveInv(t)'
  <2>1. /\ queue'[t] # NoSave /\ queue'[t].sent = FALSE
        /\ queue'[t].nodes = Ordinary(t, P, observed[t].nodes, effect')
        /\ UNCHANGED observed
    BY <1>7, PublishUndrainedMoves
  <2>2. observed[t].nodes \in Nodes /\ observed[t].nodes = document.nodes
    BY <1>1, <1>3, <2>1
  <2>3. ShowsSaved(t)' /\ \A f \in Effect : Bare(observed[t].nodes, f) => Bare(queue'[t].nodes, f)
    BY <1>1, <1>5, <2>1, <2>2, Requeued
  <2>4. Elsewhere(t, e)'
    BY <1>1, <1>2, <1>6, <2>2, <2>3 DEF SavedWith, Elsewhere
  <2>5. SavedWith(t, e)'
    BY <1>1, <2>4, RestIsSaved DEF UnderWay
  <2>6. QED
    BY <1>2, <2>3, <2>5 DEF SaveInv
<1>8. ASSUME PublishEffect(e) PROVE SaveInv(t)'
  <2>1. ~Queued(t) /\ queue' = queue
    BY <1>8, PublishMoves
  <2>2. ~Unsaved(t) /\ ~Unsaved(t)' /\ ~Queued(t)' /\ View(t)' = document.nodes
    BY <1>1, <2>1 DEF Unsaved, Queued, View
  <2>3. /\ Catches(effect[e].before[T], store[t][T], document.nodes[T])
        /\ \A n \in Node \ {T} : document.nodes[n].field = store[t][n].field
    BY <1>1, <1>2, <2>2 DEF SavedWith, CommitShows, Committing
  <2>4. P[T].field = document.nodes[T].field
    BY <1>2, <1>3, <1>4, <2>3, CaughtUp
  <2>5. ASSUME NEW n \in Node \ {T} PROVE P[n] = document.nodes[n]
    <3>1. /\ document.nodes[n] \in AnyNode /\ store[t][n] \in AnyNode
          /\ document.nodes[n].keys = {} /\ store[t][n].keys = {}
      BY <1>2, <1>3, NodesAreNodes DEF SavedWith, Elsewhere, Bare
    <3>2. document.nodes[n] = store[t][n]
      BY <2>3, <3>1, BareNodes
    <3>3. QED
      BY <1>3, <1>4, <3>2, AgreedStays
  <2>6. AllSame(P, document.nodes)
    <3>1. \A n \in Node : P[n].field = document.nodes[n].field
      BY <2>4, <2>5
    <3>2. QED
      BY <3>1 DEF AllSame, Same
  <2>7. ShowsSaved(t)'
    BY <1>1, <2>2, <2>6 DEF ShowsSaved
  <2>8. Elsewhere(t, e)'
    BY <1>1, <1>2, <1>6, <2>2 DEF SavedWith, Elsewhere
  <2>9. SavedWith(t, e)'
    BY <1>1, <2>8, RestIsSaved DEF UnderWay
  <2>10. QED
    BY <1>2, <2>7, <2>9 DEF SaveInv
<1>9. QED
  BY <1>7, <1>8

\* What the store falls back to is queued.
LEMMA ConflictSaves ==
    ASSUME OneEffect, CanvasTypes, NEW t, Sole(t), SoleReads(t), SaveInv(t), NEW e \in Effect,
           EffectConflict(e)
    PROVE  SaveInv(t)'
<1> DEFINE s == store'[t]
<1>1. /\ effect[e].state = "draining" /\ effect'[e].state = "idle"
      /\ s = Rebase(document, effect[e].after, store[t], document.revision).nodes
      /\ s \in Nodes /\ observed'[t].nodes = document.nodes /\ UNCHANGED document
  BY ConflictMoves
<1>2. /\ queue'[t] # NoSave /\ queue'[t].sent = FALSE
      /\ queue'[t].nodes = Ordinary(t, s, document.nodes, effect')
  BY ConflictMoves
<1>3. Elsewhere(t, e) /\ \A f \in Effect : f = e
  BY DEF SaveInv, SavedWith, OneEffect
<1>4. effect[e].after \in Nodes /\ document \in Stored /\ document.nodes \in Nodes
      /\ store[t] \in Nodes /\ document.revision \in Nat
  BY <1>1, AttemptIsTyped, SoleIsTyped
<1>5. Bare(s, e)
  BY <1>1, <1>3, <1>4, RebasedIsBare DEF Elsewhere
<1> HIDE DEF s
<1>6. ShowsSaved(t)' /\ \A f \in Effect : Bare(document.nodes, f) => Bare(queue'[t].nodes, f)
  BY <1>1, <1>2, <1>4, Requeued DEF s
<1>7. Elsewhere(t, e)'
  BY <1>1, <1>3, <1>5, <1>6 DEF Elsewhere, s
<1>8. SavedWith(t, e)'
  BY <1>1, <1>7, RestIsSaved DEF UnderWay
<1>9. QED
  BY <1>3, <1>6, <1>8 DEF SaveInv

\* The store falls back to what the document says.
LEMMA FallsBack ==
    ASSUME OneEffect, CanvasTypes, NEW t, Sole(t), NEW e \in Effect, effect[e].tab = t,
           effect[e].state = "draining", Wrote(effect[e], e),
           AllSame(store[t], document.nodes), Elsewhere(t, e),
           e \in store[t][Target[e]].keys =>
                TakesBack(store[t][Target[e]], document.nodes[Target[e]], e)
    PROVE  AllSame(Ordinary(t, store[t], document.nodes, effect), document.nodes)
<1> DEFINE O == Ordinary(t, store[t], document.nodes, effect)
<1>1. store[t] \in Nodes /\ document.nodes \in Nodes /\ Target[e] \in Node /\ "content" \in Field
  BY SoleIsTyped, CanvasAssumption
<1>2. \A n \in Node : Projects(O[n], store[t][n], document.nodes[n], n, t, effect)
  BY <1>1, OrdinaryNode
<1> HIDE DEF O
<1> SUFFICES ASSUME NEW n \in Node PROVE O[n].field = document.nodes[n].field
  BY DEF AllSame, Same, O
<1> DEFINE x == O[n]
           l == store[t][n]
           d == document.nodes[n]
           b == effect[e].before[n]
           a == effect[e].after[n]
<1>3. Projects(x, l, d, n, t, effect) /\ l \in AnyNode /\ d \in AnyNode
  BY <1>1, <1>2, NodesAreNodes
<1>4. l.keys \subseteq d.keys => d.field = l.field
  BY DEF AllSame, Same
<1>5. CASE l.keys \subseteq d.keys
  <2> HIDE DEF x, l, d
  <2>1. QED
    BY <1>3, <1>4, <1>5, GoneHasNoStamp DEF Projects, x, d
<1>6. CASE ~(l.keys \subseteq d.keys)
  <2>1. n = Target[e] /\ e \in l.keys /\ \A f \in l.keys : f = e
    <3>1. l.keys # {} /\ l.keys \in SUBSET Effect
      BY <1>3, <1>6, NodeIsTyped, GoneHasNoStamp
    <3>2. QED
      BY <3>1 DEF Elsewhere, Bare, OneEffect
  <2>2. TakesBack(l, d, e)
    BY <2>1
  <2>3. /\ \A f \in Field \ {"content"} : b.field[f] = a.field[f]
        /\ a.field["content"] = Result(e) /\ b.field["content"] # Result(e)
    BY <2>1, WroteContent
  <2>4. d # Gone => RolledBack(b, a, l, d) = d.field
    <3> SUFFICES ASSUME d # Gone PROVE RolledBack(b, a, l, d) = d.field
      OBVIOUS
    <3>1. d.field \in [Field -> Value]
      BY <1>3, NodeIsTyped
    <3> HIDE DEF a, b, l, d
    <3>2. \A f \in Field :
            (IF b.field[f] = a.field[f] THEN l.field[f]
             ELSE IF l.field[f] = a.field[f] THEN d.field[f] ELSE l.field[f]) = d.field[f]
      BY <2>2, <2>3 DEF TakesBack, Others
    <3>3. QED
      BY <3>1, <3>2 DEF RolledBack
  <2>5. \A f \in Mine(l, t, effect) : f = e
    BY <2>1 DEF Mine
  <2>6. x # Gone => x = d \/ (d # Gone /\ x.field = RolledBack(b, a, l, d))
    <3>1. x # Gone /\ x # d => d # Gone /\ \E f \in Mine(l, t, effect) :
                x.field = RolledBack(effect[f].before[n], effect[f].after[n], l, d)
      BY <1>3, <1>6 DEF Projects
    <3>2. QED
      BY <2>5, <3>1
  <2>7. x = Gone => d = Gone
    BY <1>3, <1>6, GoneHasNoStamp DEF Projects
  <2> HIDE DEF x, d, l, a, b
  <2>8. x.field = d.field
    BY <2>4, <2>6, <2>7
  <2>9. QED
    BY <2>8 DEF x, d
<1>7. QED
  BY <1>5, <1>6

\* A failed effect leaves what is queued, or the document.
LEMMA FailSaves ==
    ASSUME OneEffect, CanvasTypes, StampInv, NEW t, Sole(t), SoleReads(t), SaveInv(t),
           NEW e \in Effect, EffectFails(e)
    PROVE  SaveInv(t)'
<1>1. /\ effect[e].state = "draining" /\ effect'[e].state = "idle"
      /\ observed'[t].nodes = document.nodes
      /\ Queued(t) => Unsaved(t) /\ store'[t] = store[t]
      /\ ~Queued(t) => store'[t] = Ordinary(t, store[t], document.nodes, effect)
      /\ UNCHANGED <<document, queue>>
  BY FailsMoves
<1>2. SavedWith(t, e) /\ \A f \in Effect : f = e
  BY DEF SaveInv, OneEffect
<1>3. /\ View(t)' = View(t) /\ (Queued(t)' <=> Queued(t)) /\ (Unsaved(t)' <=> Unsaved(t))
  BY <1>1 DEF View, Queued, Unsaved
<1>4. AllSame(store[t], View(t))
  <2>1. \A f \in Effect : ~Committing(f)
    BY <1>1, <1>2 DEF Committing
  <2>2. QED
    BY <2>1 DEF SaveInv, ShowsSaved
<1>5. AllSame(store'[t], View(t)) /\ Bare(store'[t], e)
  <2>1. CASE Queued(t)
    BY <1>1, <1>2, <1>4, <2>1 DEF SavedWith, Elsewhere
  <2>2. CASE ~Queued(t)
    <3>1. View(t) = document.nodes
      BY <2>2 DEF View, Unsaved
    <3>2. effect[e].tab = t /\ Wrote(effect[e], e)
      BY <1>1, SoleEffect, UncommittedIsClean DEF Committed, UnderWay
    <3>3. AllSame(Ordinary(t, store[t], document.nodes, effect), document.nodes)
      BY <1>1, <1>2, <1>4, <3>1, <3>2, FallsBack DEF SavedWith, RollsBack
    <3>4. Bare(Ordinary(t, store[t], document.nodes, effect), e)
      <4>1. store[t] \in Nodes /\ document.nodes \in Nodes
        BY SoleIsTyped
      <4>2. \A f \in Effect : Bare(document.nodes, f) =>
                Bare(Ordinary(t, store[t], document.nodes, effect), f)
        BY <4>1, OrdinarySame
      <4>3. QED
        BY <1>2, <4>2 DEF SavedWith, Elsewhere
    <3>5. QED
      BY <1>1, <2>2, <3>1, <3>3, <3>4
  <2>3. QED
    BY <2>1, <2>2
<1>6. ShowsSaved(t)'
  BY <1>3, <1>5 DEF ShowsSaved
<1>7. Elsewhere(t, e)'
  BY <1>1, <1>2, <1>3, <1>5 DEF SavedWith, Elsewhere
<1>8. SavedWith(t, e)'
  BY <1>1, <1>7, RestIsSaved DEF UnderWay
<1>9. QED
  BY <1>2, <1>6, <1>8 DEF SaveInv

\* No step loses an edit.
LEMMA SaveInvStep ==
    ASSUME OneEffect, CanvasTypes, StampInv, NEW t, Sole(t), SoleReads(t),
           \A e \in Effect : Attempted(e), SaveInv(t), [CanvasNext]_canvasVars
    PROVE  SaveInv(t)'
<1>1. CASE EditStep(t)
  BY <1>1, EditSaves
<1>2. CASE SavingStep(t)
  BY <1>2, SavingSaves
<1>3. CASE SaveFails(t) \/ ReloadTab(t)
  BY <1>3, FailAndReloadSave
<1>4. ASSUME NEW e \in Effect, EffectMove(t, e) PROVE SaveInv(t)'
  <2>1. CASE Begins(t, e)
    BY <2>1, BeginSaves
  <2>2. CASE LockStorage(e)
    BY <2>2, LockSaves
  <2>3. CASE CommitEffect(e)
    BY <2>3, CommitSaves
  <2>4. CASE SettleEffect(e)
    BY <2>4, SettleEffectSaves
  <2>5. CASE PublishEffect(e) \/ PublishUndrained(e)
    BY <2>5, PublishingSaves
  <2>6. CASE EffectConflict(e)
    BY <2>6, ConflictSaves
  <2>7. CASE EffectFails(e)
    BY <2>7, FailSaves
  <2>8. QED
    BY <1>4, <2>1, <2>2, <2>3, <2>4, <2>5, <2>6, <2>7 DEF EffectMove
<1>5. CASE UNCHANGED canvasVars
  BY <1>5 DEF canvasVars, SaveInv, ShowsSaved, AllSame, View, Unsaved, Queued, SavedWith, Elsewhere,
              StampsCome, CommitShows, RollsBack, Committing
<1>6. QED
  BY <1>1, <1>2, <1>3, <1>4, <1>5, SoleSteps

\* At first there are none.
LEMMA SaveInvInit == ASSUME CanvasInit, NEW t, Sole(t) PROVE SaveInv(t)
<1> DEFINE N == [n \in Node |-> [field |-> [f \in Field |-> 0], keys |-> {}]]
<1>1. /\ document.nodes = N /\ store[t] = N /\ observed[t].nodes = N /\ queue[t] = NoSave
      /\ \A e \in Effect : effect[e].state \notin UnderWay
  BY DEF CanvasInit, Sole, Idle, UnderWay
<1>2. \A n \in Node : N[n].keys = {}
  OBVIOUS
<1> HIDE DEF N
<1>3. ShowsSaved(t)
  BY <1>1 DEF ShowsSaved, View, Unsaved, Queued, AllSame, Same
<1>4. ASSUME NEW e \in Effect PROVE SavedWith(t, e)
  BY <1>1, <1>2 DEF SavedWith, Elsewhere, Bare, StampsCome, CommitShows, RollsBack, Queued, Committing,
                    UnderWay
<1>5. QED
  BY <1>3, <1>4 DEF SaveInv

\* With a single tab and a single effect, no edit is lost between the two ways to
\* write, however saves and commits interleave, fail and are retried: whenever
\* nothing is queued or under way, the document is what the tab shows, but for a
\* node that shows a result whose commit failed.
THEOREM SoleTabSaves == OneEffect => (CanvasSpec => []SoleTabIsSaved)
<1>1. CASE Node = {} \/ ~OneTab
  <2>1. SoleTabIsSaved
    BY <1>1 DEF SoleTabIsSaved, OneTab
  <2>2. QED
    BY <2>1, PTL
<1>2. ASSUME OneEffect, Node # {}, NEW t \in Tab, Tab = {t}
      PROVE  CanvasSpec => []SoleTabIsSaved
  <2> DEFINE Inv == /\ CanvasTypes /\ StampInv /\ SoleReads(t)
                    /\ (\A e \in Effect : Attempted(e)) /\ SaveInv(t)
  <2>1. Sole(t)
    BY <1>2 DEF Sole
  <2>2. CanvasInit => Inv
    BY <2>1, CanvasTypesInit, StampInit, SoleInit, PresentInit, SaveInvInit DEF NoneMissingInv
  <2>3. Inv /\ [CanvasNext]_canvasVars => Inv'
    BY <1>2, <2>1, CanvasTypesStep, StampStep, SoleReadsStep, AttemptsStay, SaveInvStep
  <2>4. Inv => SoleTabIsSaved
    <3> SUFFICES ASSUME Inv, NEW u \in Tab, NEW n \in Node, ~Queued(u), \A e \in Effect : ~Running(e),
                        store[u][n].keys \subseteq document.nodes[n].keys
                 PROVE  document.nodes[n].field = store[u][n].field
      BY DEF SoleTabIsSaved
    <3>1. u = t
      BY <1>2
    <3>2. View(t) = document.nodes /\ ~Unsaved(t) /\ \A e \in Effect : ~Committing(e)
      BY <3>1 DEF View, Unsaved, Running, UnderWay, Committing
    <3>3. AllSame(store[t], document.nodes)
      BY <3>2 DEF SaveInv, ShowsSaved
    <3>4. QED
      BY <3>1, <3>3 DEF AllSame, Same
  <2> HIDE DEF Inv
  <2>5. QED
    BY <2>2, <2>3, <2>4, PTL DEF CanvasSpec
<1>3. QED
  BY <1>1, <1>2 DEF OneTab
=============================================================================
