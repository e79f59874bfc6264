----------------------- MODULE GenerationEffectsProofs -----------------------
(***************************************************************************)
(* Proofs about GenerationEffects, for any tabs, calls, effects, accounts  *)
(* and bounds: a completed effect has its asset in the library of its own  *)
(* account, nothing that was completed or deleted comes back, and no call  *)
(* works for another account than the active one.                          *)
(***************************************************************************)
EXTENDS GenerationEffects, TLAPS

\* A call has no account until it claims, and then the active one.
ClaimsForScope ==
    \A c \in Consumer :
        /\ consumer[c].at \in {"claiming", "waiting"} => consumer[c].user = NoUser
        /\ consumer[c].at \in {"claimed", "working", "inserting", "inserted", "releasing"}
             => consumer[c].user = scope

\* Nothing runs in a closed tab, and a tab switches the account alone.
ClosedIsQuiet ==
    /\ \A c \in Consumer : Active(c) => open[PageOf[c]]
    /\ \A p, q \in Page : switch[p] # NoUser /\ q # p => ~open[q]

\* The library is locked by a call that is about to write an asset which the
\* user had not deleted when the lock was taken, nor since.
LockedToInsert ==
    \A u \in User, c \in Consumer :
        libraryLock[u] = c =>
            /\ consumer[c].at = "inserting" /\ consumer[c].user = u
            /\ OutcomeOf[c] \notin library[u].deleted

\* What a call has inserted is in the library, unless it was deleted since.
InsertedIsThere ==
    \A c \in Consumer :
        consumer[c].at = "inserted" =>
            OutcomeOf[c] \in library[scope].assets \cup library[scope].deleted

DeletedIsGone == \A u \in User : library[u].assets \cap library[u].deleted = {}

EffectsInv ==
    /\ EffectsTypeOK /\ ClaimsForScope /\ ClosedIsQuiet /\ LockedToInsert
    /\ InsertedIsThere /\ DeletedIsGone /\ CompletedIsDelivered

LEMMA EffectsInvInit == EffectsInit => EffectsInv
  BY EffectsAssumption DEF EffectsInit, EffectsInv, EffectsTypeOK, ClaimsForScope, ClosedIsQuiet,
     LockedToInsert, InsertedIsThere, DeletedIsGone, CompletedIsDelivered, IdleConsumer, NoEffect,
     Active, Inside, Outside

-----------------------------------------------------------------------------
(* What the steps make of a call and of a record.                          *)

CallOfPage == [at : Outside \cup Inside, user : User \cup {NoUser}, fence : Nat,
               aborted : BOOLEAN]
EffectRecord == [state : {"none", "pending", "completed", "released"}, fence : Nat,
                 over : BOOLEAN]

\* At: a call moves on, and nothing else of it or of another call changes.
LEMMA CallMoves ==
    ASSUME EffectsTypeOK, NEW c \in Consumer, NEW at \in Outside \cup Inside, At(c, at)
    PROVE /\ consumer' \in [Consumer -> CallOfPage]
          /\ consumer'[c].at = at
          /\ consumer'[c].user = consumer[c].user
          /\ consumer'[c].fence = consumer[c].fence
          /\ consumer'[c].aborted = consumer[c].aborted
          /\ \A d \in Consumer : d # c => consumer'[d] = consumer[d]
  <1>1. consumer[c] \in CallOfPage
    BY DEF EffectsTypeOK, CallOfPage
  <1>2. [consumer[c] EXCEPT !.at = at] \in CallOfPage
    BY <1>1 DEF CallOfPage
  <1>3. consumer' = [consumer EXCEPT ![c] = [consumer[c] EXCEPT !.at = at]]
    BY DEF At
  <1>4. consumer \in [Consumer -> CallOfPage]
    BY DEF EffectsTypeOK, CallOfPage
  <1>5. consumer' \in [Consumer -> CallOfPage] /\ consumer'[c] = [consumer[c] EXCEPT !.at = at]
    BY <1>2, <1>3, <1>4
  <1>6. QED
    BY <1>1, <1>3, <1>4, <1>5 DEF CallOfPage

\* Another call takes its place.
LEMMA CallReplaced ==
    ASSUME EffectsTypeOK, NEW c \in Consumer, NEW r \in CallOfPage,
           consumer' = [consumer EXCEPT ![c] = r]
    PROVE /\ consumer' \in [Consumer -> CallOfPage]
          /\ consumer'[c] = r
          /\ \A d \in Consumer : d # c => consumer'[d] = consumer[d]
  BY DEF EffectsTypeOK, CallOfPage

\* PutRecord: one record is replaced.
LEMMA RecordPut ==
    ASSUME EffectsTypeOK, NEW u \in User, NEW k \in Outcome, NEW r \in EffectRecord,
           PutRecord(u, k, r)
    PROVE /\ record' \in [User -> [Outcome -> EffectRecord]]
          /\ record'[u][k] = r
          /\ \A v \in User, l \in Outcome : v # u \/ l # k => record'[v][l] = record[v][l]
  <1>1. record \in [User -> [Outcome -> EffectRecord]]
    BY DEF EffectsTypeOK, EffectRecord
  <1>2. [record[u] EXCEPT ![k] = r] \in [Outcome -> EffectRecord]
    BY <1>1
  <1>3. record' = [record EXCEPT ![u] = [record[u] EXCEPT ![k] = r]]
    BY DEF PutRecord
  <1>4. QED
    BY <1>1, <1>2, <1>3

\* A call that neither takes nor holds the lock leaves the locks as they are.
LEMMA LocksKept ==
    ASSUME EffectsInv, NEW c \in Consumer, consumer[c].at # "inserting",
           UNCHANGED <<library, libraryLock>>,
           \A d \in Consumer : d # c => consumer'[d] = consumer[d]
    PROVE LockedToInsert'
  <1>1. ASSUME NEW u \in User, NEW d \in Consumer, libraryLock[u] = d
        PROVE /\ consumer'[d].at = "inserting" /\ consumer'[d].user = u
              /\ OutcomeOf[d] \notin library[u].deleted
    <2>1. /\ consumer[d].at = "inserting" /\ consumer[d].user = u
          /\ OutcomeOf[d] \notin library[u].deleted
      BY <1>1 DEF EffectsInv, LockedToInsert
    <2>2. d # c
      BY <2>1
    <2>3. QED
      BY <2>1, <2>2
  <1>2. QED
    BY <1>1 DEF LockedToInsert

\* No record is completed by the step.
LEMMA DeliveredKept ==
    ASSUME EffectsInv, UNCHANGED library,
           \A u \in User, k \in Outcome :
               record'[u][k].state = "completed" => record[u][k].state = "completed"
    PROVE CompletedIsDelivered'
  BY DEF EffectsInv, CompletedIsDelivered

-----------------------------------------------------------------------------
(* Each step keeps the invariant.                                          *)

\* A new call has no account yet, and its tab is open.
LEMMA BeginConsumerKeeps ==
    ASSUME EffectsInv, NEW c \in Consumer, BeginConsumer(c)
    PROVE EffectsInv'
  <1>1. EffectsTypeOK
    BY DEF EffectsInv
  <1> DEFINE r == [IdleConsumer EXCEPT !.at = "claiming"]
  <1>2. r \in CallOfPage /\ r.at = "claiming" /\ r.user = NoUser
    <2>1. IdleConsumer \in CallOfPage /\ IdleConsumer.user = NoUser
      BY DEF IdleConsumer, CallOfPage, Inside, Outside
    <2>2. QED
      BY <2>1 DEF CallOfPage, Inside, Outside
  <1>3. consumer' = [consumer EXCEPT ![c] = r]
    BY DEF BeginConsumer
  <1> HIDE DEF r
  <1>4. /\ consumer' \in [Consumer -> CallOfPage]
        /\ consumer'[c].at = "claiming" /\ consumer'[c].user = NoUser
        /\ \A d \in Consumer : d # c => consumer'[d] = consumer[d]
    BY <1>2, <1>3, <1>1, CallReplaced
  <1>5. EffectsTypeOK'
    BY <1>4, EffectsAssumption DEF BeginConsumer, EffectsInv, EffectsTypeOK, CallOfPage,
       EffectRecord
  <1>6. ClaimsForScope'
    BY <1>4, EffectsAssumption DEF BeginConsumer, EffectsInv, ClaimsForScope
  <1>7. ClosedIsQuiet'
    BY <1>4, EffectsAssumption DEF BeginConsumer, EffectsInv, ClosedIsQuiet, EffectsTypeOK,
       Active, Inside
  <1>8. LockedToInsert'
    <2>1. consumer[c].at # "inserting" /\ UNCHANGED <<library, libraryLock>>
      BY DEF BeginConsumer, Outside
    <2>2. QED
      BY <2>1, <1>4, LocksKept
  <1>9. InsertedIsThere'
    BY <1>4, EffectsAssumption DEF BeginConsumer, EffectsInv, InsertedIsThere, ClaimsForScope,
       EffectsTypeOK
  <1>10. DeletedIsGone'
    BY <1>4, EffectsAssumption DEF BeginConsumer, EffectsInv, DeletedIsGone, EffectsTypeOK,
       LockedToInsert, ClaimsForScope
  <1>11. CompletedIsDelivered'
    BY <1>4, EffectsAssumption DEF BeginConsumer, EffectsInv, CompletedIsDelivered,
       InsertedIsThere, ClaimsForScope, EffectsTypeOK
  <1>12. QED
    BY <1>5, <1>6, <1>7, <1>8, <1>9, <1>10, <1>11 DEF EffectsInv

\* The record of the active account is claimed, or the call waits or ends.
LEMMA ClaimRecordKeeps ==
    ASSUME EffectsInv, NEW c \in Consumer, ClaimRecord(c)
    PROVE EffectsInv'
  <1>1. EffectsTypeOK
    BY DEF EffectsInv
  <1>2. CASE UNCHANGED record /\ \E at \in {"failed", "done", "waiting"} : At(c, at)
    <2>1. PICK at \in {"failed", "done", "waiting"} : At(c, at)
      BY <1>2
    <2>2. /\ consumer' \in [Consumer -> CallOfPage]
          /\ consumer'[c].at = at /\ consumer'[c].user = consumer[c].user
          /\ \A d \in Consumer : d # c => consumer'[d] = consumer[d]
      BY <1>1, <2>1, CallMoves DEF Inside, Outside
    <2>3. EffectsTypeOK'
      BY <1>2, <2>1, <2>2, EffectsAssumption DEF ClaimRecord, EffectsInv, EffectsTypeOK,
         CallOfPage, EffectRecord
    <2>4. ClaimsForScope'
      BY <1>2, <2>1, <2>2, EffectsAssumption DEF ClaimRecord, EffectsInv, ClaimsForScope
    <2>5. ClosedIsQuiet'
      BY <1>2, <2>1, <2>2, EffectsAssumption DEF ClaimRecord, EffectsInv, ClosedIsQuiet,
         EffectsTypeOK, Active, Inside
    <2>6. LockedToInsert'
      BY <1>2, <2>1, <2>2, EffectsAssumption DEF ClaimRecord, EffectsInv, LockedToInsert,
         ClaimsForScope, EffectsTypeOK
    <2>7. InsertedIsThere'
      BY <1>2, <2>1, <2>2, EffectsAssumption DEF ClaimRecord, EffectsInv, InsertedIsThere,
         ClaimsForScope, EffectsTypeOK
    <2>8. DeletedIsGone'
      BY <1>2, <2>1, <2>2, EffectsAssumption DEF ClaimRecord, EffectsInv, DeletedIsGone,
         EffectsTypeOK, LockedToInsert, ClaimsForScope
    <2>9. CompletedIsDelivered'
      BY <1>2, <2>1, <2>2, EffectsAssumption DEF ClaimRecord, EffectsInv, CompletedIsDelivered,
         InsertedIsThere, ClaimsForScope, EffectsTypeOK
    <2>10. QED
      BY <2>3, <2>4, <2>5, <2>6, <2>7, <2>8, <2>9 DEF EffectsInv
  <1>3. ASSUME record[scope][OutcomeOf[c]].state # "completed",
               PutRecord(scope, OutcomeOf[c],
                         [state |-> "pending", fence |-> record[scope][OutcomeOf[c]].fence + 1,
                          over |-> FALSE]),
               consumer' = [consumer EXCEPT ![c].at = "claimed", ![c].user = scope,
                                            ![c].fence = record[scope][OutcomeOf[c]].fence + 1]
        PROVE EffectsInv'
    <2> DEFINE fence == record[scope][OutcomeOf[c]].fence + 1
    <2> DEFINE r == [consumer[c] EXCEPT !.at = "claimed", !.user = scope, !.fence = fence]
    <2>1. fence \in Nat /\ [state |-> "pending", fence |-> fence, over |-> FALSE] \in EffectRecord
      <3>1. record[scope][OutcomeOf[c]] \in EffectRecord
        BY <1>1, EffectsAssumption DEF EffectsTypeOK, EffectRecord
      <3>2. QED
        BY <3>1 DEF EffectRecord
    <2>2. r \in CallOfPage /\ r.at = "claimed" /\ r.user = scope
      <3>1. consumer[c] \in CallOfPage
        BY <1>1 DEF EffectsTypeOK, CallOfPage
      <3>2. QED
        BY <2>1, <3>1, <1>1 DEF CallOfPage, Inside, Outside, EffectsTypeOK
    <2>3. consumer' = [consumer EXCEPT ![c] = r]
      BY <1>3
    <2> HIDE DEF r, fence
    <2>4. /\ consumer' \in [Consumer -> CallOfPage] /\ consumer'[c] = r
          /\ \A d \in Consumer : d # c => consumer'[d] = consumer[d]
      BY <2>2, <2>3, <1>1, CallReplaced
    <2>5. /\ record' \in [User -> [Outcome -> EffectRecord]]
          /\ record'[scope][OutcomeOf[c]].state = "pending"
          /\ \A v \in User, l \in Outcome :
                v # scope \/ l # OutcomeOf[c] => record'[v][l] = record[v][l]
      <3>1. PutRecord(scope, OutcomeOf[c], [state |-> "pending", fence |-> fence, over |-> FALSE])
        BY <1>3 DEF fence
      <3>2. scope \in User /\ OutcomeOf[c] \in Outcome
        BY <1>1, EffectsAssumption DEF EffectsTypeOK
      <3>3. QED
        BY <2>1, <3>1, <3>2, <1>1, RecordPut
    <2>6. EffectsTypeOK'
      BY <1>3, <2>2, <2>4, <2>5, EffectsAssumption DEF ClaimRecord, EffectsInv,
         EffectsTypeOK, CallOfPage, EffectRecord
    <2>7. ClaimsForScope'
      BY <1>3, <2>2, <2>4, <2>5, EffectsAssumption DEF ClaimRecord, EffectsInv,
         ClaimsForScope
    <2>8. ClosedIsQuiet'
      BY <1>3, <2>2, <2>4, <2>5, EffectsAssumption DEF ClaimRecord, EffectsInv,
         ClosedIsQuiet, EffectsTypeOK, Active, Inside
    <2>9. LockedToInsert'
      BY <1>3, <2>2, <2>4, <2>5, EffectsAssumption DEF ClaimRecord, EffectsInv,
         LockedToInsert, ClaimsForScope, EffectsTypeOK
    <2>10. InsertedIsThere'
      BY <1>3, <2>2, <2>4, <2>5, EffectsAssumption DEF ClaimRecord, EffectsInv,
         InsertedIsThere, ClaimsForScope, EffectsTypeOK
    <2>11. DeletedIsGone'
      BY <1>3, <2>2, <2>4, <2>5, EffectsAssumption DEF ClaimRecord, EffectsInv,
         DeletedIsGone, EffectsTypeOK, LockedToInsert, ClaimsForScope
    <2>12. CompletedIsDelivered'
      <3>1. ASSUME NEW v \in User, NEW l \in Outcome, record'[v][l].state = "completed"
            PROVE record[v][l].state = "completed"
        <4>1. v # scope \/ l # OutcomeOf[c]
          BY <2>5, <3>1
        <4>2. QED
          BY <2>5, <3>1, <4>1
      <3>2. UNCHANGED library
        BY DEF ClaimRecord
      <3>3. QED
        BY <3>1, <3>2, DeliveredKept
    <2>13. QED
      BY <2>6, <2>7, <2>8, <2>9, <2>10, <2>11, <2>12 DEF EffectsInv
  <1>4. QED
    BY <1>2, <1>3 DEF ClaimRecord

\* The claim is answered.
LEMMA TakeClaimKeeps ==
    ASSUME EffectsInv, NEW c \in Consumer, TakeClaim(c)
    PROVE EffectsInv'
  <1>1. EffectsTypeOK
    BY DEF EffectsInv
  <1>2. PICK at \in {"failed", "working"} : At(c, at)
    BY DEF TakeClaim
  <1>3. /\ consumer' \in [Consumer -> CallOfPage]
        /\ consumer'[c].at \in {"failed", "working"} /\ consumer'[c].user = consumer[c].user
        /\ \A d \in Consumer : d # c => consumer'[d] = consumer[d]
    BY <1>1, <1>2, CallMoves DEF Inside, Outside
  <1>4. EffectsTypeOK'
    BY <1>3, EffectsAssumption DEF TakeClaim, EffectsInv, EffectsTypeOK, CallOfPage,
       EffectRecord
  <1>5. ClaimsForScope'
    BY <1>3, EffectsAssumption DEF TakeClaim, EffectsInv, ClaimsForScope
  <1>6. ClosedIsQuiet'
    BY <1>3, EffectsAssumption DEF TakeClaim, EffectsInv, ClosedIsQuiet, EffectsTypeOK, Active,
       Inside
  <1>7. LockedToInsert'
    <2>1. consumer[c].at # "inserting" /\ UNCHANGED <<library, libraryLock>>
      BY DEF TakeClaim, Outside
    <2>2. QED
      BY <2>1, <1>3, LocksKept
  <1>8. InsertedIsThere'
    BY <1>3, EffectsAssumption DEF TakeClaim, EffectsInv, InsertedIsThere, ClaimsForScope,
       EffectsTypeOK
  <1>9. DeletedIsGone'
    BY <1>3, EffectsAssumption DEF TakeClaim, EffectsInv, DeletedIsGone, EffectsTypeOK,
       LockedToInsert, ClaimsForScope
  <1>10. CompletedIsDelivered'
    BY <1>3, EffectsAssumption DEF TakeClaim, EffectsInv, CompletedIsDelivered,
       InsertedIsThere, ClaimsForScope, EffectsTypeOK
  <1>11. QED
    BY <1>4, <1>5, <1>6, <1>7, <1>8, <1>9, <1>10 DEF EffectsInv

\* The call looks at the record again.
LEMMA LookAgainKeeps ==
    ASSUME EffectsInv, NEW c \in Consumer, LookAgain(c)
    PROVE EffectsInv'
  <1>1. EffectsTypeOK
    BY DEF EffectsInv
  <1>2. PICK at \in {"failed", "claiming"} : At(c, at)
    BY DEF LookAgain
  <1>3. /\ consumer' \in [Consumer -> CallOfPage]
        /\ consumer'[c].at \in {"failed", "claiming"} /\ consumer'[c].user = consumer[c].user
        /\ \A d \in Consumer : d # c => consumer'[d] = consumer[d]
    BY <1>1, <1>2, CallMoves DEF Inside, Outside
  <1>4. EffectsTypeOK'
    BY <1>3, EffectsAssumption DEF LookAgain, EffectsInv, EffectsTypeOK, CallOfPage,
       EffectRecord
  <1>5. ClaimsForScope'
    BY <1>3, EffectsAssumption DEF LookAgain, EffectsInv, ClaimsForScope
  <1>6. ClosedIsQuiet'
    BY <1>3, EffectsAssumption DEF LookAgain, EffectsInv, ClosedIsQuiet, EffectsTypeOK, Active,
       Inside
  <1>7. LockedToInsert'
    <2>1. consumer[c].at # "inserting" /\ UNCHANGED <<library, libraryLock>>
      BY DEF LookAgain, Outside
    <2>2. QED
      BY <2>1, <1>3, LocksKept
  <1>8. InsertedIsThere'
    BY <1>3, EffectsAssumption DEF LookAgain, EffectsInv, InsertedIsThere, ClaimsForScope,
       EffectsTypeOK
  <1>9. DeletedIsGone'
    BY <1>3, EffectsAssumption DEF LookAgain, EffectsInv, DeletedIsGone, EffectsTypeOK,
       LockedToInsert, ClaimsForScope
  <1>10. CompletedIsDelivered'
    BY <1>3, EffectsAssumption DEF LookAgain, EffectsInv, CompletedIsDelivered,
       InsertedIsThere, ClaimsForScope, EffectsTypeOK
  <1>11. QED
    BY <1>4, <1>5, <1>6, <1>7, <1>8, <1>9, <1>10 DEF EffectsInv

\* Saved: the queued deletions of the tab are applied under the lock, or, for an
\* aborted call, nothing is.
LEMMA InsertSaves ==
    ASSUME EffectsInv, NEW c \in Consumer, Insert(c)
    PROVE /\ library' \in [User -> [assets : SUBSET Outcome, deleted : SUBSET Outcome]]
          /\ unsaved' \in [Page -> SUBSET Outcome]
          /\ \A v \in User : v # scope => library'[v] = library[v]
          /\ library[scope].deleted \subseteq library'[scope].deleted
          /\ library[scope].assets \subseteq library'[scope].assets \cup library'[scope].deleted
          /\ library'[scope].assets \cap library'[scope].deleted = {}
          /\ ~consumer[c].aborted => library'[scope] = Saved(library[scope], unsaved[PageOf[c]])
  <1>1. EffectsTypeOK
    BY DEF EffectsInv
  <1> DEFINE p == PageOf[c]
  <1> DEFINE doc == Saved(library[scope], unsaved[p])
  <1>2. scope \in User /\ p \in Page
    BY <1>1, EffectsAssumption DEF EffectsTypeOK
  <1>3. library[scope] \in [assets : SUBSET Outcome, deleted : SUBSET Outcome]
        /\ unsaved[p] \in SUBSET Outcome
    BY <1>1, <1>2 DEF EffectsTypeOK
  <1>4. library[scope].assets \cap library[scope].deleted = {}
    BY <1>2 DEF EffectsInv, DeletedIsGone
  <1>5. /\ doc \in [assets : SUBSET Outcome, deleted : SUBSET Outcome]
        /\ doc.assets = library[scope].assets \ unsaved[p]
        /\ doc.deleted = library[scope].deleted \cup unsaved[p]
    BY <1>3 DEF Saved
  <1>6. CASE consumer[c].aborted
    <2>1. UNCHANGED <<library, unsaved>>
      BY <1>6 DEF Insert
    <2>2. QED
      BY <1>1, <1>4, <1>6, <2>1 DEF EffectsTypeOK
  <1>7. CASE ~consumer[c].aborted
    <2>1. library' = [library EXCEPT ![scope] = doc] /\ unsaved' = [unsaved EXCEPT ![p] = {}]
      BY <1>7 DEF Insert
    <2> HIDE DEF doc
    <2>2. /\ library' \in [User -> [assets : SUBSET Outcome, deleted : SUBSET Outcome]]
          /\ unsaved' \in [Page -> SUBSET Outcome]
          /\ \A v \in User : v # scope => library'[v] = library[v]
          /\ library'[scope] = doc
      BY <1>1, <1>2, <1>5, <2>1 DEF EffectsTypeOK
    <2>3. QED
      BY <1>4, <1>5, <2>2 DEF doc
  <1>8. QED
    BY <1>6, <1>7

\* The asset is found, refused, or about to be written under the lock.
LEMMA InsertKeeps ==
    ASSUME EffectsInv, NEW c \in Consumer, Insert(c)
    PROVE EffectsInv'
  <1>1. EffectsTypeOK
    BY DEF EffectsInv
  <1> DEFINE p == PageOf[c]
  <1> DEFINE k == OutcomeOf[c]
  <1> DEFINE doc == Saved(library[scope], unsaved[p])
  <1>2. /\ scope \in User /\ p \in Page /\ k \in Outcome
        /\ consumer[c].at = "working" /\ libraryLock[scope] = Nobody
    BY <1>1, EffectsAssumption DEF Insert, EffectsTypeOK
  \* The library: the deletions of the tab are applied, or nothing is.
  <1>3. /\ library' \in [User -> [assets : SUBSET Outcome, deleted : SUBSET Outcome]]
        /\ unsaved' \in [Page -> SUBSET Outcome]
        /\ \A v \in User : v # scope => library'[v] = library[v]
        /\ library[scope].deleted \subseteq library'[scope].deleted
        /\ library[scope].assets \subseteq library'[scope].assets \cup library'[scope].deleted
        /\ library'[scope].assets \cap library'[scope].deleted = {}
        /\ ~consumer[c].aborted => library'[scope] = doc
    BY InsertSaves
  \* The call: refused, found, or about to write, with the lock.
  <1>4. \/ At(c, "releasing") /\ UNCHANGED <<shelf, broken, libraryLock>>
        \/ /\ At(c, "inserted") /\ k \in library'[scope].assets /\ UNCHANGED libraryLock
           /\ shelf' = [shelf EXCEPT ![p] = @ \cup {k}]
           /\ broken' = [broken EXCEPT ![p] = @ \ {k}]
        \/ /\ At(c, "inserting") /\ k \notin library'[scope].deleted
           /\ libraryLock' = [libraryLock EXCEPT ![scope] = c]
           /\ shelf' = [shelf EXCEPT ![p] = @ \cup {k}] /\ UNCHANGED broken
    BY <1>3 DEF Insert
  <1> HIDE DEF doc
  <1>5. /\ consumer' \in [Consumer -> CallOfPage]
        /\ consumer'[c].user = consumer[c].user
        /\ \A d \in Consumer : d # c => consumer'[d] = consumer[d]
        /\ \/ consumer'[c].at = "releasing" /\ UNCHANGED libraryLock
           \/ /\ consumer'[c].at = "inserted" /\ k \in library'[scope].assets
              /\ UNCHANGED libraryLock
           \/ /\ consumer'[c].at = "inserting" /\ k \notin library'[scope].deleted
              /\ libraryLock' = [libraryLock EXCEPT ![scope] = c]
    <2>1. ASSUME NEW at \in {"releasing", "inserted", "inserting"}, At(c, at)
          PROVE /\ consumer' \in [Consumer -> CallOfPage]
                /\ consumer'[c].at = at /\ consumer'[c].user = consumer[c].user
                /\ \A d \in Consumer : d # c => consumer'[d] = consumer[d]
      BY <1>1, <2>1, CallMoves DEF Inside, Outside
    <2>2. QED
      BY <1>4, <2>1
  <1>6. shelf' \in [Page -> SUBSET Outcome] /\ broken' \in [Page -> SUBSET Outcome]
    <2>1. /\ shelf \in [Page -> SUBSET Outcome] /\ shelf[p] \cup {k} \in SUBSET Outcome
          /\ broken \in [Page -> SUBSET Outcome] /\ broken[p] \ {k} \in SUBSET Outcome
      BY <1>1, <1>2 DEF EffectsTypeOK
    <2>2. /\ shelf' \in {shelf, [shelf EXCEPT ![p] = shelf[p] \cup {k}]}
          /\ broken' \in {broken, [broken EXCEPT ![p] = broken[p] \ {k}]}
      BY <1>4
    <2>3. QED
      BY <2>1, <2>2
  <1>7. UNCHANGED <<record, open, scope, switch, lapses, storageFaults, calls, pageEvents>>
    BY DEF Insert
  <1>8. ClaimsForScope
    BY DEF EffectsInv
  <1> HIDE DEF k, p
  <1>9. EffectsTypeOK'
    <2>1. libraryLock' \in [User -> Consumer \cup {Nobody}]
      BY <1>1, <1>5, <1>2 DEF EffectsTypeOK
    <2>2. QED
      BY <1>1, <1>5, <1>3, <1>6, <1>7, <2>1 DEF EffectsTypeOK, CallOfPage
  <1>10. ClaimsForScope'
    BY <1>5, <1>2, <1>7, <1>8 DEF ClaimsForScope
  <1>11. ClosedIsQuiet'
    BY <1>5, <1>2, <1>7 DEF EffectsInv, ClosedIsQuiet, Active, Inside
  <1>12. LockedToInsert'
    <2>1. ASSUME NEW v \in User, NEW d \in Consumer, libraryLock'[v] = d
          PROVE /\ consumer'[d].at = "inserting" /\ consumer'[d].user = v
                /\ OutcomeOf[d] \notin library'[v].deleted
      <3>1. CASE libraryLock[v] = d
        <4>1. /\ consumer[d].at = "inserting" /\ consumer[d].user = v
              /\ OutcomeOf[d] \notin library[v].deleted
          BY <3>1 DEF EffectsInv, LockedToInsert
        <4>2. d # c /\ v # scope
          BY <1>2, <3>1, <4>1, EffectsAssumption
        <4>3. QED
          BY <1>5, <1>3, <4>1, <4>2
      <3>2. CASE libraryLock[v] # d
        <4>1. /\ v = scope /\ d = c /\ consumer'[c].at = "inserting"
              /\ k \notin library'[scope].deleted
          BY <1>1, <1>5, <1>2, <2>1, <3>2 DEF EffectsTypeOK
        <4>2. consumer'[c].user = scope
          BY <1>5, <1>2, <1>8 DEF ClaimsForScope
        <4>3. QED
          BY <4>1, <4>2 DEF k
      <3>3. QED
        BY <3>1, <3>2
    <2>2. QED
      BY <2>1 DEF LockedToInsert
  <1>13. InsertedIsThere'
    <2>1. ASSUME NEW d \in Consumer, consumer'[d].at = "inserted"
          PROVE OutcomeOf[d] \in library'[scope].assets \cup library'[scope].deleted
      <3>1. CASE d = c
        BY <1>5, <2>1, <3>1 DEF k
      <3>2. CASE d # c
        <4>1. OutcomeOf[d] \in library[scope].assets \cup library[scope].deleted
          BY <1>5, <2>1, <3>2 DEF EffectsInv, InsertedIsThere
        <4>2. QED
          BY <1>3, <4>1
      <3>3. QED
        BY <3>1, <3>2
    <2>2. QED
      BY <2>1, <1>7 DEF InsertedIsThere
  <1>14. DeletedIsGone'
    BY <1>3 DEF EffectsInv, DeletedIsGone
  <1>15. CompletedIsDelivered'
    <2>1. ASSUME NEW v \in User, NEW l \in Outcome, record[v][l].state = "completed"
          PROVE l \in library'[v].assets \cup library'[v].deleted
      <3>1. l \in library[v].assets \cup library[v].deleted
        BY <2>1 DEF EffectsInv, CompletedIsDelivered
      <3>2. QED
        BY <1>3, <3>1
    <2>2. QED
      BY <1>7, <2>1 DEF CompletedIsDelivered
  <1>16. QED
    BY <1>9, <1>10, <1>11, <1>12, <1>13, <1>14, <1>15 DEF EffectsInv

\* The asset goes into the library that the call has locked, that of its account.
LEMMA PersistSaves ==
    ASSUME EffectsInv, NEW c \in Consumer, PersistAsset(c)
    PROVE /\ libraryLock' = [libraryLock EXCEPT ![scope] = Nobody]
          /\ libraryLock[scope] = c
          /\ library' \in [User -> [assets : SUBSET Outcome, deleted : SUBSET Outcome]]
          /\ \A v \in User : v # scope => library'[v] = library[v]
          /\ library'[scope].assets = library[scope].assets \cup {OutcomeOf[c]}
          /\ library'[scope].deleted = library[scope].deleted
  <1>1. EffectsTypeOK
    BY DEF EffectsInv
  <1>2. /\ library' = [library EXCEPT ![scope].assets = @ \cup {OutcomeOf[c]}]
        /\ libraryLock' = [libraryLock EXCEPT ![scope] = Nobody]
        /\ libraryLock[scope] = c
    <2>1. PICK u \in User :
            /\ libraryLock[u] = c
            /\ library' = [library EXCEPT ![u].assets = @ \cup {OutcomeOf[c]}]
            /\ libraryLock' = [libraryLock EXCEPT ![u] = Nobody]
      BY DEF PersistAsset
    <2>2. consumer[c].at = "inserting" /\ consumer[c].user = u
      BY <2>1 DEF EffectsInv, LockedToInsert
    <2>3. u = scope
      BY <2>2 DEF EffectsInv, ClaimsForScope
    <2>4. QED
      BY <2>1, <2>3
  <1>3. /\ library' \in [User -> [assets : SUBSET Outcome, deleted : SUBSET Outcome]]
        /\ \A v \in User : v # scope => library'[v] = library[v]
        /\ library'[scope].assets = library[scope].assets \cup {OutcomeOf[c]}
        /\ library'[scope].deleted = library[scope].deleted
    <2>1. /\ scope \in User /\ OutcomeOf[c] \in Outcome
          /\ library \in [User -> [assets : SUBSET Outcome, deleted : SUBSET Outcome]]
      BY <1>1, EffectsAssumption DEF EffectsTypeOK
    <2> DEFINE doc == [library[scope] EXCEPT !.assets = @ \cup {OutcomeOf[c]}]
    <2>2. /\ doc \in [assets : SUBSET Outcome, deleted : SUBSET Outcome]
          /\ doc.assets = library[scope].assets \cup {OutcomeOf[c]}
          /\ doc.deleted = library[scope].deleted
      BY <2>1
    <2>3. library' = [library EXCEPT ![scope] = doc]
      BY <1>2
    <2> HIDE DEF doc
    <2>4. QED
      BY <2>1, <2>2, <2>3
  <1>4. QED
    BY <1>2, <1>3

\* The asset is in the library of the account of the call, which is the active one.
LEMMA PersistAssetKeeps ==
    ASSUME EffectsInv, NEW c \in Consumer, PersistAsset(c)
    PROVE EffectsInv'
  <1>1. EffectsTypeOK
    BY DEF EffectsInv
  <1>2. PICK at \in {"releasing", "inserted"} : At(c, at)
    BY DEF PersistAsset
  <1>3. /\ consumer' \in [Consumer -> CallOfPage]
        /\ consumer'[c].at = at /\ consumer'[c].user = consumer[c].user
        /\ \A d \in Consumer : d # c => consumer'[d] = consumer[d]
    BY <1>1, <1>2, CallMoves DEF Inside, Outside
  <1>4. /\ libraryLock' = [libraryLock EXCEPT ![scope] = Nobody] /\ libraryLock[scope] = c
        /\ library' \in [User -> [assets : SUBSET Outcome, deleted : SUBSET Outcome]]
        /\ \A v \in User : v # scope => library'[v] = library[v]
        /\ library'[scope].assets = library[scope].assets \cup {OutcomeOf[c]}
        /\ library'[scope].deleted = library[scope].deleted
    BY PersistSaves
  <1>5. broken' \in [Page -> SUBSET Outcome]
    <2>1. broken \in [Page -> SUBSET Outcome]
          /\ broken[PageOf[c]] \ {OutcomeOf[c]} \in SUBSET Outcome
      BY <1>1, EffectsAssumption DEF EffectsTypeOK
    <2>2. broken' \in {broken, [broken EXCEPT ![PageOf[c]] = broken[PageOf[c]] \ {OutcomeOf[c]}]}
      BY DEF PersistAsset
    <2>3. QED
      BY <2>1, <2>2
  <1>6. UNCHANGED <<record, shelf, unsaved, open, scope, switch, lapses, storageFaults, calls,
                    pageEvents>>
    BY DEF PersistAsset
  <1>7. EffectsTypeOK'
    <2>1. libraryLock' \in [User -> Consumer \cup {Nobody}]
      BY <1>1, <1>4 DEF EffectsTypeOK
    <2>2. QED
      BY <1>1, <1>3, <1>4, <1>5, <1>6, <2>1 DEF EffectsTypeOK, CallOfPage
  <1>8. ClaimsForScope'
    BY <1>3, <1>2, <1>4, EffectsAssumption DEF PersistAsset, EffectsInv, ClaimsForScope
  <1>9. ClosedIsQuiet'
    BY <1>3, <1>2, <1>4, EffectsAssumption DEF PersistAsset, EffectsInv, ClosedIsQuiet,
       EffectsTypeOK, Active, Inside
  <1>10. LockedToInsert'
    BY <1>3, <1>2, <1>4, EffectsAssumption DEF PersistAsset, EffectsInv, LockedToInsert,
       ClaimsForScope, EffectsTypeOK
  <1>11. InsertedIsThere'
    <2>1. ASSUME NEW d \in Consumer, consumer'[d].at = "inserted"
          PROVE OutcomeOf[d] \in library'[scope].assets \cup library'[scope].deleted
      <3>1. CASE d = c
        BY <1>4, <3>1
      <3>2. CASE d # c
        <4>1. OutcomeOf[d] \in library[scope].assets \cup library[scope].deleted
          BY <1>3, <2>1, <3>2 DEF EffectsInv, InsertedIsThere
        <4>2. QED
          BY <1>4, <4>1
      <3>3. QED
        BY <3>1, <3>2
    <2>2. QED
      BY <1>6, <2>1 DEF InsertedIsThere
  <1>12. DeletedIsGone'
    BY <1>3, <1>2, <1>4, EffectsAssumption DEF PersistAsset, EffectsInv, DeletedIsGone,
       EffectsTypeOK, LockedToInsert, ClaimsForScope
  <1>13. CompletedIsDelivered'
    BY <1>3, <1>2, <1>4, EffectsAssumption DEF PersistAsset, EffectsInv, CompletedIsDelivered,
       InsertedIsThere, ClaimsForScope, EffectsTypeOK
  <1>14. QED
    BY <1>7, <1>8, <1>9, <1>10, <1>11, <1>12, <1>13 DEF EffectsInv

\* Nothing was written, and the call will not complete its record.
LEMMA PersistFailsKeeps ==
    ASSUME EffectsInv, NEW c \in Consumer, PersistFails(c)
    PROVE EffectsInv'
  <1>1. EffectsTypeOK
    BY DEF EffectsInv
  <1>2. /\ consumer' \in [Consumer -> CallOfPage]
        /\ consumer'[c].at = "releasing" /\ consumer'[c].user = consumer[c].user
        /\ \A d \in Consumer : d # c => consumer'[d] = consumer[d]
    BY <1>1, CallMoves DEF PersistFails, Inside, Outside
  <1>3. EffectsTypeOK'
    <2>1. /\ libraryLock' = [u \in User |-> IF libraryLock[u] = c THEN Nobody ELSE libraryLock[u]]
          /\ UNCHANGED <<record, library, shelf, unsaved, open, scope, switch, lapses, calls,
                         pageEvents>>
      BY DEF PersistFails
    <2>2. libraryLock' \in [User -> Consumer \cup {Nobody}]
      BY <1>1, <2>1 DEF EffectsTypeOK
    <2>3. storageFaults' \in Nat /\ broken' \in [Page -> SUBSET Outcome]
      <3>1. /\ storageFaults \in Nat /\ broken \in [Page -> SUBSET Outcome]
            /\ broken[PageOf[c]] \cup {OutcomeOf[c]} \in SUBSET Outcome
        BY <1>1, EffectsAssumption DEF EffectsTypeOK
      <3>2. /\ storageFaults' \in {storageFaults, storageFaults + 1}
            /\ broken' \in {broken,
                             [broken EXCEPT ![PageOf[c]] = broken[PageOf[c]] \cup {OutcomeOf[c]}]}
        BY DEF PersistFails
      <3>3. QED
        BY <3>1, <3>2
    <2>4. QED
      BY <1>1, <1>2, <2>1, <2>2, <2>3 DEF EffectsTypeOK, CallOfPage
  <1>4. ClaimsForScope'
    BY <1>2, EffectsAssumption DEF PersistFails, EffectsInv, ClaimsForScope
  <1>5. ClosedIsQuiet'
    BY <1>2, EffectsAssumption DEF PersistFails, EffectsInv, ClosedIsQuiet, EffectsTypeOK,
       Active, Inside
  <1>6. LockedToInsert'
    BY <1>2, EffectsAssumption DEF PersistFails, EffectsInv, LockedToInsert, ClaimsForScope,
       EffectsTypeOK
  <1>7. InsertedIsThere'
    BY <1>2, EffectsAssumption DEF PersistFails, EffectsInv, InsertedIsThere, ClaimsForScope,
       EffectsTypeOK
  <1>8. DeletedIsGone'
    BY <1>2, EffectsAssumption DEF PersistFails, EffectsInv, DeletedIsGone, EffectsTypeOK,
       LockedToInsert, ClaimsForScope
  <1>9. CompletedIsDelivered'
    BY <1>2, EffectsAssumption DEF PersistFails, EffectsInv, CompletedIsDelivered,
       InsertedIsThere, ClaimsForScope, EffectsTypeOK
  <1>10. QED
    BY <1>3, <1>4, <1>5, <1>6, <1>7, <1>8, <1>9 DEF EffectsInv

\* An aborted call keeps its place.
LEMMA HeartbeatFailsKeeps ==
    ASSUME EffectsInv, NEW c \in Consumer, HeartbeatFails(c)
    PROVE EffectsInv'
  <1>1. EffectsTypeOK
    BY DEF EffectsInv
  <1> DEFINE r == [consumer[c] EXCEPT !.aborted = TRUE]
  <1>2. /\ consumer' = [consumer EXCEPT ![c] = r] /\ r \in CallOfPage
        /\ r.at = consumer[c].at /\ r.user = consumer[c].user
    <2>1. consumer[c] \in CallOfPage
      BY <1>1 DEF EffectsTypeOK, CallOfPage
    <2>2. QED
      BY <2>1 DEF HeartbeatFails, CallOfPage
  <1> HIDE DEF r
  <1>3. /\ consumer' \in [Consumer -> CallOfPage] /\ consumer'[c] = r
        /\ \A d \in Consumer : d # c => consumer'[d] = consumer[d]
    BY <1>2, <1>1, CallReplaced
  <1>4. EffectsTypeOK'
    BY <1>3, <1>2, EffectsAssumption DEF HeartbeatFails, EffectsInv, EffectsTypeOK, CallOfPage,
       EffectRecord
  <1>5. ClaimsForScope'
    BY <1>3, <1>2, EffectsAssumption DEF HeartbeatFails, EffectsInv, ClaimsForScope
  <1>6. ClosedIsQuiet'
    BY <1>3, <1>2, EffectsAssumption DEF HeartbeatFails, EffectsInv, ClosedIsQuiet,
       EffectsTypeOK, Active, Inside
  <1>7. LockedToInsert'
    BY <1>3, <1>2, EffectsAssumption DEF HeartbeatFails, EffectsInv, LockedToInsert,
       ClaimsForScope, EffectsTypeOK
  <1>8. InsertedIsThere'
    BY <1>3, <1>2, EffectsAssumption DEF HeartbeatFails, EffectsInv, InsertedIsThere,
       ClaimsForScope, EffectsTypeOK
  <1>9. DeletedIsGone'
    BY <1>3, <1>2, EffectsAssumption DEF HeartbeatFails, EffectsInv, DeletedIsGone,
       EffectsTypeOK, LockedToInsert, ClaimsForScope
  <1>10. CompletedIsDelivered'
    BY <1>3, <1>2, EffectsAssumption DEF HeartbeatFails, EffectsInv, CompletedIsDelivered,
       InsertedIsThere, ClaimsForScope, EffectsTypeOK
  <1>11. QED
    BY <1>4, <1>5, <1>6, <1>7, <1>8, <1>9, <1>10 DEF EffectsInv

\* A record is completed by a call that has inserted its asset.
LEMMA CompleteRecordKeeps ==
    ASSUME EffectsInv, NEW c \in Consumer, CompleteRecord(c)
    PROVE EffectsInv'
  <1>1. EffectsTypeOK
    BY DEF EffectsInv
  <1>2. CASE UNCHANGED record /\ At(c, "releasing")
    <2>1. /\ consumer' \in [Consumer -> CallOfPage]
          /\ consumer'[c].at = "releasing" /\ consumer'[c].user = consumer[c].user
          /\ \A d \in Consumer : d # c => consumer'[d] = consumer[d]
      BY <1>1, <1>2, CallMoves DEF Inside, Outside
    <2>2. EffectsTypeOK'
      BY <1>2, <2>1, EffectsAssumption DEF CompleteRecord, EffectsInv, EffectsTypeOK,
         CallOfPage, EffectRecord
    <2>3. ClaimsForScope'
      BY <1>2, <2>1, EffectsAssumption DEF CompleteRecord, EffectsInv, ClaimsForScope
    <2>4. ClosedIsQuiet'
      BY <1>2, <2>1, EffectsAssumption DEF CompleteRecord, EffectsInv, ClosedIsQuiet,
         EffectsTypeOK, Active, Inside
    <2>5. LockedToInsert'
      <3>1. consumer[c].at # "inserting" /\ UNCHANGED <<library, libraryLock>>
        BY DEF CompleteRecord, Outside
      <3>2. QED
        BY <3>1, <2>1, LocksKept
    <2>6. InsertedIsThere'
      BY <1>2, <2>1, EffectsAssumption DEF CompleteRecord, EffectsInv, InsertedIsThere,
         ClaimsForScope, EffectsTypeOK
    <2>7. DeletedIsGone'
      BY <1>2, <2>1, EffectsAssumption DEF CompleteRecord, EffectsInv, DeletedIsGone,
         EffectsTypeOK, LockedToInsert, ClaimsForScope
    <2>8. CompletedIsDelivered'
      BY <1>2, <2>1, EffectsAssumption DEF CompleteRecord, EffectsInv, CompletedIsDelivered,
         InsertedIsThere, ClaimsForScope, EffectsTypeOK
    <2>9. QED
      BY <2>2, <2>3, <2>4, <2>5, <2>6, <2>7, <2>8 DEF EffectsInv
  <1>3. ASSUME At(c, "done"),
               PutRecord(consumer[c].user, OutcomeOf[c],
                         [state |-> "completed", fence |-> consumer[c].fence, over |-> FALSE])
        PROVE EffectsInv'
    <2>1. /\ consumer' \in [Consumer -> CallOfPage]
          /\ consumer'[c].at = "done" /\ consumer'[c].user = consumer[c].user
          /\ \A d \in Consumer : d # c => consumer'[d] = consumer[d]
      BY <1>1, <1>3, CallMoves DEF Inside, Outside
    <2>2. consumer[c].user = scope /\ consumer[c].at = "inserted"
      BY DEF CompleteRecord, EffectsInv, ClaimsForScope
    <2>3. /\ record' \in [User -> [Outcome -> EffectRecord]]
          /\ \A v \in User, l \in Outcome :
                v # scope \/ l # OutcomeOf[c] => record'[v][l] = record[v][l]
      <3>1. [state |-> "completed", fence |-> consumer[c].fence, over |-> FALSE] \in EffectRecord
        BY <1>1, EffectsAssumption DEF EffectsTypeOK, EffectRecord
      <3>2. scope \in User /\ OutcomeOf[c] \in Outcome
        BY <1>1, EffectsAssumption DEF EffectsTypeOK
      <3>3. QED
        BY <1>3, <2>2, <3>1, <3>2, <1>1, RecordPut
    <2>4. EffectsTypeOK'
      BY <2>1, <2>2, <2>3, EffectsAssumption DEF CompleteRecord, EffectsInv, EffectsTypeOK,
         CallOfPage, EffectRecord
    <2>5. ClaimsForScope'
      BY <2>1, <2>2, <2>3, EffectsAssumption DEF CompleteRecord, EffectsInv, ClaimsForScope
    <2>6. ClosedIsQuiet'
      BY <2>1, <2>2, <2>3, EffectsAssumption DEF CompleteRecord, EffectsInv, ClosedIsQuiet,
         EffectsTypeOK, Active, Inside
    <2>7. LockedToInsert'
      <3>1. consumer[c].at # "inserting" /\ UNCHANGED <<library, libraryLock>>
        BY DEF CompleteRecord, Outside
      <3>2. QED
        BY <3>1, <2>1, LocksKept
    <2>8. InsertedIsThere'
      BY <2>1, <2>2, <2>3, EffectsAssumption DEF CompleteRecord, EffectsInv, InsertedIsThere,
         ClaimsForScope, EffectsTypeOK
    <2>9. DeletedIsGone'
      BY <2>1, <2>2, <2>3, EffectsAssumption DEF CompleteRecord, EffectsInv, DeletedIsGone,
         EffectsTypeOK, LockedToInsert, ClaimsForScope
    <2>10. CompletedIsDelivered'
      <3>1. UNCHANGED <<library, scope>>
        BY DEF CompleteRecord
      <3>2. OutcomeOf[c] \in library[scope].assets \cup library[scope].deleted
        BY <2>2 DEF EffectsInv, InsertedIsThere
      <3>3. ASSUME NEW v \in User, NEW l \in Outcome, record'[v][l].state = "completed"
            PROVE l \in library[v].assets \cup library[v].deleted
        <4>1. CASE v = scope /\ l = OutcomeOf[c]
          BY <3>2, <4>1
        <4>2. CASE v # scope \/ l # OutcomeOf[c]
          BY <2>3, <3>3, <4>2 DEF EffectsInv, CompletedIsDelivered
        <4>3. QED
          BY <4>1, <4>2
      <3>4. QED
        BY <3>1, <3>3 DEF CompletedIsDelivered
    <2>11. QED
      BY <2>4, <2>5, <2>6, <2>7, <2>8, <2>9, <2>10 DEF EffectsInv
  <1>4. QED
    BY <1>2, <1>3 DEF CompleteRecord

\* A claim is given back.
LEMMA ReleaseRecordKeeps ==
    ASSUME EffectsInv, NEW c \in Consumer, ReleaseRecord(c)
    PROVE EffectsInv'
  <1>1. EffectsTypeOK
    BY DEF EffectsInv
  <1>2. /\ consumer' \in [Consumer -> CallOfPage]
        /\ consumer'[c].at = "failed" /\ consumer'[c].user = consumer[c].user
        /\ \A d \in Consumer : d # c => consumer'[d] = consumer[d]
    BY <1>1, CallMoves DEF ReleaseRecord, Inside, Outside
  <1>3. /\ record' \in [User -> [Outcome -> EffectRecord]]
        /\ \A v \in User, l \in Outcome :
              record'[v][l].state = "completed" => record[v][l].state = "completed"
    <2>1. CASE UNCHANGED record
      BY <1>1, <2>1 DEF EffectsTypeOK, EffectRecord
    <2>2. ASSUME PutRecord(consumer[c].user, OutcomeOf[c],
                           [state |-> "released", fence |-> consumer[c].fence, over |-> FALSE])
          PROVE /\ record' \in [User -> [Outcome -> EffectRecord]]
                /\ \A v \in User, l \in Outcome :
                      record'[v][l].state = "completed" => record[v][l].state = "completed"
      <3>1. [state |-> "released", fence |-> consumer[c].fence, over |-> FALSE] \in EffectRecord
        BY <1>1, EffectsAssumption DEF EffectsTypeOK, EffectRecord
      <3>2. consumer[c].user \in User /\ OutcomeOf[c] \in Outcome
        BY EffectsAssumption DEF ReleaseRecord, EffectsInv, EffectsTypeOK, ClaimsForScope
      <3>3. /\ record' \in [User -> [Outcome -> EffectRecord]]
            /\ record'[consumer[c].user][OutcomeOf[c]].state = "released"
            /\ \A v \in User, l \in Outcome :
                  v # consumer[c].user \/ l # OutcomeOf[c] => record'[v][l] = record[v][l]
        BY <2>2, <3>1, <3>2, <1>1, RecordPut
      <3>4. QED
        BY <3>3
    <2>3. QED
      BY <2>1, <2>2 DEF ReleaseRecord
  <1>4. EffectsTypeOK'
    BY <1>2, <1>3, EffectsAssumption DEF ReleaseRecord, EffectsInv, EffectsTypeOK, CallOfPage,
       EffectRecord
  <1>5. ClaimsForScope'
    BY <1>2, <1>3, EffectsAssumption DEF ReleaseRecord, EffectsInv, ClaimsForScope
  <1>6. ClosedIsQuiet'
    BY <1>2, <1>3, EffectsAssumption DEF ReleaseRecord, EffectsInv, ClosedIsQuiet,
       EffectsTypeOK, Active, Inside
  <1>7. LockedToInsert'
    <2>1. consumer[c].at # "inserting" /\ UNCHANGED <<library, libraryLock>>
      BY DEF ReleaseRecord, Outside
    <2>2. QED
      BY <2>1, <1>2, LocksKept
  <1>8. InsertedIsThere'
    BY <1>2, <1>3, EffectsAssumption DEF ReleaseRecord, EffectsInv, InsertedIsThere,
       ClaimsForScope, EffectsTypeOK
  <1>9. DeletedIsGone'
    BY <1>2, <1>3, EffectsAssumption DEF ReleaseRecord, EffectsInv, DeletedIsGone,
       EffectsTypeOK, LockedToInsert, ClaimsForScope
  <1>10. CompletedIsDelivered'
    BY <1>2, <1>3, EffectsAssumption DEF ReleaseRecord, EffectsInv, CompletedIsDelivered,
       InsertedIsThere, ClaimsForScope, EffectsTypeOK
  <1>11. QED
    BY <1>4, <1>5, <1>6, <1>7, <1>8, <1>9, <1>10 DEF EffectsInv

\* A lease that runs out leaves its record open.
LEMMA RecordLapsesKeeps ==
    ASSUME EffectsInv, NEW u \in User, NEW k \in Outcome, RecordLapses(u, k)
    PROVE EffectsInv'
  <1>1. EffectsTypeOK
    BY DEF EffectsInv
  <1>2. /\ record' \in [User -> [Outcome -> EffectRecord]]
        /\ record'[u][k].state = "pending"
        /\ \A v \in User, l \in Outcome : v # u \/ l # k => record'[v][l] = record[v][l]
    <2>1. record[u][k] \in EffectRecord
      BY <1>1, EffectsAssumption DEF EffectsTypeOK, EffectRecord
    <2>2. /\ [record[u][k] EXCEPT !.over = TRUE] \in EffectRecord
          /\ [record[u][k] EXCEPT !.over = TRUE].state = record[u][k].state
      BY <2>1 DEF EffectRecord
    <2>3. PutRecord(u, k, [record[u][k] EXCEPT !.over = TRUE]) /\ record[u][k].state = "pending"
      BY DEF RecordLapses
    <2>4. QED
      BY <2>2, <2>3, <1>1, RecordPut
  <1>3. EffectsTypeOK'
    BY <1>2, EffectsAssumption DEF RecordLapses, EffectsInv, EffectsTypeOK, CallOfPage,
       EffectRecord
  <1>4. ClaimsForScope'
    BY <1>2, EffectsAssumption DEF RecordLapses, EffectsInv, ClaimsForScope
  <1>5. ClosedIsQuiet'
    BY <1>2, EffectsAssumption DEF RecordLapses, EffectsInv, ClosedIsQuiet, EffectsTypeOK,
       Active, Inside
  <1>6. LockedToInsert'
    BY <1>2, EffectsAssumption DEF RecordLapses, EffectsInv, LockedToInsert, ClaimsForScope,
       EffectsTypeOK
  <1>7. InsertedIsThere'
    BY <1>2, EffectsAssumption DEF RecordLapses, EffectsInv, InsertedIsThere, ClaimsForScope,
       EffectsTypeOK
  <1>8. DeletedIsGone'
    BY <1>2, EffectsAssumption DEF RecordLapses, EffectsInv, DeletedIsGone, EffectsTypeOK,
       LockedToInsert, ClaimsForScope
  <1>9. CompletedIsDelivered'
    <2>1. ASSUME NEW v \in User, NEW l \in Outcome, record'[v][l].state = "completed"
          PROVE record[v][l].state = "completed"
      <3>1. v # u \/ l # k
        BY <1>2, <2>1
      <3>2. QED
        BY <1>2, <2>1, <3>1
    <2>2. UNCHANGED library
      BY DEF RecordLapses
    <2>3. QED
      BY <2>1, <2>2, DeliveredKept
  <1>10. QED
    BY <1>3, <1>4, <1>5, <1>6, <1>7, <1>8, <1>9 DEF EffectsInv

\* A deletion is queued.
LEMMA DeleteAssetKeeps ==
    ASSUME EffectsInv, NEW p \in Page, NEW k \in Outcome, DeleteAsset(p, k)
    PROVE EffectsInv'
  <1>1. EffectsTypeOK
    BY DEF EffectsInv
  <1>2. EffectsTypeOK'
    BY EffectsAssumption DEF DeleteAsset, EffectsInv, EffectsTypeOK, CallOfPage, EffectRecord
  <1>3. ClaimsForScope'
    BY EffectsAssumption DEF DeleteAsset, EffectsInv, ClaimsForScope
  <1>4. ClosedIsQuiet'
    BY EffectsAssumption DEF DeleteAsset, EffectsInv, ClosedIsQuiet, EffectsTypeOK, Active,
       Inside
  <1>5. LockedToInsert'
    BY EffectsAssumption DEF DeleteAsset, EffectsInv, LockedToInsert, ClaimsForScope,
       EffectsTypeOK
  <1>6. InsertedIsThere'
    BY EffectsAssumption DEF DeleteAsset, EffectsInv, InsertedIsThere, ClaimsForScope,
       EffectsTypeOK
  <1>7. DeletedIsGone'
    BY EffectsAssumption DEF DeleteAsset, EffectsInv, DeletedIsGone, EffectsTypeOK,
       LockedToInsert, ClaimsForScope
  <1>8. CompletedIsDelivered'
    BY EffectsAssumption DEF DeleteAsset, EffectsInv, CompletedIsDelivered, InsertedIsThere,
       ClaimsForScope, EffectsTypeOK
  <1>9. QED
    BY <1>2, <1>3, <1>4, <1>5, <1>6, <1>7, <1>8 DEF EffectsInv

\* Queued deletions are written while nobody inserts.
LEMMA SaveShelfKeeps ==
    ASSUME EffectsInv, NEW p \in Page, SaveShelf(p)
    PROVE EffectsInv'
  <1>1. EffectsTypeOK
    BY DEF EffectsInv
  <1>2. EffectsTypeOK'
    BY EffectsAssumption DEF SaveShelf, Saved, EffectsInv, EffectsTypeOK, CallOfPage,
       EffectRecord
  <1>3. ClaimsForScope'
    BY EffectsAssumption DEF SaveShelf, Saved, EffectsInv, ClaimsForScope
  <1>4. ClosedIsQuiet'
    BY EffectsAssumption DEF SaveShelf, Saved, EffectsInv, ClosedIsQuiet, EffectsTypeOK,
       Active, Inside
  <1>5. LockedToInsert'
    BY EffectsAssumption DEF SaveShelf, Saved, EffectsInv, LockedToInsert, ClaimsForScope,
       EffectsTypeOK
  <1>6. InsertedIsThere'
    BY EffectsAssumption DEF SaveShelf, Saved, EffectsInv, InsertedIsThere, ClaimsForScope,
       EffectsTypeOK
  <1>7. DeletedIsGone'
    BY EffectsAssumption DEF SaveShelf, Saved, EffectsInv, DeletedIsGone, EffectsTypeOK,
       LockedToInsert, ClaimsForScope
  <1>8. CompletedIsDelivered'
    BY EffectsAssumption DEF SaveShelf, Saved, EffectsInv, CompletedIsDelivered,
       InsertedIsThere, ClaimsForScope, EffectsTypeOK
  <1>9. QED
    BY <1>2, <1>3, <1>4, <1>5, <1>6, <1>7, <1>8 DEF EffectsInv

\* The calls of the tab are aborted where they are.
LEMMA BeginSwitchKeeps ==
    ASSUME EffectsInv, NEW p \in Page, NEW u \in User, BeginSwitch(p, u)
    PROVE EffectsInv'
  <1>1. EffectsTypeOK
    BY DEF EffectsInv
  <1>2. /\ consumer' \in [Consumer -> CallOfPage]
        /\ \A c \in Consumer :
              consumer'[c].at = consumer[c].at /\ consumer'[c].user = consumer[c].user
    <2>1. ASSUME NEW c \in Consumer
          PROVE /\ consumer'[c] \in CallOfPage
                /\ consumer'[c].at = consumer[c].at /\ consumer'[c].user = consumer[c].user
      <3>1. consumer[c] \in CallOfPage
        BY <1>1 DEF EffectsTypeOK, CallOfPage
      <3>2. /\ [consumer[c] EXCEPT !.aborted = TRUE] \in CallOfPage
            /\ [consumer[c] EXCEPT !.aborted = TRUE].at = consumer[c].at
            /\ [consumer[c] EXCEPT !.aborted = TRUE].user = consumer[c].user
        BY <3>1 DEF CallOfPage
      <3>3. consumer'[c] \in {consumer[c], [consumer[c] EXCEPT !.aborted = TRUE]}
        BY DEF BeginSwitch
      <3>4. QED
        BY <3>1, <3>2, <3>3
    <2>2. consumer' = [c \in Consumer |-> consumer'[c]]
      BY DEF BeginSwitch
    <2>3. QED
      BY <2>1, <2>2
  <1>3. EffectsTypeOK'
    BY <1>2, EffectsAssumption DEF BeginSwitch, EffectsInv, EffectsTypeOK, CallOfPage,
       EffectRecord
  <1>4. ClaimsForScope'
    BY <1>2, EffectsAssumption DEF BeginSwitch, EffectsInv, ClaimsForScope
  <1>5. ClosedIsQuiet'
    BY <1>2, EffectsAssumption DEF BeginSwitch, EffectsInv, ClosedIsQuiet, EffectsTypeOK,
       Active, Inside
  <1>6. LockedToInsert'
    BY <1>2, EffectsAssumption DEF BeginSwitch, EffectsInv, LockedToInsert, ClaimsForScope,
       EffectsTypeOK
  <1>7. InsertedIsThere'
    BY <1>2, EffectsAssumption DEF BeginSwitch, EffectsInv, InsertedIsThere, ClaimsForScope,
       EffectsTypeOK
  <1>8. DeletedIsGone'
    BY <1>2, EffectsAssumption DEF BeginSwitch, EffectsInv, DeletedIsGone, EffectsTypeOK,
       LockedToInsert, ClaimsForScope
  <1>9. CompletedIsDelivered'
    BY <1>2, EffectsAssumption DEF BeginSwitch, EffectsInv, CompletedIsDelivered,
       InsertedIsThere, ClaimsForScope, EffectsTypeOK
  <1>10. QED
    BY <1>3, <1>4, <1>5, <1>6, <1>7, <1>8, <1>9 DEF EffectsInv

\* The account changes when no call of any tab is left.
LEMMA SwitchUserKeeps ==
    ASSUME EffectsInv, NEW p \in Page, SwitchUser(p)
    PROVE EffectsInv'
  <1>1. EffectsTypeOK
    BY DEF EffectsInv
  <1>2. ASSUME NEW c \in Consumer PROVE ~Active(c)
    <2>1. PageOf[c] \in Page
      BY EffectsAssumption
    <2>2. CASE PageOf[c] = p
      BY <2>2 DEF SwitchUser
    <2>3. CASE PageOf[c] # p
      BY <2>1, <2>3 DEF SwitchUser, EffectsInv, ClosedIsQuiet
    <2>4. QED
      BY <2>2, <2>3
  <1>3. EffectsTypeOK'
    BY EffectsAssumption DEF SwitchUser, EffectsInv, EffectsTypeOK, CallOfPage, EffectRecord
  <1>4. ClaimsForScope'
    BY <1>2 DEF SwitchUser, ClaimsForScope, Active, Inside
  <1>5. ClosedIsQuiet'
    BY EffectsAssumption DEF SwitchUser, EffectsInv, ClosedIsQuiet, EffectsTypeOK, Active,
       Inside
  <1>6. LockedToInsert'
    BY EffectsAssumption DEF SwitchUser, EffectsInv, LockedToInsert, ClaimsForScope,
       EffectsTypeOK
  <1>7. InsertedIsThere'
    BY <1>2 DEF SwitchUser, InsertedIsThere, Active, Inside
  <1>8. DeletedIsGone'
    BY EffectsAssumption DEF SwitchUser, EffectsInv, DeletedIsGone, EffectsTypeOK,
       LockedToInsert, ClaimsForScope
  <1>9. CompletedIsDelivered'
    BY EffectsAssumption DEF SwitchUser, EffectsInv, CompletedIsDelivered, InsertedIsThere,
       ClaimsForScope, EffectsTypeOK
  <1>10. QED
    BY <1>3, <1>4, <1>5, <1>6, <1>7, <1>8, <1>9 DEF EffectsInv

\* The calls of a closed tab are gone, and the locks they held.
LEMMA ClosePageKeeps ==
    ASSUME EffectsInv, NEW p \in Page, ClosePage(p)
    PROVE EffectsInv'
  <1>1. EffectsTypeOK
    BY DEF EffectsInv
  <1>2. EffectsTypeOK'
    <2>1. IdleConsumer \in CallOfPage
      BY DEF IdleConsumer, CallOfPage, Inside, Outside
    <2>2. consumer' \in [Consumer -> CallOfPage]
      BY <1>1, <2>1 DEF ClosePage, EffectsTypeOK, CallOfPage
    <2>3. libraryLock' \in [User -> Consumer \cup {Nobody}]
      BY <1>1 DEF ClosePage, EffectsTypeOK
    <2>4. /\ open' \in [Page -> BOOLEAN] /\ switch' \in [Page -> User \cup {NoUser}]
          /\ shelf' \in [Page -> SUBSET Outcome] /\ unsaved' \in [Page -> SUBSET Outcome]
          /\ broken' \in [Page -> SUBSET Outcome]
      BY <1>1 DEF ClosePage, EffectsTypeOK
    <2>5. pageEvents' \in Nat
      BY <1>1 DEF ClosePage, EffectsTypeOK
    <2>6. QED
      BY <1>1, <2>2, <2>3, <2>4, <2>5 DEF ClosePage, EffectsTypeOK, CallOfPage
  <1>3. ClaimsForScope'
    BY EffectsAssumption DEF ClosePage, IdleConsumer, EffectsInv, ClaimsForScope
  <1>4. ClosedIsQuiet'
    BY EffectsAssumption DEF ClosePage, IdleConsumer, EffectsInv, ClosedIsQuiet, EffectsTypeOK,
       Active, Inside
  <1>5. LockedToInsert'
    BY EffectsAssumption DEF ClosePage, IdleConsumer, EffectsInv, LockedToInsert,
       ClaimsForScope, EffectsTypeOK
  <1>6. InsertedIsThere'
    BY EffectsAssumption DEF ClosePage, IdleConsumer, EffectsInv, InsertedIsThere,
       ClaimsForScope, EffectsTypeOK
  <1>7. DeletedIsGone'
    BY EffectsAssumption DEF ClosePage, IdleConsumer, EffectsInv, DeletedIsGone, EffectsTypeOK,
       LockedToInsert, ClaimsForScope
  <1>8. CompletedIsDelivered'
    BY EffectsAssumption DEF ClosePage, IdleConsumer, EffectsInv, CompletedIsDelivered,
       InsertedIsThere, ClaimsForScope, EffectsTypeOK
  <1>9. QED
    BY <1>2, <1>3, <1>4, <1>5, <1>6, <1>7, <1>8 DEF EffectsInv

\* A tab that opens has no calls.
LEMMA OpenPageKeeps ==
    ASSUME EffectsInv, NEW p \in Page, OpenPage(p)
    PROVE EffectsInv'
  <1>1. EffectsTypeOK
    BY DEF EffectsInv
  <1>2. EffectsTypeOK'
    BY EffectsAssumption DEF OpenPage, EffectsInv, EffectsTypeOK, CallOfPage, EffectRecord
  <1>3. ClaimsForScope'
    BY EffectsAssumption DEF OpenPage, EffectsInv, ClaimsForScope
  <1>4. ClosedIsQuiet'
    BY EffectsAssumption DEF OpenPage, EffectsInv, ClosedIsQuiet, EffectsTypeOK, Active, Inside
  <1>5. LockedToInsert'
    BY EffectsAssumption DEF OpenPage, EffectsInv, LockedToInsert, ClaimsForScope,
       EffectsTypeOK
  <1>6. InsertedIsThere'
    BY EffectsAssumption DEF OpenPage, EffectsInv, InsertedIsThere, ClaimsForScope,
       EffectsTypeOK
  <1>7. DeletedIsGone'
    BY EffectsAssumption DEF OpenPage, EffectsInv, DeletedIsGone, EffectsTypeOK,
       LockedToInsert, ClaimsForScope
  <1>8. CompletedIsDelivered'
    BY EffectsAssumption DEF OpenPage, EffectsInv, CompletedIsDelivered, InsertedIsThere,
       ClaimsForScope, EffectsTypeOK
  <1>9. QED
    BY <1>2, <1>3, <1>4, <1>5, <1>6, <1>7, <1>8 DEF EffectsInv

-----------------------------------------------------------------------------
LEMMA EffectsInvStep == EffectsInv /\ [EffectsNext]_effectsVars => EffectsInv'
  <1> SUFFICES ASSUME EffectsInv, [EffectsNext]_effectsVars PROVE EffectsInv'
    OBVIOUS
  <1>1. ASSUME NEW c \in Consumer, ConsumerStep(c) PROVE EffectsInv'
    BY <1>1, ClaimRecordKeeps, TakeClaimKeeps, LookAgainKeeps, InsertKeeps, PersistAssetKeeps,
       CompleteRecordKeeps, ReleaseRecordKeeps DEF ConsumerStep
  <1>2. CASE UNCHANGED effectsVars
    BY <1>2 DEF effectsVars, EffectsInv, EffectsTypeOK, ClaimsForScope, ClosedIsQuiet,
       LockedToInsert, InsertedIsThere, DeletedIsGone, CompletedIsDelivered, Active
  <1>3. QED
    BY <1>1, <1>2, BeginConsumerKeeps, PersistFailsKeeps, HeartbeatFailsKeeps, RecordLapsesKeeps,
       DeleteAssetKeeps, SaveShelfKeeps, BeginSwitchKeeps, SwitchUserKeeps, ClosePageKeeps,
       OpenPageKeeps DEF EffectsNext

LEMMA EffectsInvHolds == EffectsSpec => []EffectsInv
  BY EffectsInvInit, EffectsInvStep, PTL DEF EffectsSpec

\* Records, libraries, locks and calls stay well formed.
THEOREM EffectsTypeCorrect == EffectsSpec => []EffectsTypeOK
  BY EffectsInvHolds, PTL DEF EffectsInv

\* complete: whatever is aborted, fails, lapses, is deleted, closed or switched,
\* an effect that is recorded as completed has put its asset into the library of
\* its account, where only the user has taken it out.
THEOREM CompletedWasDelivered == EffectsSpec => []CompletedIsDelivered
  BY EffectsInvHolds, PTL DEF EffectsInv

\* runGenerationConsumer and withGenerationConsumersPaused: a call that has an
\* account has the active one.
THEOREM CallsWorkForScope == EffectsSpec => []WorkStaysInAccount
  <1>1. EffectsInv => WorkStaysInAccount
    BY DEF EffectsInv, ClaimsForScope, WorkStaysInAccount, Active, Inside
  <1>2. QED
    BY <1>1, EffectsInvHolds, PTL

-----------------------------------------------------------------------------
(* What is done stays done.                                                *)

\* No step writes a completed record: a claim, a completion, a release and a
\* lapse all ask for a record that is not completed.
LEMMA RecordStays ==
    ASSUME EffectsInv, [EffectsNext]_effectsVars, NEW u \in User, NEW k \in Outcome,
           record[u][k].state = "completed"
    PROVE record'[u][k] = record[u][k]
  <1>1. EffectsTypeOK
    BY DEF EffectsInv
  <1>2. ASSUME NEW v \in User, NEW l \in Outcome, NEW r \in EffectRecord, PutRecord(v, l, r),
               record[v][l].state # "completed"
        PROVE record'[u][k] = record[u][k]
    <2>1. \A w \in User, m \in Outcome : w # v \/ m # l => record'[w][m] = record[w][m]
      BY <1>1, <1>2, RecordPut
    <2>2. u # v \/ k # l
      BY <1>2
    <2>3. QED
      BY <2>1, <2>2
  <1>3. ASSUME NEW c \in Consumer PROVE OutcomeOf[c] \in Outcome /\ consumer[c] \in CallOfPage
    BY <1>1, EffectsAssumption DEF EffectsTypeOK, CallOfPage
  <1>4. ASSUME NEW c \in Consumer, ClaimRecord(c) PROVE record'[u][k] = record[u][k]
    <2>1. CASE UNCHANGED record
      BY <2>1
    <2> DEFINE r == [state |-> "pending", fence |-> record[scope][OutcomeOf[c]].fence + 1,
                     over |-> FALSE]
    <2>2. CASE PutRecord(scope, OutcomeOf[c], r) /\ record[scope][OutcomeOf[c]].state # "completed"
      <3>1. scope \in User /\ record[scope][OutcomeOf[c]] \in EffectRecord
        BY <1>1, <1>3 DEF EffectsTypeOK, EffectRecord
      <3>2. r \in EffectRecord
        BY <3>1 DEF EffectRecord
      <3>3. QED
        BY <1>2, <1>3, <2>2, <3>1, <3>2
    <2>3. QED
      BY <1>4, <2>1, <2>2 DEF ClaimRecord
  <1>5. ASSUME NEW c \in Consumer, CompleteRecord(c) \/ ReleaseRecord(c)
        PROVE record'[u][k] = record[u][k]
    <2>1. CASE UNCHANGED record
      BY <2>1
    <2>2. ASSUME NEW state \in {"completed", "released"}, Owns(c),
                 PutRecord(consumer[c].user, OutcomeOf[c],
                           [state |-> state, fence |-> consumer[c].fence, over |-> FALSE])
          PROVE record'[u][k] = record[u][k]
      <3>1. consumer[c].user \in User
        BY <1>5, <1>1 DEF CompleteRecord, ReleaseRecord, EffectsInv, ClaimsForScope, EffectsTypeOK
      <3>2. [state |-> state, fence |-> consumer[c].fence, over |-> FALSE] \in EffectRecord
        BY <1>3 DEF EffectRecord, CallOfPage
      <3>3. record[consumer[c].user][OutcomeOf[c]].state # "completed"
        BY <2>2 DEF Owns, RecordOf
      <3>4. QED
        BY <1>2, <1>3, <2>2, <3>1, <3>2, <3>3
    <2>3. QED
      BY <1>5, <2>1, <2>2 DEF CompleteRecord, ReleaseRecord
  <1>6. ASSUME NEW v \in User, NEW l \in Outcome, RecordLapses(v, l)
        PROVE record'[u][k] = record[u][k]
    <2>1. record[v][l] \in EffectRecord
      BY <1>1 DEF EffectsTypeOK, EffectRecord
    <2>2. [record[v][l] EXCEPT !.over = TRUE] \in EffectRecord
      BY <2>1 DEF EffectRecord
    <2>3. /\ PutRecord(v, l, [record[v][l] EXCEPT !.over = TRUE])
          /\ record[v][l].state # "completed"
      BY <1>6 DEF RecordLapses
    <2>4. QED
      BY <1>2, <2>2, <2>3
  <1>7. CASE UNCHANGED record
    BY <1>7
  <1>8. CASE UNCHANGED effectsVars
    BY <1>8 DEF effectsVars
  <1>9. QED
    BY <1>4, <1>5, <1>6, <1>7, <1>8
    DEF EffectsNext, ConsumerStep, TakeClaim, LookAgain, Insert, PersistAsset, BeginConsumer,
        PersistFails, HeartbeatFails, SaveShelf, SwitchUser, ClosePage, OpenPage, DeleteAsset,
        BeginSwitch

\* The list of what the user deleted only grows.
LEMMA TombstonesStay ==
    ASSUME EffectsInv, [EffectsNext]_effectsVars, NEW u \in User
    PROVE library[u].deleted \subseteq library'[u].deleted
  <1>1. EffectsTypeOK
    BY DEF EffectsInv
  <1>2. ASSUME NEW c \in Consumer, Insert(c) PROVE library[u].deleted \subseteq library'[u].deleted
    <2>1. /\ \A v \in User : v # scope => library'[v] = library[v]
          /\ library[scope].deleted \subseteq library'[scope].deleted
      BY <1>2, InsertSaves
    <2>2. QED
      BY <2>1
  <1>3. ASSUME NEW c \in Consumer, PersistAsset(c)
        PROVE library[u].deleted \subseteq library'[u].deleted
    <2>1. /\ \A v \in User : v # scope => library'[v] = library[v]
          /\ library'[scope].deleted = library[scope].deleted
      BY <1>3, PersistSaves
    <2>2. QED
      BY <2>1
  <1>4. ASSUME NEW p \in Page, SaveShelf(p) PROVE library[u].deleted \subseteq library'[u].deleted
    BY <1>4, <1>1 DEF SaveShelf, Saved, EffectsTypeOK
  <1>5. CASE UNCHANGED library
    BY <1>5
  <1>6. CASE UNCHANGED effectsVars
    BY <1>6 DEF effectsVars
  <1>7. QED
    BY <1>2, <1>3, <1>4, <1>5, <1>6
    DEF EffectsNext, ConsumerStep, ClaimRecord, TakeClaim, LookAgain, CompleteRecord,
        ReleaseRecord, BeginConsumer, PersistFails, HeartbeatFails, RecordLapses, SwitchUser,
        ClosePage, OpenPage, DeleteAsset, BeginSwitch

\* complete, releaseClaim and insertOrReturnGenerationAsset: a completed effect is
\* never opened again, and a replay never delivers again what was deleted.
THEOREM DoneIsNeverUndone == EffectsSpec => DoneStaysDone
  <1>1. EffectsInv /\ [EffectsNext]_effectsVars =>
          [\A u \in User :
              /\ \A k \in Outcome :
                    record[u][k].state = "completed" => record'[u][k] = record[u][k]
              /\ library[u].deleted \subseteq library'[u].deleted \ library'[u].assets]_effectsVars
    <2>1. SUFFICES ASSUME EffectsInv, [EffectsNext]_effectsVars, NEW u \in User
                   PROVE /\ \A k \in Outcome :
                                record[u][k].state = "completed" => record'[u][k] = record[u][k]
                         /\ library[u].deleted \subseteq library'[u].deleted \ library'[u].assets
      OBVIOUS
    <2>2. \A k \in Outcome : record[u][k].state = "completed" => record'[u][k] = record[u][k]
      BY <2>1, RecordStays
    <2>3. library[u].deleted \subseteq library'[u].deleted
      BY <2>1, TombstonesStay
    <2>4. library'[u].assets \cap library'[u].deleted = {}
      BY <2>1, EffectsInvStep DEF EffectsInv, DeletedIsGone
    <2>5. QED
      BY <2>2, <2>3, <2>4
  <1>2. QED
    BY <1>1, EffectsInvHolds, PTL DEF EffectsSpec, DoneStaysDone
=============================================================================
