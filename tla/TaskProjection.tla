--------------------------- MODULE TaskProjection ---------------------------
(***************************************************************************)
(* The product's store of Dreamina tasks, as it is projected from the      *)
(* journal of module DreaminaJournal.                                      *)
(*                                                                         *)
(* Code: canvas-agent/src/dreamina-task-projection.ts,                     *)
(*       canvas-agent/src/dreamina-task-contract.ts,                       *)
(*       canvas-agent/src/dreamina-task-store.ts (compareAndSwapTask),     *)
(*       canvas-agent/src/modules/dreamina-http.ts                         *)
(*                                                                         *)
(* A projector reads the whole journal under the journal's lock and then   *)
(* brings one task after the other up to date, each with a read and a      *)
(* compare-and-swap under the store's lock; the processes that serve the   *)
(* tabs have a projector each.  The journal is seen from outside here: it  *)
(* moves as its own rules allow, and counts its versions.  The store has   *)
(* room (module TaskEffects is about its capacity), so that a version of a *)
(* task has been written once and says all of it.                          *)
(***************************************************************************)
EXTENDS Naturals

CONSTANTS
    Projector,      \* processes that project the journal
    ProductTask,    \* the tasks, by their idempotency keys
    IntentsFail,    \* may a submission fail before the command has run?
    MaxVersion      \* bound: versions of a journal record

ASSUME ProjectionAssumption == IntentsFail \in BOOLEAN /\ MaxVersion \in Nat

VARIABLES
    source,         \* source[t]: the journal's record of t
    stored,         \* stored[t]: the store's task
    projector       \* projector[p]: the recovery p is running

projectionVars == <<source, stored, projector>>

-----------------------------------------------------------------------------
NoSource == [state |-> "absent", receipt |-> FALSE, official |-> "none", failing |-> FALSE,
             outputs |-> FALSE, hidden |-> FALSE, version |-> 0]
NotStored == [visibility |-> "none", lifecycle |-> "none", outcome |-> "none", sync |-> "ok",
              outputs |-> FALSE, projected |-> 0, version |-> 0]
Resting == [pc |-> "idle", batch |-> <<>>, todo |-> {}, task |-> "none",
            seen |-> 0, attempt |-> 0]

Present(s) == {t \in ProductTask : s[t].version > 0}

LifecycleRank(l) ==
    CASE l \in {"none", "QUEUED_LOCAL"} -> 0
      [] l = "SUBMITTING" -> 1
      [] l = "SUBMISSION_UNCERTAIN" -> 2
      [] l = "ACCEPTED" -> 3
      [] l = "RUNNING" -> 4
      [] OTHER -> 5

(* dreaminaTaskFromRuntimeJournal                                          *)
FromJournal(x) ==
    [lifecycle |-> CASE x.state = "queued" -> "QUEUED_LOCAL"
                     [] x.state = "pending" -> "SUBMITTING"
                     [] x.state = "unknown" -> "SUBMISSION_UNCERTAIN"
                     [] x.state = "accepted" ->
                            IF x.official = "processing" THEN "RUNNING" ELSE "ACCEPTED"
                     [] OTHER -> "TERMINAL",
     outcome |-> CASE x.state = "succeeded" -> "SUCCEEDED"
                   [] x.state = "cancelled" -> "CANCELLED"
                   [] x.state = "failed" ->
                            IF x.official = "failed" THEN "FAILED_OR_CANCELLED" ELSE "FAILED"
                   [] OTHER -> "none",
     sync |-> CASE x.state = "unknown" -> "uncertain"
                [] x.state = "accepted" /\ x.failing -> "retry"
                [] OTHER -> "ok"]

(* Mutant: the journal that was read, however old, replaces the state.     *)
Replaced(current, incoming) == incoming

(* mergeProviderState: a task never falls back, and keeps its outcome.     *)
Merged(current, incoming) ==
    LET over == current.lifecycle = "TERMINAL"
        behind == LifecycleRank(incoming.lifecycle) < LifecycleRank(current.lifecycle)
        contradicts == over /\ incoming.lifecycle = "TERMINAL" /\ incoming.outcome # current.outcome
    IN  [lifecycle |-> IF over \/ behind THEN current.lifecycle ELSE incoming.lifecycle,
         outcome   |-> IF over \/ behind THEN current.outcome ELSE incoming.outcome,
         sync      |-> IF current.sync = "conflict" \/ contradicts THEN "conflict" ELSE incoming.sync]

(* deletedProviderState: a deleted record says what its task had become.   *)
Undeleted(x) ==
    [x EXCEPT !.state = CASE x.official = "completed" -> "succeeded"
                          [] x.official = "failed" -> "failed"
                          [] x.official = "cancelled" -> "cancelled"
                          [] OTHER -> IF x.receipt THEN "accepted" ELSE "queued"]

(* projectRecord and projectDeletedRecord                                  *)
Projected(x, current) ==
    LET row == IF x.state = "deleted" THEN Undeleted(x) ELSE x
        state == Merged(current, FromJournal(row))
    IN  IF x.state = "deleted" /\ current.version > 0
        THEN [current EXCEPT !.visibility = "deleted", !.projected = x.version]
        ELSE [visibility |-> IF x.state = "deleted" \/ current.visibility = "deleted" THEN "deleted"
                             ELSE IF current.visibility = "hidden" \/ x.hidden THEN "hidden"
                             ELSE "visible",
              lifecycle |-> state.lifecycle, outcome |-> state.outcome, sync |-> state.sync,
              outputs |-> current.outputs \/ x.outputs,
              projected |-> x.version, version |-> current.version]

(* assertProjectionMutation                                                *)
Projectable(current, next) ==
    current.version > 0 =>
        /\ next.projected > current.projected
        /\ current.visibility = "deleted" => next.visibility = "deleted"
        /\ current.visibility = "hidden" => next.visibility # "visible"
        /\ current.outputs => next.outputs

-----------------------------------------------------------------------------
ProjectionInit ==
    /\ source = [t \in ProductTask |-> NoSource]
    /\ stored = [t \in ProductTask |-> NotStored]
    /\ projector = [p \in Projector |-> Resting]

(* The journal's record moves on by one of its operations, each of which   *)
(* gives it a new version (assignJournalVersions).                         *)
JournalMoves(t) ==
    LET x == source[t]
        To(y) == source' = [source EXCEPT ![t] = [y EXCEPT !.version = x.version + 1]]
    IN  /\ x.version < MaxVersion
        /\ \/ x.state = "absent" /\ To([x EXCEPT !.state = "queued"])
           \/ /\ x.state = "queued"
              /\ \E s \in {"queued", "pending", "failed", "cancelled", "deleted"} :
                    To([x EXCEPT !.state = s])
           \/ /\ x.state = "pending"
              /\ \/ \E s \in {"pending", "failed", "unknown"} : To([x EXCEPT !.state = s])
                 \/ To([x EXCEPT !.state = "accepted", !.receipt = TRUE])
           \/ /\ x.state = "accepted"
              /\ \/ To([x EXCEPT !.official = "processing", !.failing = FALSE])
                 \/ To([x EXCEPT !.failing = TRUE])
                 \/ \E kept \in BOOLEAN :
                        To([x EXCEPT !.state = "succeeded", !.official = "completed",
                                     !.failing = ~kept, !.outputs = kept])
                 \/ \E s \in {"failed", "cancelled"} :
                        To([x EXCEPT !.state = s, !.official = s, !.failing = FALSE])
           \/ x.state = "succeeded" /\ ~x.outputs /\ To([x EXCEPT !.outputs = TRUE, !.failing = FALSE])
           \/ /\ x.state \notin {"absent", "queued", "deleted"} /\ ~x.hidden
              /\ To([x EXCEPT !.hidden = TRUE])
    /\ UNCHANGED <<stored, projector>>

(* commitSubmissionFailure takes an intent away that was never sent; the   *)
(* same key may be used again, and its versions start again.               *)
IntentTakenAway(t) ==
    /\ IntentsFail /\ source[t].state = "pending"
    /\ source' = [source EXCEPT ![t] = NoSource]
    /\ UNCHANGED <<stored, projector>>

-----------------------------------------------------------------------------
(* recover: the journal is read, then each of its records is projected.    *)
Recovering(p) == projector[p].todo # {}

ReadJournal(p) ==
    /\ ~Recovering(p)
    /\ projector' = [projector EXCEPT ![p] =
            IF Present(source) = {} THEN Resting
            ELSE [Resting EXCEPT !.batch = source, !.todo = Present(source)]]
    /\ UNCHANGED <<source, stored>>

(* The projector is done with t.                                           *)
Without(b, t) == IF b.todo = {t} THEN Resting
                 ELSE [b EXCEPT !.pc = "idle", !.todo = @ \ {t}, !.task = "none", !.seen = 0,
                                !.attempt = 0]

(* getTask: a task that is up to date already is left alone.               *)
ReadTask(p, t) ==
    /\ t \in projector[p].todo
    /\ \/ projector[p].pc = "idle"
       \/ projector[p].pc = "again" /\ projector[p].task = t
    /\ projector' = [projector EXCEPT ![p] =
            IF stored[t].projected >= @.batch[t].version
            THEN Without(@, t)
            ELSE [@ EXCEPT !.pc = "swap", !.task = t, !.seen = stored[t].version,
                           !.attempt = projector[p].attempt + 1]]
    /\ UNCHANGED <<source, stored>>

(* compareAndSwapTask and the four attempts at it.  Whatever else it       *)
(* throws ends the whole recovery.                                         *)
Unconflicted(p) == stored[projector[p].task].version = projector[p].seen
NextOf(p) ==
    LET t == projector[p].task
    IN  [Projected(projector[p].batch[t], stored[t]) EXCEPT !.version = stored[t].version + 1]

SwapTask(p) ==
    LET t == projector[p].task
        accepted == Unconflicted(p) /\ Projectable(stored[t], NextOf(p))
    IN  /\ projector[p].pc = "swap"
        /\ stored' = IF accepted THEN [stored EXCEPT ![t] = NextOf(p)] ELSE stored
        /\ projector' = [projector EXCEPT ![p] =
                IF accepted
                THEN Without(@, t)
                ELSE IF ~Unconflicted(p) /\ @.attempt < 4
                THEN [@ EXCEPT !.pc = "again", !.seen = 0]
                ELSE Resting]
        /\ UNCHANGED source

(* A process ends, or a request is aborted, in the middle of a recovery.   *)
ProjectorEnds(p) ==
    /\ Recovering(p)
    /\ projector' = [projector EXCEPT ![p] = Resting]
    /\ UNCHANGED <<source, stored>>

-----------------------------------------------------------------------------
ProjectorStep(p) == ReadJournal(p) \/ SwapTask(p) \/ \E t \in ProductTask : ReadTask(p, t)

ProjectionNext ==
    \/ \E t \in ProductTask : JournalMoves(t) \/ IntentTakenAway(t)
    \/ \E p \in Projector : ProjectorStep(p) \/ ProjectorEnds(p)

ProjectionSpec == ProjectionInit /\ [][ProjectionNext]_projectionVars

(* Every read of tasks recovers first, and the tabs keep reading; requests *)
(* are interrupted, but not all of them at the same point.                 *)
ProjectionFairness ==
    \A p \in Projector :
        /\ WF_projectionVars(ProjectorStep(p))
        /\ SF_projectionVars(\E t \in ProductTask : ReadTask(p, t))
        /\ SF_projectionVars(SwapTask(p))

-----------------------------------------------------------------------------
ProjectionTypeOK ==
    LET Lifecycle == {"none", "QUEUED_LOCAL", "SUBMITTING", "SUBMISSION_UNCERTAIN", "ACCEPTED",
                      "RUNNING", "TERMINAL"}
        StoredTask == [visibility : {"none", "visible", "hidden", "deleted"}, lifecycle : Lifecycle,
                       outcome : {"none", "SUCCEEDED", "FAILED", "CANCELLED", "FAILED_OR_CANCELLED"},
                       sync : {"ok", "retry", "uncertain", "conflict"}, outputs : BOOLEAN,
                       projected : 0..MaxVersion, version : Nat]
    IN  /\ DOMAIN source = ProductTask /\ \A t \in ProductTask : source[t].version \in 0..MaxVersion
        /\ stored \in [ProductTask -> StoredTask]
        /\ \A p \in Projector : projector[p].pc \in {"idle", "again", "swap"}

(* What the store says of the provider's verdict is what the journal says. *)
VerdictIsJournals(t) ==
    /\ stored[t].outcome # "none" =>
            \/ source[t].state = "deleted"
            \/ stored[t].outcome = FromJournal(source[t]).outcome
    /\ stored[t].outputs => source[t].outputs

(* The store never falls back, whichever projectors write to it and        *)
(* however old the journal they have read: not in its lifecycle, not in    *)
(* what the user has hidden, not in outputs and outcome; and no stale read *)
(* or reused key makes up an outcome or an output.                         *)
ProjectionsAdvance ==
    [][\A t \in ProductTask :
        /\ stored[t].version > 0 /\ stored'[t].version > 0 =>
            /\ LifecycleRank(stored'[t].lifecycle) >= LifecycleRank(stored[t].lifecycle)
            /\ stored[t].outcome # "none" => stored'[t].outcome = stored[t].outcome
            /\ stored[t].visibility # "visible" => stored'[t].visibility # "visible"
            /\ stored[t].outputs => stored'[t].outputs
            /\ stored'[t].projected >= stored[t].projected
        /\ VerdictIsJournals(t)']_projectionVars

(* The store comes to show what each record of the journal says, the       *)
(* deletion and the verdict included.                                      *)
Shown(t) ==
    IF source[t].state = "deleted" THEN stored[t].visibility = "deleted"
    ELSE stored[t].lifecycle = FromJournal(source[t]).lifecycle

ProjectionsCatchUp == \A t \in ProductTask : source[t].version > 0 ~> Shown(t)
=============================================================================
