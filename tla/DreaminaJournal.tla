--------------------------- MODULE DreaminaJournal ---------------------------
(***************************************************************************)
(* The journal of Dreamina generation tasks that the local Runtime         *)
(* processes share, and what they do with it                               *)
(* (src/canvas-agent/src/dreamina-cli-runtime.ts: queue, reservation,      *)
(* submission, cancellation, deletion; dreamina-task-reconciler.ts: the    *)
(* polling of accepted work; the record rules of dreamina-cli-state.ts).   *)
(*                                                                         *)
(* An operation on the journal runs under the lock of its file (module     *)
(* StateFile) and is one step, which starts by reloading the file; between *)
(* two of them anything may happen.  The right to run the command line,    *)
(* which module CliArbiter is about, is only assumed to be lost at any     *)
(* time.  A lease is live until it has lapsed: renewals leave no trace.    *)
(***************************************************************************)
EXTENDS Naturals, FiniteSets

CONSTANTS
    Runtime,        \* the Runtime processes
    Task,           \* idempotency keys of the owner's tasks
    MaxActive,      \* maxActiveTasks, the official slots
    AccountSession, \* account sessions the command line may be in
    LeaseMayExpire, \* whether a live process may miss its renewals
    UsersDelete,    \* whether users delete tasks
    MaxQueued,      \* bound: queue tickets
    MaxFaults,      \* bound: failed writes, releases and locks, clocks set back
    MaxRestarts,    \* bound: crashes and restarts of processes
    MaxSwitches     \* bound: changes of the account session

ASSUME JournalAssumption ==
    /\ MaxActive \in Nat \ {0}
    /\ LeaseMayExpire \in BOOLEAN /\ UsersDelete \in BOOLEAN
    /\ {MaxQueued, MaxFaults, MaxRestarts, MaxSwitches} \subseteq Nat
    /\ "none" \notin Runtime

VARIABLES
    journal,     \* journal[t]: the record of t in the file
    nextTicket,  \* nextQueueTicket of the file
    memory,      \* memory[r][t]: the state of t in the records of process r
    submission,  \* submission[r][t]: the submission of t that r drives
    poller,      \* poller[r]: the reconciler of r
    accountNow,  \* the account session
    jobs,        \* jobs[t]: official jobs made for t
    official,    \* official[t]: the status of the job at the provider
    faults, restarts, switches

journalVars == <<journal, nextTicket, memory, submission, poller, accountNow, jobs, official,
                 faults, restarts, switches>>
providerVars == <<accountNow, jobs, official, switches>>

State == {"absent", "queued", "pending", "accepted", "succeeded", "failed", "cancelled",
          "unknown", "deleted"}

\* owner: of the queue entry, then of the reservation; "gone": an instance that
\* no longer runs.  due: nextPollAt is set.
Record == [state : State,
           phase : {"none", "reserved", "spawn_permitted"},
           owner : Runtime \cup {"none", "gone"},
           lapsed : BOOLEAN,
           ticket : Nat,
           receipt : BOOLEAN,
           account : AccountSession \cup {"none"},
           hidden : BOOLEAN,
           outputs : BOOLEAN,
           due : BOOLEAN,
           pollLease : Runtime \cup {"none", "gone"},
           pollLapsed : BOOLEAN]

NoRecord == [state |-> "absent", phase |-> "none", owner |-> "none", lapsed |-> FALSE,
             ticket |-> 0, receipt |-> FALSE, account |-> "none", hidden |-> FALSE,
             outputs |-> FALSE, due |-> FALSE, pollLease |-> "none", pollLapsed |-> FALSE]

NoSubmission == [pc |-> "idle", spawned |-> FALSE, fenced |-> FALSE, account |-> "none"]
IdlePoller == [pc |-> "idle", task |-> "none", status |-> "none", outputs |-> FALSE]

JournalTypeOK ==
    /\ journal \in [Task -> Record]
    /\ nextTicket \in Nat \ {0}
    /\ memory \in [Runtime -> [Task -> State]]
    /\ submission \in [Runtime -> [Task ->
         [pc : {"idle", "starting", "waiting", "reserved", "invoked", "permitted", "sent",
                "accepted", "scheduling", "failing", "closing"},
          spawned : BOOLEAN, fenced : BOOLEAN, account : AccountSession \cup {"none"}]]]
    /\ poller \in [Runtime ->
         [pc : {"off", "idle", "observing", "observed", "erring"}, task : Task \cup {"none"},
          status : {"none", "pending", "completed", "failed", "cancelled"}, outputs : BOOLEAN]]
    /\ accountNow \in AccountSession
    /\ jobs \in [Task -> Nat]
    /\ official \in [Task -> {"none", "pending", "completed", "failed", "cancelled"}]
    /\ faults \in Nat /\ restarts \in Nat /\ switches \in Nat

JournalInit ==
    /\ journal = [t \in Task |-> NoRecord]
    /\ nextTicket = 1
    /\ memory = [r \in Runtime |-> [t \in Task |-> "absent"]]
    /\ submission = [r \in Runtime |-> [t \in Task |-> NoSubmission]]
    /\ poller = [r \in Runtime |-> IdlePoller]
    /\ accountNow \in AccountSession
    /\ jobs = [t \in Task |-> 0] /\ official = [t \in Task |-> "none"]
    /\ faults = 0 /\ restarts = 0 /\ switches = 0

-----------------------------------------------------------------------------
\* The rules of a record (dreamina-cli-state.ts).
Rank(state) ==
    CASE state = "queued" -> 0 [] state = "pending" -> 1 [] state = "accepted" -> 2 [] OTHER -> 3

Terminal == {"succeeded", "failed", "cancelled", "unknown", "deleted"}

\* validRecord
WellFormed(x) ==
    /\ x.phase # "none" => x.state = "pending"
    /\ x.state \in {"queued", "pending"} => ~x.receipt
    /\ x.state \in {"accepted", "succeeded"} => x.receipt
    /\ x.outputs => x.state = "succeeded"

\* assertRecordProgression, and assignJournalVersions for a record taken away
Progress(x, y) ==
    \/ x.state = "absent"
    \/ x.state = "pending" /\ y.state = "absent"
    \/ /\ Rank(y.state) >= Rank(x.state) /\ y.state # "absent"
       /\ x.state \in Terminal => y.state \in {x.state, "deleted"}
       /\ x.receipt => y.receipt
       /\ x.hidden => y.hidden
       /\ x.outputs => y.outputs
       /\ x.account # "none" => y.account = x.account
       /\ x.state = y.state /\ x.state \in {"queued", "pending"} => y.owner \in {x.owner, "gone"}
       /\ x.phase = "spawn_permitted" /\ y.state = "pending" => y.phase = "spawn_permitted"

Unqueued(x) == [x EXCEPT !.owner = "none", !.ticket = 0, !.lapsed = FALSE]
Unreserved(x) == [x EXCEPT !.owner = "none", !.phase = "none", !.lapsed = FALSE]

\* Mutant: whatever had no receipt was not sent.
ClosedAsFailed(x) ==
    IF x.state = "pending" /\ x.lapsed THEN [Unreserved(x) EXCEPT !.state = "failed"]
    ELSE IF x.state = "queued" /\ x.lapsed THEN [Unqueued(x) EXCEPT !.state = "failed"]
    ELSE x

\* reloadFromDisk: a record whose lease has lapsed is closed.  One whose process
\* was not yet allowed to start the command is a failure; of another nobody
\* knows whether the provider has it.
Closed(x) ==
    IF x.state = "pending" /\ x.lapsed
    THEN [Unreserved(x) EXCEPT !.state = IF x.phase = "reserved" THEN "failed" ELSE "unknown"]
    ELSE IF x.state = "queued" /\ x.lapsed
    THEN [Unqueued(x) EXCEPT !.state = "failed"]
    ELSE x

Recovered == [t \in Task |-> Closed(journal[t])]
States(j) == [t \in Task |-> j[t].state]

\* reloadFromDisk then refuses the file if it lacks a record the process has in
\* memory, or has one that is behind it.
Accepts(r) ==
    \A t \in Task :
      memory[r][t] # "absent" =>
        /\ Recovered[t].state # "absent"
        /\ Rank(Recovered[t].state) >= Rank(memory[r][t])

\* persistUnlocked.  The records were changed in memory before, and are not
\* changed back if the write fails.
Persist(r, j) ==
    /\ journal' = j
    /\ memory' = [memory EXCEPT ![r] = States(j)]
    /\ UNCHANGED faults
FailToPersist(r, j) ==
    /\ faults < MaxFaults /\ faults' = faults + 1
    /\ journal' = Recovered
    /\ memory' = [memory EXCEPT ![r] = States(j)]
Reload(r) == Persist(r, Recovered)

With(t, x) == [Recovered EXCEPT ![t] = x]

Goto(r, t, pc) == submission' = [submission EXCEPT ![r][t].pc = pc]
Finish(r, t) == submission' = [submission EXCEPT ![r][t] = NoSubmission]
Driven(r, t) == submission[r][t].pc # "idle"

\* reservesOfficialSlot
SlotsTaken(j) == Cardinality({t \in Task : j[t].state \in {"pending", "unknown", "accepted"}})

\* Mutant: only the queue is looked at, not the slots that are taken.
FirstOfQueue(t) ==
    Cardinality({u \in Task : Recovered[u].state = "queued" /\ Recovered[u].ticket < Recovered[t].ticket})
      < MaxActive

\* hasQueuedGenerationPriority
HasPriority(t) ==
    Cardinality({u \in Task : Recovered[u].state = "queued" /\ Recovered[u].ticket < Recovered[t].ticket})
      + SlotsTaken(Recovered) < MaxActive

\* matchesReservation
Reserves(r, t, x) == x.state = "pending" /\ x.owner = r

-----------------------------------------------------------------------------
\* Any reading operation: start, getTask, listTasks, waitForTask, the renewal of
\* a lease.
Load(r) ==
    /\ Accepts(r)
    /\ Reload(r)
    /\ UNCHANGED <<nextTicket, submission, poller, restarts>> /\ UNCHANGED providerVars

\* enqueueNew: a task that has no record yet enters the queue.
Enqueue(r, t) ==
    LET entry == [NoRecord EXCEPT !.state = "queued", !.owner = r, !.ticket = nextTicket] IN
    /\ ~Driven(r, t) /\ Accepts(r)
    /\ Recovered[t].state = "absent" /\ nextTicket <= MaxQueued
    /\ \/ Persist(r, With(t, entry)) /\ nextTicket' = nextTicket + 1 /\ Goto(r, t, "starting")
       \/ faults < MaxFaults /\ faults' = faults + 1 /\ journal' = Recovered
          /\ memory' = [memory EXCEPT ![r] = States(Recovered)]
          /\ UNCHANGED <<nextTicket, submission>>
    /\ UNCHANGED <<poller, restarts>> /\ UNCHANGED providerVars

\* The task that promoteQueueHead tries next.
QueueHead(r, t) ==
    \A u \in Task : submission[r][u].pc = "waiting" => journal[t].ticket <= journal[u].ticket

\* reserveSubmissionSlot
Reserve(r, t) ==
    LET x == Recovered[t]
        reserved == [Unqueued(x) EXCEPT !.state = "pending", !.phase = "reserved", !.owner = r] IN
    /\ \/ submission[r][t].pc = "starting"
       \/ submission[r][t].pc = "waiting" /\ QueueHead(r, t) /\ Accepts(r)
    /\ \/ ~Accepts(r) /\ Finish(r, t) /\ UNCHANGED <<journal, memory, faults>>
       \/ /\ Accepts(r) /\ x.state # "queued"
          /\ Reload(r) /\ Finish(r, t)
       \/ /\ Accepts(r) /\ x.state = "queued" /\ ~HasPriority(t)
          /\ Reload(r) /\ Goto(r, t, "waiting")
       \/ /\ Accepts(r) /\ x.state = "queued" /\ HasPriority(t)
          /\ \/ Persist(r, With(t, reserved)) /\ Goto(r, t, "reserved")
             \/ FailToPersist(r, With(t, reserved)) /\ Finish(r, t)
    /\ UNCHANGED <<nextTicket, poller, restarts>> /\ UNCHANGED providerVars

\* submitPrepared up to the arbiter's lease.  Whatever is wrong by then, or a
\* cancellation, is a failure before the command; a changed account or a lost
\* lease leaves the record to its reservation's end.
Prepare(r, t) ==
    /\ submission[r][t].pc = "reserved"
    /\ \/ submission' = [submission EXCEPT ![r][t] =
                           [pc |-> "invoked", spawned |-> FALSE, fenced |-> TRUE, account |-> accountNow]]
       \/ Goto(r, t, "failing")
       \/ Finish(r, t)
    /\ UNCHANGED <<journal, nextTicket, memory, poller, faults, restarts>> /\ UNCHANGED providerVars

\* commitInvocationFence
CommitInvocationFence(r, t) ==
    LET x == Recovered[t]
        permitted == [x EXCEPT !.phase = "spawn_permitted", !.account = submission[r][t].account] IN
    /\ submission[r][t].pc = "invoked"
    /\ \/ ~Accepts(r) /\ Goto(r, t, "failing") /\ UNCHANGED <<journal, memory, faults>>
       \/ /\ Accepts(r) /\ ~Reserves(r, t, x)
          /\ Reload(r) /\ Finish(r, t)
       \/ /\ Accepts(r) /\ Reserves(r, t, x)
          /\ \/ Persist(r, With(t, permitted)) /\ Goto(r, t, "permitted")
             \/ FailToPersist(r, With(t, permitted)) /\ Goto(r, t, "failing")
    /\ UNCHANGED <<nextTicket, poller, restarts>> /\ UNCHANGED providerVars

\* The command runs, is killed or cannot be started; the provider may have the
\* job whether or not its receipt comes back.
Spawn(r, t) ==
    /\ submission[r][t].pc = "permitted"
    /\ \/ Goto(r, t, "failing") /\ UNCHANGED <<jobs, official>>
       \/ \E made \in BOOLEAN, receipt \in BOOLEAN :
            /\ receipt => made
            /\ submission' = [submission EXCEPT ![r][t].pc = IF receipt THEN "sent" ELSE "failing",
                                                ![r][t].spawned = TRUE]
            /\ jobs' = [jobs EXCEPT ![t] = IF made THEN @ + 1 ELSE @]
            /\ official' = [official EXCEPT ![t] = IF made THEN "pending" ELSE @]
    /\ UNCHANGED <<journal, nextTicket, memory, poller, accountNow, faults, restarts, switches>>

\* commitAcceptedReceipt
CommitAcceptedReceipt(r, t) ==
    LET x == Recovered[t]
        accepted == [Unreserved(x) EXCEPT !.state = "accepted", !.receipt = TRUE] IN
    /\ submission[r][t].pc = "sent"
    /\ \/ Finish(r, t) /\ UNCHANGED <<journal, memory, faults>>      \* assertCurrent
       \/ ~Accepts(r) /\ Goto(r, t, "failing") /\ UNCHANGED <<journal, memory, faults>>
       \/ /\ Accepts(r) /\ ~Reserves(r, t, x)
          /\ Reload(r) /\ Finish(r, t)
       \/ /\ Accepts(r) /\ Reserves(r, t, x) /\ submission[r][t].account = accountNow
          /\ \/ Persist(r, With(t, accepted)) /\ Goto(r, t, "accepted")
             \/ FailToPersist(r, With(t, accepted)) /\ Goto(r, t, "failing")
    /\ UNCHANGED <<nextTicket, poller, restarts>> /\ UNCHANGED providerVars

\* The lease is released whatever happened, and its failure is the failure of
\* the submission.
ReleaseInvocation(r, t) ==
    /\ submission[r][t].pc = "accepted"
    /\ \/ Goto(r, t, "scheduling") /\ UNCHANGED faults
       \/ faults < MaxFaults /\ faults' = faults + 1 /\ Goto(r, t, "failing")
    /\ UNCHANGED <<journal, nextTicket, memory, poller, restarts>> /\ UNCHANGED providerVars

\* commitSubmissionFailure; the lock may stay busy.
CommitSubmissionFailure(r, t) ==
    LET x == Recovered[t]
        mine == Reserves(r, t, x) /\ (submission[r][t].fenced => x.phase = "spawn_permitted")
        after == IF submission[r][t].spawned THEN [Unreserved(x) EXCEPT !.state = "unknown"] ELSE NoRecord IN
    /\ submission[r][t].pc = "failing"
    /\ \/ faults < MaxFaults /\ faults' = faults + 1 /\ Goto(r, t, "closing") /\ UNCHANGED <<journal, memory>>
       \/ ~Accepts(r) /\ Goto(r, t, "closing") /\ UNCHANGED <<journal, memory, faults>>
       \/ Accepts(r) /\ ~mine /\ Reload(r) /\ Finish(r, t)
       \/ Accepts(r) /\ mine /\ Persist(r, With(t, after)) /\ Finish(r, t)
    /\ UNCHANGED <<nextTicket, poller, restarts>> /\ UNCHANGED providerVars

\* transitionTask, to "failed".  A record with a reservation is not valid as
\* failed: the write is refused, and memory keeps it.
TransitionTask(r, t) ==
    LET x == Recovered[t]
        failed == [Unqueued(x) EXCEPT !.state = "failed"] IN
    IF x.state \in Terminal THEN Reload(r)
    ELSE IF WellFormed([x EXCEPT !.state = "failed"]) THEN Persist(r, With(t, failed))
    ELSE /\ journal' = Recovered
         /\ memory' = [memory EXCEPT ![r] = States(With(t, failed))]
         /\ UNCHANGED faults

\* failTask
FailTask(r, t) ==
    /\ submission[r][t].pc = "closing"
    /\ Finish(r, t)
    /\ IF memory[r][t] \in Terminal \cup {"absent"} \/ ~Accepts(r)
       THEN UNCHANGED <<journal, memory, faults>>
       ELSE TransitionTask(r, t)
    /\ UNCHANGED <<nextTicket, poller, restarts>> /\ UNCHANGED providerVars

-----------------------------------------------------------------------------
\* Mutant: accepted work is closed as well.
CancelAnyLive(r, t) ==
    LET x == Recovered[t]
        cancelled == [Unqueued(x) EXCEPT !.state = "cancelled"] IN
    /\ Accepts(r) /\ x.state \in {"queued", "accepted"}
    /\ Persist(r, With(t, cancelled)) /\ Finish(r, t)
    /\ UNCHANGED <<nextTicket, poller, restarts>> /\ UNCHANGED providerVars

\* cancelTask: of a queued task; a submission under way is only interrupted,
\* and accepted work goes on.
Cancel(r, t) ==
    LET x == Recovered[t]
        cancelled == [Unqueued(x) EXCEPT !.state = "cancelled"] IN
    /\ Accepts(r) /\ x.state = "queued"
    /\ \/ Persist(r, With(t, cancelled)) /\ Finish(r, t)
       \/ FailToPersist(r, With(t, cancelled)) /\ UNCHANGED submission
    /\ UNCHANGED <<nextTicket, poller, restarts>> /\ UNCHANGED providerVars

\* deleteTask: before the command a task is taken away, afterwards it is hidden.
\* A record that is still reserved is not valid as deleted.
Delete(r, t) ==
    LET x == Recovered[t]
        before == x.state = "queued" \/ x.phase = "reserved"
        after == IF before THEN [x EXCEPT !.state = "deleted", !.ticket = 0,
                                          !.owner = IF x.state = "queued" THEN "none" ELSE @]
                 ELSE [x EXCEPT !.hidden = TRUE] IN
    /\ UsersDelete /\ Accepts(r)
    /\ x.state \notin {"absent", "deleted"} /\ ~x.hidden
    /\ IF WellFormed(after)
       THEN /\ Persist(r, With(t, after))
            /\ IF before THEN Finish(r, t) ELSE UNCHANGED submission
       ELSE /\ journal' = Recovered
            /\ memory' = [memory EXCEPT ![r] = States(With(t, after))]
            /\ UNCHANGED <<submission, faults>>
    /\ UNCHANGED <<nextTicket, poller, restarts>> /\ UNCHANGED providerVars

\* What the leases of r are once its instance is gone.
Orphaned(r) ==
    [t \in Task |-> [journal[t] EXCEPT !.owner = IF @ = r THEN "gone" ELSE @,
                                       !.pollLease = IF @ = r THEN "gone" ELSE @]]

\* failOwnedQueuedTasksOnDispose
OwnQueueClosed(r) ==
    [t \in Task |->
        IF Recovered[t].state = "queued" /\ Recovered[t].owner = r
        THEN [Unqueued(Recovered[t]) EXCEPT !.state = "failed"] ELSE Recovered[t]]

\* dispose: once the submissions it interrupts have settled, r closes its queue
\* entries and gives up its leases; another instance starts.
Dispose(r) ==
    /\ restarts < MaxRestarts /\ restarts' = restarts + 1
    /\ Accepts(r)
    /\ \A t \in Task : submission[r][t].pc \in {"idle", "waiting"}
    /\ journal' = [t \in Task |-> [OwnQueueClosed(r)[t] EXCEPT !.pollLease = IF @ = r THEN "none" ELSE @]]
    /\ memory' = [memory EXCEPT ![r] = [t \in Task |-> "absent"]]
    /\ submission' = [submission EXCEPT ![r] = [t \in Task |-> NoSubmission]]
    /\ poller' = [poller EXCEPT ![r] = [IdlePoller EXCEPT !.pc = "off"]]
    /\ UNCHANGED <<nextTicket, faults>> /\ UNCHANGED providerVars

Restart(r) ==
    /\ restarts < MaxRestarts /\ restarts' = restarts + 1
    /\ journal' = Orphaned(r)
    /\ memory' = [memory EXCEPT ![r] = [t \in Task |-> "absent"]]
    /\ submission' = [submission EXCEPT ![r] = [t \in Task |-> NoSubmission]]
    /\ poller' = [poller EXCEPT ![r] = [IdlePoller EXCEPT !.pc = "off"]]
    /\ UNCHANGED <<nextTicket, faults>> /\ UNCHANGED providerVars

-----------------------------------------------------------------------------
\* The reconciler reads and writes the file without the records in memory.
Eligible(x) == x.receipt /\ (x.state \in {"accepted", "unknown"} \/ (x.state = "succeeded" /\ ~x.outputs))

\* initialize
StartReconciler(r) ==
    /\ poller[r].pc = "off"
    /\ poller' = [poller EXCEPT ![r] = IdlePoller]
    /\ journal' = [t \in Task |-> [journal[t] EXCEPT !.due = @ \/ Eligible(journal[t])]]
    /\ UNCHANGED <<nextTicket, memory, submission, faults, restarts>> /\ UNCHANGED providerVars

\* scheduleBackground, whose failure is swallowed
Schedule(r, t) ==
    /\ submission[r][t].pc = "scheduling"
    /\ Finish(r, t)
    /\ \/ journal' = [journal EXCEPT ![t].due = @ \/ Eligible(journal[t])] /\ UNCHANGED faults
       \/ faults < MaxFaults /\ faults' = faults + 1 /\ UNCHANGED journal
    /\ UNCHANGED <<nextTicket, memory, poller, restarts>> /\ UNCHANGED providerVars

\* requestNow, for a user who refreshes or waits
RequestNow(t) ==
    /\ Eligible(journal[t]) /\ ~journal[t].due
    /\ journal' = [journal EXCEPT ![t].due = TRUE]
    /\ UNCHANGED <<nextTicket, memory, submission, poller, faults, restarts>> /\ UNCHANGED providerVars

\* Mutant: a lease is respected though it has lapsed.
Unclaimed(x) == Eligible(x) /\ x.due /\ x.pollLease = "none"

\* claimDue
Claimable(x) == Eligible(x) /\ x.due /\ (x.pollLease = "none" \/ x.pollLapsed)
Claim(r, t) ==
    /\ poller[r].pc = "idle"
    /\ Claimable(journal[t])
    /\ journal' = [journal EXCEPT ![t].pollLease = r, ![t].pollLapsed = FALSE]
    /\ poller' = [poller EXCEPT ![r] = [IdlePoller EXCEPT !.pc = "observing", !.task = t]]
    /\ UNCHANGED <<nextTicket, memory, submission, faults, restarts>> /\ UNCHANGED providerVars

\* observeReconciliation: the provider is asked under the account that submitted
\* the task; media that cannot be fetched or kept are left for a later round.
Observe(r) ==
    LET t == poller[r].task IN
    /\ poller[r].pc = "observing"
    /\ accountNow = journal[t].account
    /\ \E kept \in BOOLEAN :
         /\ kept => official[t] = "completed"
         /\ poller' = [poller EXCEPT ![r].pc = "observed", ![r].status = official[t], ![r].outputs = kept]
    /\ UNCHANGED <<journal, nextTicket, memory, submission, faults, restarts>> /\ UNCHANGED providerVars

FailToObserve(r) ==
    /\ poller[r].pc = "observing"
    /\ poller' = [poller EXCEPT ![r].pc = "erring"]
    /\ UNCHANGED <<journal, nextTicket, memory, submission, faults, restarts>> /\ UNCHANGED providerVars

\* Mutant: the official status is taken for a state of the record.
ObservedAsIs(x, status, kept) == [x EXCEPT !.state = status, !.outputs = @ \/ kept]

\* applyObservation
Observed(x, status, kept) ==
    IF x.state = "succeeded" /\ status # "completed" THEN x
    ELSE [x EXCEPT !.state = CASE status = "pending" -> "accepted"
                               [] status = "completed" -> "succeeded"
                               [] OTHER -> status,
                   !.outputs = @ \/ kept]

\* commitObservation and handleReconcileApplied
CommitObservation(r) ==
    LET t == poller[r].task
        x == journal[t]
        status == poller[r].status
        again == status = "pending" \/ (status = "completed" /\ ~poller[r].outputs)
        after == [Observed(x, status, poller[r].outputs) EXCEPT !.pollLease = "none",
                    !.pollLapsed = FALSE, !.due = again] IN
    /\ poller[r].pc = "observed"
    /\ \/ /\ x.pollLease = r /\ Progress(x, after)
          /\ journal' = [journal EXCEPT ![t] = after]
          /\ memory' = [memory EXCEPT ![r][t] = after.state]
          /\ poller' = [poller EXCEPT ![r] = IdlePoller]
       \/ /\ x.pollLease # r
          /\ poller' = [poller EXCEPT ![r] = IdlePoller] /\ UNCHANGED <<journal, memory>>
       \/ /\ x.pollLease = r /\ ~Progress(x, after)
          /\ poller' = [poller EXCEPT ![r].pc = "erring"] /\ UNCHANGED <<journal, memory>>
    /\ UNCHANGED <<nextTicket, submission, faults, restarts>> /\ UNCHANGED providerVars

\* ... of an observation that, by a clock that went back, is older than the last.
DropObservation(r) ==
    LET t == poller[r].task
        after == [journal[t] EXCEPT !.pollLease = "none", !.pollLapsed = FALSE,
                                    !.due = @ \/ Eligible(journal[t])] IN
    /\ poller[r].pc = "observed" /\ journal[t].pollLease = r
    /\ faults < MaxFaults /\ faults' = faults + 1
    /\ journal' = [journal EXCEPT ![t] = after]
    /\ memory' = [memory EXCEPT ![r][t] = after.state]
    /\ poller' = [poller EXCEPT ![r] = IdlePoller]
    /\ UNCHANGED <<nextTicket, submission, restarts>> /\ UNCHANGED providerVars

\* commitSyncError, whose own failure leaves the lease to lapse
CommitSyncError(r) ==
    LET t == poller[r].task
        after == [journal[t] EXCEPT !.pollLease = "none", !.pollLapsed = FALSE, !.due = TRUE] IN
    /\ poller[r].pc = "erring"
    /\ poller' = [poller EXCEPT ![r] = IdlePoller]
    /\ \/ /\ journal[t].pollLease = r
          /\ journal' = [journal EXCEPT ![t] = after]
          /\ memory' = [memory EXCEPT ![r][t] = after.state]
          /\ UNCHANGED faults
       \/ journal[t].pollLease # r /\ UNCHANGED <<journal, memory, faults>>
       \/ faults < MaxFaults /\ faults' = faults + 1 /\ UNCHANGED <<journal, memory>>
    /\ UNCHANGED <<nextTicket, submission, restarts>> /\ UNCHANGED providerVars

-----------------------------------------------------------------------------
\* Leases lapse when their owners are gone, have stopped renewing them, or were
\* held up.
Renewing(t) ==
    \E r \in Runtime :
      /\ journal[t].owner = r /\ Accepts(r)
      /\ submission[r][t].pc \in {"starting", "waiting", "reserved", "invoked", "permitted", "sent"}
LeaseLapses(t) ==
    /\ journal[t].state \in {"queued", "pending"} /\ ~journal[t].lapsed
    /\ LeaseMayExpire \/ ~Renewing(t)
    /\ journal' = [journal EXCEPT ![t].lapsed = TRUE]
    /\ UNCHANGED <<nextTicket, memory, submission, poller, faults, restarts>> /\ UNCHANGED providerVars

PollLeaseLapses(t) ==
    /\ journal[t].pollLease # "none" /\ ~journal[t].pollLapsed
    /\ \/ LeaseMayExpire
       \/ ~\E r \in Runtime : journal[t].pollLease = r /\ poller[r].task = t
    /\ journal' = [journal EXCEPT ![t].pollLapsed = TRUE]
    /\ UNCHANGED <<nextTicket, memory, submission, poller, faults, restarts>> /\ UNCHANGED providerVars

SwitchAccount ==
    /\ switches < MaxSwitches /\ switches' = switches + 1
    /\ accountNow' \in AccountSession \ {accountNow}
    /\ UNCHANGED <<journal, nextTicket, memory, submission, poller, jobs, official, faults, restarts>>

OfficialJobEnds(t) ==
    /\ official[t] = "pending"
    /\ \E status \in {"completed", "failed", "cancelled"} : official' = [official EXCEPT ![t] = status]
    /\ UNCHANGED <<journal, nextTicket, memory, submission, poller, accountNow, jobs, faults, restarts, switches>>

Submit(r, t) ==
    \/ Reserve(r, t) \/ Prepare(r, t) \/ CommitInvocationFence(r, t) \/ Spawn(r, t)
    \/ CommitAcceptedReceipt(r, t) \/ ReleaseInvocation(r, t) \/ Schedule(r, t)
    \/ CommitSubmissionFailure(r, t) \/ FailTask(r, t)

Reconcile(r) ==
    \/ StartReconciler(r) \/ Observe(r) \/ FailToObserve(r)
    \/ CommitObservation(r) \/ DropObservation(r) \/ CommitSyncError(r)
    \/ \E t \in Task : Claim(r, t)

JournalNext ==
    \/ \E r \in Runtime : Load(r) \/ Reconcile(r) \/ Dispose(r) \/ Restart(r)
    \/ \E r \in Runtime, t \in Task : Enqueue(r, t) \/ Submit(r, t) \/ Cancel(r, t) \/ Delete(r, t)
    \/ \E t \in Task : RequestNow(t) \/ LeaseLapses(t) \/ PollLeaseLapses(t) \/ OfficialJobEnds(t)
    \/ SwitchAccount

JournalSpec == JournalInit /\ [][JournalNext]_journalVars

\* The loop of the reconciler goes on in every open process and claims what has
\* waited longest (compareDue), its queries are answered now and then, jobs end
\* and leases lapse.
JournalFairness ==
    /\ \A r \in Runtime : WF_journalVars(Reconcile(r))
    /\ \A t \in Task :
        /\ SF_journalVars(\E r \in Runtime : Claim(r, t))
        /\ SF_journalVars(\E r \in Runtime : poller[r].task = t /\ Observe(r))
        /\ WF_journalVars(OfficialJobEnds(t)) /\ WF_journalVars(PollLeaseLapses(t))

-----------------------------------------------------------------------------
\* A task is submitted to the provider at most once, whichever processes try,
\* crash, lapse and retry: each submission is paid for.  And one that is
\* reported as interrupted before its submission (failed without a receipt), or
\* that was taken away or cancelled before it, has no job that somebody pays for.
SubmittedOnce ==
    \A t \in Task :
      /\ jobs[t] <= 1
      /\ journal[t].state \in {"failed", "cancelled", "absent", "deleted"} /\ ~journal[t].receipt
           => jobs[t] = 0

\* The official slots that the records stand for are never oversold.
SlotsRespected == SlotsTaken(journal) <= MaxActive

\* Once there is a receipt the outcome is what the provider says of the job.
OutcomeIsOfficial ==
    \A t \in Task :
      journal[t].receipt =>
        /\ journal[t].state = "succeeded" => official[t] = "completed"
        /\ journal[t].state \in {"failed", "cancelled"} => official[t] = journal[t].state
        /\ journal[t].state \in {"accepted", "succeeded", "failed", "cancelled", "deleted"}

\* The reconciler settles accepted work that is due, across restarts and lost
\* leases, unless the account it was submitted under is no longer in use.
DueWorkIsSettled ==
    \A t \in Task :
      journal[t].state = "accepted" /\ journal[t].due
        ~> journal[t].state # "accepted" \/ accountNow # journal[t].account
=============================================================================
