--------------------------- MODULE TaskLifecycle ---------------------------
(***************************************************************************)
(* One generation task of the backend, from the queue to its end: the      *)
(* workers that claim it under a lease and drive the upstream job, the     *)
(* user who cancels and retries it, the reconciler that follows up a       *)
(* cancelled job, and the billing order of each run                        *)
(* (src/backend/internal/service/task_*.go, provider_task_cancellation.go  *)
(* and src/backend/internal/repository).                                   *)
(*                                                                         *)
(* Every database statement or transaction is a step of its own; between   *)
(* two of them an actor holds the copies it read earlier.  Processes may   *)
(* crash.  The task bills a system channel directly, so it has no route    *)
(* attempts, and its interface creates an upstream job and polls it.       *)
(***************************************************************************)
EXTENDS Integers, Sequences, FiniteSets

CONSTANTS
    Process,        \* backend processes
    Worker,         \* worker goroutines
    ProcessOf,      \* ProcessOf[w]: the process worker w runs in
    CancelRequest,  \* cancel requests of the user
    Interface,      \* "cancellable" (Ark, Veo), "deferrable" (NewAPI channel 2) or both
    MaxAttempts,    \* providerCancellationMaxAttempts
    MaxRuns,        \* bound: first run and retries of the task
    MaxJobs,        \* bound: upstream jobs created
    MaxCrashes,     \* bound: process crashes
    LeaseMayLapse   \* whether a lease can run out under a live worker

None == 0      \* no upstream job id
Nobody == "nobody"
Reconciler == "reconciler"

\* A cancellation is tried at least twice, and the reconciler is no process.
ASSUME TaskAssumption ==
    /\ ProcessOf \in [Worker -> Process]
    /\ Interface \subseteq {"cancellable", "deferrable"}
    /\ Process \cap {Nobody, Reconciler} = {}
    /\ MaxAttempts \in Nat \ {0, 1} /\ MaxRuns \in Nat \ {0}
    /\ MaxJobs \in Nat /\ MaxCrashes \in Nat
    /\ LeaseMayLapse \in BOOLEAN

VARIABLES
    task,     \* the tasks row
    bill,     \* bill[r]: the billing order of run r
    calls,    \* the api_call_logs of the task
    job,      \* the upstream jobs, in the order of their creation
    worker,   \* worker[w]: a worker goroutine and its copy of the task
    active,   \* active[p]: the worker whose context p.activeCancels holds
    cancel,   \* cancel[c]: a cancel request and its background goroutine
    retrying, \* a retry request has passed its checks
    recon,    \* the cancellation reconciler
    resolved, \* runs whose order an administrator resolved
    crashes   \* number of crashes so far

vars == <<task, bill, calls, job, worker, active, cancel, retrying, recon, resolved, crashes>>

Run == 1..MaxRuns
JobId == 1..MaxJobs

OpenBill == {"reserved", "running", "uncertain"}

TaskRow == [status : {"queued", "running", "succeeded", "failed", "cancelled"},
            owner : Process \cup {Nobody, Reconciler}, lease : BOOLEAN,
            interface : Interface, run : Run, req : JobId \cup {None},
            cancel : {"", "requested", "confirmed", "uncertain"},
            attempts : 0..MaxAttempts + MaxCrashes]

BillRow == [status : {"none", "settled", "refunded"} \cup OpenBill, req : JobId \cup {None}]

\* Of the logs: whether there is a create call, whether the last one counts as
\* a success, whether an earlier one does, and the latest id any of them names.
CallLog == [created : BOOLEAN, ok : BOOLEAN, okBefore : BOOLEAN, latest : JobId \cup {None}]

\* Why the provider call of a worker ended.
NoSlot == {"slot", "slotDeadline", "slotCanceled"}
Canceled == {"canceled", "slotCanceled"}
Result == {"", "delivered", "failed", "unclear", "deadline", "canceled", "unsaved"} \cup NoSlot

IdleWorker == [pc |-> "idle", run |-> 1, req |-> None, job |-> None,
               canceled |-> FALSE, lost |-> FALSE, result |-> ""]

WorkerRow == [pc : {"idle", "claimed", "preparing", "refunding", "dispatching", "accepted",
                    "polling", "failing", "closing", "charging", "delivered", "saving",
                    "settling", "discarding"},
              run : Run, req : JobId \cup {None}, job : JobId \cup {None},
              canceled : BOOLEAN, lost : BOOLEAN, result : Result]

IdleCancel == [pc |-> "idle", process |-> Nobody, status |-> "queued", run |-> 1, req |-> None]

CancelRow == [pc : {"idle", "read", "committed", "closing", "claiming", "sending",
                    "refused", "reviewing"},
              process : Process \cup {Nobody}, status : {"queued", "running"},
              run : Run, req : JobId \cup {None}]

IdleRecon == [pc |-> "idle", process |-> Nobody, run |-> 1, req |-> None, attempts |-> 0]

ReconRow == [pc : {"idle", "querying", "cancelled", "done", "failed", "deferring", "confirmed",
                   "uncertain", "refused", "reviewing"},
             process : Process \cup {Nobody}, run : Run, req : JobId \cup {None},
             attempts : 0..MaxAttempts + MaxCrashes]

TypeOK ==
    /\ task \in TaskRow
    /\ bill \in [Run -> BillRow]
    /\ calls \in CallLog
    /\ job \in Seq([run : Run, state : {"working", "done", "failed", "cancelled"}])
    /\ Len(job) <= MaxJobs
    /\ worker \in [Worker -> WorkerRow]
    /\ active \in [Process -> Worker \cup {Nobody}]
    /\ cancel \in [CancelRequest -> CancelRow]
    /\ retrying \in BOOLEAN
    /\ recon \in ReconRow
    /\ resolved \subseteq Run
    /\ crashes \in 0..MaxCrashes

\* A task that CreateTaskWithCreditReservation has just put in the queue.
Init ==
    /\ \E interface \in Interface :
        task = [status |-> "queued", owner |-> Nobody, lease |-> FALSE, interface |-> interface,
                run |-> 1, req |-> None, cancel |-> "", attempts |-> 0]
    /\ bill = [r \in Run |-> [status |-> IF r = 1 THEN "reserved" ELSE "none", req |-> None]]
    /\ calls = [created |-> FALSE, ok |-> FALSE, okBefore |-> FALSE, latest |-> None]
    /\ job = <<>>
    /\ worker = [w \in Worker |-> IdleWorker]
    /\ active = [p \in Process |-> Nobody]
    /\ cancel = [c \in CancelRequest |-> IdleCancel]
    /\ retrying = FALSE
    /\ recon = IdleRecon
    /\ resolved = {}
    /\ crashes = 0

-----------------------------------------------------------------------------
(* Statements on the billing order of run r.                               *)

MarkUncertain(r) ==
    bill' = IF bill[r].status \in {"reserved", "running"}
            THEN [bill EXCEPT ![r].status = "uncertain"] ELSE bill

RefundOrder(r) ==
    bill' = IF bill[r].status \in OpenBill THEN [bill EXCEPT ![r].status = "refunded"] ELSE bill

SettleOrder(r) ==
    bill' = IF bill[r].status \in OpenBill THEN [bill EXCEPT ![r].status = "settled"] ELSE bill

\* Mutant of MarkTerminalState: the task need not be running.
MarkTerminalAlways(status) ==
    task' = [task EXCEPT !.status = status, !.owner = Nobody, !.lease = FALSE]

\* Move the task out of running, if it still is: UpdateTaskTerminalState,
\* whose row count the worker does not look at.
MarkTerminalState(status) ==
    task' = IF task.status = "running"
            THEN [task EXCEPT !.status = status, !.owner = Nobody, !.lease = FALSE]
            ELSE task

\* The id a reader fills in when the task row has none: that of the order,
\* else the latest one any call of the task logged.
HydratedRequest ==
    IF task.req # None THEN task.req
    ELSE IF bill[task.run].req # None THEN bill[task.run].req
    ELSE calls.latest

\* LogAPICall for a call of run r that named job j (or None): the id goes to
\* the order and, whatever has become of the task, to the task row; the log is
\* stored.  A poll is not stored by itself but folded into the last create
\* log of the task, its success or failure included.
LogIds(r, j) ==
    IF j = None THEN UNCHANGED <<bill, task>>
    ELSE /\ bill' = [bill EXCEPT ![r].req = j]
         /\ task' = [task EXCEPT !.req = j]

LatestOf(j) == IF j = None THEN calls.latest ELSE j

LogCreate(r, j, ok) ==
    /\ LogIds(r, j)
    /\ calls' = [created |-> TRUE, ok |-> ok, okBefore |-> calls.okBefore \/ calls.ok,
                 latest |-> LatestOf(j)]

LogPoll(r, j, ok) ==
    /\ LogIds(r, j)
    /\ calls' = [calls EXCEPT !.ok = calls.created /\ ok, !.latest = j]

LogCancel(r, j) ==
    /\ LogIds(r, j)
    /\ calls' = [calls EXCEPT !.latest = j]

\* TaskHasSuccessfulBillableCall: of the task, in any of its runs.
Billed == calls.ok \/ calls.okBefore

-----------------------------------------------------------------------------
(* Workers.                                                                *)

others == <<cancel, retrying, recon, resolved, crashes>>

At(w, pc) == worker[w].pc = pc

Goto(w, pc) == worker' = [worker EXCEPT ![w].pc = pc]

\* The goroutine returns: its deferred calls drop the registered context of
\* the task, whoever registered it, and stop the heartbeat.
Finish(w) ==
    /\ worker' = [worker EXCEPT ![w] = IdleWorker]
    /\ active' = [active EXCEPT ![ProcessOf[w]] = Nobody]

\* Mutant of ClaimNextTask: a running task is taken over whatever its lease.
ClaimAnyRunning(w) ==
    /\ At(w, "idle")
    /\ task.status \in {"queued", "running"}
    /\ task' = [task EXCEPT !.status = "running", !.owner = ProcessOf[w], !.lease = TRUE]
    /\ worker' = [worker EXCEPT ![w] = [IdleWorker EXCEPT
                    !.pc = "claimed", !.run = task.run, !.req = task.req]]
    /\ UNCHANGED <<bill, calls, job, active, others>>

\* Mutant of ClaimNextTask: only the queue is looked at.
ClaimQueuedOnly(w) ==
    /\ At(w, "idle")
    /\ task.status = "queued"
    /\ task' = [task EXCEPT !.status = "running", !.owner = ProcessOf[w], !.lease = TRUE]
    /\ worker' = [worker EXCEPT ![w] = [IdleWorker EXCEPT
                    !.pc = "claimed", !.run = task.run, !.req = task.req]]
    /\ UNCHANGED <<bill, calls, job, active, others>>

ClaimNextTask(w) ==
    /\ At(w, "idle")
    /\ task.status = "queued" \/ (task.status = "running" /\ ~task.lease)
    /\ task' = [task EXCEPT !.status = "running", !.owner = ProcessOf[w], !.lease = TRUE]
    /\ worker' = [worker EXCEPT ![w] = [IdleWorker EXCEPT
                    !.pc = "claimed", !.run = task.run, !.req = task.req]]
    /\ UNCHANGED <<bill, calls, job, active, others>>

\* registerActiveTask, then a second look at the task.
Register(w) ==
    /\ At(w, "claimed")
    /\ IF task.status = "cancelled"
       THEN Finish(w)
       ELSE /\ active' = [active EXCEPT ![ProcessOf[w]] = w]
            /\ Goto(w, "preparing")
    /\ UNCHANGED <<task, bill, calls, job, others>>

\* MarkBillingRunning; the worker then submits the job, or goes on polling
\* the one the task row named when it was claimed.
PrepareBilling(w) ==
    LET me == worker[w] IN
    /\ At(w, "preparing")
    /\ bill[me.run].status \in {"reserved", "running"}
    /\ bill' = [bill EXCEPT ![me.run].status = "running"]
    /\ worker' = [worker EXCEPT ![w].pc = IF me.req = None THEN "dispatching" ELSE "polling",
                                ![w].job = me.req]
    /\ UNCHANGED <<task, calls, job, active, others>>

\* MarkBillingRunning finds the order in no state to start from.
PreparationFails(w) ==
    /\ At(w, "preparing")
    /\ bill[worker[w].run].status \notin {"reserved", "running"}
    /\ MarkTerminalState("failed")
    /\ Goto(w, "refunding")
    /\ UNCHANGED <<bill, calls, job, active, others>>

RefundPreparation(w) ==
    /\ At(w, "refunding")
    /\ RefundOrder(worker[w].run)
    /\ Finish(w)
    /\ UNCHANGED <<task, calls, job, others>>

\* processTask has returned.  refreshTaskProviderState then copies the job id
\* of the task row, which is latest by now, unless it is empty.
Returns(w, result, latest) ==
    worker' = [worker EXCEPT
        ![w].pc = IF result = "delivered" THEN "delivered" ELSE "failing",
        ![w].result = result,
        ![w].req = IF latest # None THEN latest ELSE worker[w].req]

Interrupted(w, result) == IF worker[w].canceled THEN "canceled" ELSE result

NewJob(w) ==
    /\ At(w, "dispatching")
    /\ Len(job) < MaxJobs
    /\ job' = Append(job, [run |-> worker[w].run, state |-> "working"])

SubmitAccepted(w) ==
    /\ NewJob(w)
    /\ worker' = [worker EXCEPT ![w].pc = "accepted", ![w].job = Len(job')]
    /\ UNCHANGED <<task, bill, calls, active, others>>

\* The job exists upstream, but the answer never arrives.
SubmitAnswerLost(w) ==
    /\ NewJob(w)
    /\ LogCreate(worker[w].run, None, FALSE)
    /\ Returns(w, Interrupted(w, "unclear"), task.req)
    /\ UNCHANGED <<active, others>>

SubmitRejected(w) ==
    /\ At(w, "dispatching")
    /\ LogCreate(worker[w].run, None, FALSE)
    /\ Returns(w, Interrupted(w, "failed"), task.req)
    /\ UNCHANGED <<job, active, others>>

RecordAccepted(w) ==
    /\ At(w, "accepted")
    /\ LogCreate(worker[w].run, worker[w].job, TRUE)
    /\ Goto(w, "polling")
    /\ UNCHANGED <<job, active, others>>

\* LogAPICall fails at its first write; the worker polls on.
RecordFails(w) ==
    /\ At(w, "accepted")
    /\ MarkUncertain(worker[w].run)
    /\ Goto(w, "polling")
    /\ UNCHANGED <<task, calls, job, active, others>>

\* A poll that the provider answers: the job is on its way, done or over.
Poll(w, states) ==
    LET j == worker[w].job IN
    /\ At(w, "polling")
    /\ job[j].state \in states
    /\ LogPoll(worker[w].run, j, TRUE)
    /\ UNCHANGED <<job, active, others>>

PollPending(w) == Poll(w, {"working"}) /\ UNCHANGED worker

\* Mutant of PollDelivers: any job that is over counts as delivered.
PollDeliversAnyEnd(w) ==
    Poll(w, {"done", "failed", "cancelled"}) /\ Returns(w, "delivered", worker[w].job)

PollDelivers(w) == Poll(w, {"done"}) /\ Returns(w, "delivered", worker[w].job)

PollFails(w) == Poll(w, {"failed", "cancelled"}) /\ Returns(w, "failed", worker[w].job)

\* A poll that the provider does not answer, or answers with an HTTP error.
PollBreaks(w) ==
    LET me == worker[w] IN
    /\ At(w, "polling")
    /\ LogPoll(me.run, me.job, FALSE)
    /\ \E result \in {"failed", "unclear"} : Returns(w, Interrupted(w, result), me.job)
    /\ UNCHANGED <<job, active, others>>

\* Nothing is sent or logged: the context ends while the worker sleeps between
\* two polls, or the channel has been switched off for failing too often.
PollStops(w) ==
    /\ At(w, "polling")
    /\ \E result \in {"deadline", "unclear", "failed"} : Returns(w, Interrupted(w, result), task.req)
    /\ UNCHANGED <<task, bill, calls, job, active, others>>

\* Every request to the provider, the create call as well as each poll, takes
\* a channel slot first; getting one may fail or be cancelled.
SlotFails(w) ==
    LET me == worker[w] IN
    \E why \in IF me.canceled THEN {"slotCanceled"} ELSE {"slot", "slotDeadline"} :
        \/ At(w, "dispatching") /\ LogCreate(me.run, None, FALSE) /\ Returns(w, why, task.req)
        \/ At(w, "polling") /\ LogPoll(me.run, me.job, FALSE) /\ Returns(w, why, me.job)
    /\ UNCHANGED <<job, active, others>>

\* persistGeneratedMediaResult failed: an execution error after a success.
PersistFails(w) ==
    /\ At(w, "delivered")
    /\ worker' = [worker EXCEPT ![w].pc = "failing", ![w].result = "unsaved"]
    /\ UNCHANGED <<task, bill, calls, job, active, others>>

\* The lease is lost: the task is left to the worker that claims it next.
AbandonLost(w) ==
    /\ At(w, "failing")
    /\ worker[w].lost
    /\ Finish(w)
    /\ UNCHANGED <<task, bill, calls, job, others>>

\* Out of time, but the job goes on: back to the queue for a later poll.
MayDefer(w) ==
    /\ task.interface = "deferrable"
    /\ worker[w].result \in {"deadline", "slotDeadline"}
    /\ worker[w].req # None

DeferToPoll(w) ==
    /\ At(w, "failing")
    /\ ~worker[w].lost
    /\ MayDefer(w)
    /\ IF task.status = "running" /\ task.owner = ProcessOf[w]
       THEN task' = [task EXCEPT !.owner = Nobody, !.lease = FALSE]
       ELSE UNCHANGED task
    /\ Finish(w)
    /\ UNCHANGED <<bill, calls, job, others>>

\* handleExecutionFailure: a cancelled worker first looks whether the user
\* has cancelled the task, and then leaves everything to the cancel request.
RecheckFailure(w) ==
    /\ At(w, "failing")
    /\ ~worker[w].lost
    /\ ~MayDefer(w)
    /\ IF worker[w].result \in Canceled /\ task.status = "cancelled"
       THEN Finish(w)
       ELSE Goto(w, "closing") /\ UNCHANGED active
    /\ UNCHANGED <<task, bill, calls, job, others>>

CloseFailed(w) ==
    /\ At(w, "closing")
    /\ MarkTerminalState(IF worker[w].result \in Canceled THEN "cancelled" ELSE "failed")
    /\ Goto(w, "charging")
    /\ UNCHANGED <<bill, calls, job, active, others>>

\* Whether a failed execution cost nothing: no slot was got, or the failure
\* is definite, no billable call of the task succeeded and the order is not
\* under review.
FailureIsFree(w) ==
    \/ worker[w].result \in NoSlot
    \/ /\ worker[w].result = "failed"
       /\ bill[worker[w].run].status # "uncertain"
       /\ ~Billed

\* Mutant of ChargeFailure: an unclear failure leaves its order as it is.
ChargeOnlyFree(w) ==
    /\ At(w, "charging")
    /\ IF FailureIsFree(w) THEN RefundOrder(worker[w].run) ELSE UNCHANGED bill
    /\ Finish(w)
    /\ UNCHANGED <<task, calls, job, others>>

ChargeFailure(w) ==
    /\ At(w, "charging")
    /\ IF FailureIsFree(w) THEN RefundOrder(worker[w].run) ELSE MarkUncertain(worker[w].run)
    /\ Finish(w)
    /\ UNCHANGED <<task, calls, job, others>>

\* The second look before a result is saved.
RecheckDelivered(w) ==
    /\ At(w, "delivered")
    /\ worker' = IF task.status = "cancelled"
                 THEN [worker EXCEPT ![w].pc = "discarding", ![w].run = task.run]
                 ELSE [worker EXCEPT ![w].pc = "saving"]
    /\ UNCHANGED <<task, bill, calls, job, active, others>>

\* SaveTaskCompletion: while the task is running, the worker's copy of the
\* whole row replaces it.  (The lease and the cancellation columns are
\* left out: nothing reads them once the task has succeeded.)
SaveTaskCompletion(w) ==
    LET me == worker[w] IN
    /\ At(w, "saving")
    /\ task.status = "running"
    /\ task' = [task EXCEPT !.status = "succeeded", !.run = me.run, !.req = me.req]
    /\ Goto(w, "settling")
    /\ UNCHANGED <<bill, calls, job, active, others>>

\* The task is not running any more, or its storage quota is exceeded.
SaveFails(w) ==
    /\ At(w, "saving")
    /\ worker' = IF task.status = "cancelled"
                 THEN [worker EXCEPT ![w].pc = "discarding", ![w].run = task.run]
                 ELSE [worker EXCEPT ![w].pc = "closing", ![w].result = "unsaved"]
    /\ UNCHANGED <<task, bill, calls, job, active, others>>

DiscardResult(w) ==
    /\ At(w, "discarding")
    /\ MarkUncertain(worker[w].run)
    /\ Finish(w)
    /\ UNCHANGED <<task, calls, job, others>>

SettleSuccess(w) ==
    /\ At(w, "settling")
    /\ SettleOrder(worker[w].run) \/ MarkUncertain(worker[w].run)
    /\ Finish(w)
    /\ UNCHANGED <<task, calls, job, others>>

\* RenewTaskLease, every 15 s: by process and running task.
Heartbeat(w) ==
    /\ ~At(w, "idle")
    /\ task.status = "running" /\ task.owner = ProcessOf[w]
    /\ ~task.lease
    /\ task' = [task EXCEPT !.lease = TRUE]
    /\ UNCHANGED <<bill, calls, job, worker, active, others>>

HeartbeatFails(w) ==
    /\ ~At(w, "idle") /\ ~worker[w].lost
    /\ ~(task.status = "running" /\ task.owner = ProcessOf[w])
    /\ worker' = [worker EXCEPT ![w].lost = TRUE, ![w].canceled = TRUE]
    /\ UNCHANGED <<task, bill, calls, job, active, others>>

WorkerStep(w) ==
    \/ ClaimNextTask(w) \/ Register(w) \/ PrepareBilling(w)
    \/ PreparationFails(w) \/ RefundPreparation(w)
    \/ SubmitAccepted(w) \/ SubmitAnswerLost(w) \/ SubmitRejected(w)
    \/ RecordAccepted(w) \/ RecordFails(w)
    \/ PollPending(w) \/ PollDelivers(w) \/ PollFails(w) \/ PollBreaks(w) \/ PollStops(w)
    \/ SlotFails(w)
    \/ PersistFails(w) \/ AbandonLost(w) \/ DeferToPoll(w)
    \/ RecheckFailure(w) \/ CloseFailed(w) \/ ChargeFailure(w)
    \/ RecheckDelivered(w) \/ SaveTaskCompletion(w) \/ SaveFails(w) \/ DiscardResult(w)
    \/ SettleSuccess(w) \/ Heartbeat(w) \/ HeartbeatFails(w)

-----------------------------------------------------------------------------
(* Cancel requests.                                                        *)

\* The request reads the task and fills in the upstream id.
ReadForCancel(c, p) ==
    /\ cancel[c].pc = "idle"
    /\ task.status \in {"queued", "running"}
    /\ cancel' = [cancel EXCEPT ![c] = [pc |-> "read", process |-> p, status |-> task.status,
                                        run |-> task.run, req |-> HydratedRequest]]
    /\ UNCHANGED <<task, bill, calls, job, worker, active, retrying, recon, resolved, crashes>>

\* Mutant of CancelTaskIfStatus: the status read before is not compared.
CancelTaskAnyStatus(c) ==
    /\ cancel[c].pc = "read"
    /\ task' = [task EXCEPT !.status = "cancelled", !.owner = Nobody, !.lease = FALSE]
    /\ cancel' = [cancel EXCEPT ![c].pc = "committed"]
    /\ UNCHANGED <<bill, calls, job, worker, active, retrying, recon, resolved, crashes>>

CancelTaskIfStatus(c) ==
    /\ cancel[c].pc = "read"
    /\ IF task.status = cancel[c].status
       THEN /\ task' = [task EXCEPT !.status = "cancelled", !.owner = Nobody, !.lease = FALSE]
            /\ cancel' = [cancel EXCEPT ![c].pc = "committed"]
       ELSE /\ cancel' = [cancel EXCEPT ![c] = IdleCancel]
            /\ UNCHANGED task
    /\ UNCHANGED <<bill, calls, job, worker, active, retrying, recon, resolved, crashes>>

\* cancelActiveTask: stop the context registered in this process, if any.
CancelActiveTask(c) ==
    LET w == active[cancel[c].process] IN
    /\ cancel[c].pc = "committed"
    /\ worker' = IF w = Nobody THEN worker ELSE [worker EXCEPT ![w].canceled = TRUE]
    /\ cancel' = [cancel EXCEPT ![c].pc = IF cancel[c].req # None
                                          THEN "claiming" ELSE "closing"]
    /\ UNCHANGED <<task, bill, calls, job, active, retrying, recon, resolved, crashes>>

\* Without an upstream id: a task cancelled in the queue is free, one that
\* was running has its order frozen for review.
CloseCancelled(c) ==
    /\ cancel[c].pc = "closing"
    /\ IF cancel[c].status = "queued"
       THEN RefundOrder(cancel[c].run) ELSE MarkUncertain(cancel[c].run)
    /\ cancel' = [cancel EXCEPT ![c] = IdleCancel]
    /\ UNCHANGED <<task, calls, job, worker, active, retrying, recon, resolved, crashes>>

\* requestProviderCancellation writes the id to the task row, then claims the
\* right to send the upstream cancellation.
ClaimTaskProviderCancellation(c) ==
    LET free == task.status = "cancelled" /\ task.cancel = "" IN
    /\ cancel[c].pc = "claiming"
    /\ task' = IF free
               THEN [task EXCEPT !.req = cancel[c].req, !.cancel = "requested", !.attempts = 1]
               ELSE [task EXCEPT !.req = cancel[c].req]
    /\ cancel' = [cancel EXCEPT ![c] =
                    IF free THEN [cancel[c] EXCEPT !.pc = "sending"] ELSE IdleCancel]
    /\ UNCHANGED <<bill, calls, job, worker, active, retrying, recon, resolved, crashes>>

\* The provider takes the cancellation, which may stop the job, or not.
SendCancellation(c) ==
    LET me == cancel[c] IN
    /\ me.pc = "sending" /\ task.interface = "cancellable"
    /\ \/ UNCHANGED job
       \/ job[me.req].state = "working" /\ job' = [job EXCEPT ![me.req].state = "cancelled"]
    /\ LogCancel(me.run, me.req)
    /\ \E pc \in {"idle", "refused"} :
        cancel' = [cancel EXCEPT ![c] = IF pc = "idle" THEN IdleCancel ELSE [me EXCEPT !.pc = pc]]
    /\ UNCHANGED <<worker, active, retrying, recon, resolved, crashes>>

\* The interface has no way to cancel.
CannotCancel(c) ==
    /\ cancel[c].pc = "sending" /\ task.interface = "deferrable"
    /\ cancel' = [cancel EXCEPT ![c].pc = "refused"]
    /\ UNCHANGED <<task, bill, calls, job, worker, active, retrying, recon, resolved, crashes>>

\* UpdateTaskProviderCancellation: only a requested cancellation moves.
CancelIsRequested == task.status = "cancelled" /\ task.cancel = "requested"

CancelMovesTo(status) ==
    task' = [task EXCEPT !.cancel = status, !.owner = Nobody, !.lease = FALSE]

\* Mutant of RefuseCancelled: the order is left as it is.
RefuseWithoutReview(c) ==
    /\ cancel[c].pc = "refused"
    /\ IF CancelIsRequested THEN CancelMovesTo("uncertain") ELSE UNCHANGED task
    /\ cancel' = [cancel EXCEPT ![c] = IdleCancel]
    /\ UNCHANGED <<bill, calls, job, worker, active, retrying, recon, resolved, crashes>>

\* markProviderCancellationUncertain: first the task, then the order.
RefuseCancelled(c) ==
    /\ cancel[c].pc = "refused"
    /\ IF CancelIsRequested
       THEN CancelMovesTo("uncertain") /\ cancel' = [cancel EXCEPT ![c].pc = "reviewing"]
       ELSE UNCHANGED task /\ cancel' = [cancel EXCEPT ![c] = IdleCancel]
    /\ UNCHANGED <<bill, calls, job, worker, active, retrying, recon, resolved, crashes>>

ReviewCancelled(c) ==
    /\ cancel[c].pc = "reviewing"
    /\ MarkUncertain(cancel[c].run)
    /\ cancel' = [cancel EXCEPT ![c] = IdleCancel]
    /\ UNCHANGED <<task, calls, job, worker, active, retrying, recon, resolved, crashes>>

CancelStep(c) ==
    \/ CancelTaskIfStatus(c) \/ CancelActiveTask(c) \/ CloseCancelled(c)
    \/ ClaimTaskProviderCancellation(c) \/ SendCancellation(c) \/ CannotCancel(c)
    \/ RefuseCancelled(c) \/ ReviewCancelled(c)

-----------------------------------------------------------------------------
(* The cancellation reconciler.                                            *)

\* Mutant of ClaimNextTaskProviderCancellation: the attempts are not counted.
ClaimWithoutCounting(p) ==
    /\ recon.pc = "idle"
    /\ CancelIsRequested /\ ~task.lease
    /\ task' = [task EXCEPT !.owner = Reconciler, !.lease = TRUE]
    /\ recon' = [pc |-> "querying", process |-> p, run |-> task.run, req |-> task.req,
                 attempts |-> task.attempts]
    /\ UNCHANGED <<bill, calls, job, worker, active, cancel, retrying, resolved, crashes>>

\* Mutant of ClaimNextTaskProviderCancellation: it never gives up.
ClaimForever(p) ==
    /\ recon.pc = "idle"
    /\ CancelIsRequested /\ ~task.lease
    /\ task' = [task EXCEPT !.owner = Reconciler, !.lease = TRUE, !.attempts = @ + 1]
    /\ recon' = [pc |-> "querying", process |-> p, run |-> task.run, req |-> task.req,
                 attempts |-> task'.attempts]
    /\ UNCHANGED <<bill, calls, job, worker, active, cancel, retrying, resolved, crashes>>

\* Claim the task for one query, or give up after too many.
ClaimNextTaskProviderCancellation(p) ==
    /\ recon.pc = "idle"
    /\ CancelIsRequested /\ ~task.lease
    /\ task' = [task EXCEPT !.owner = Reconciler, !.lease = TRUE, !.attempts = @ + 1]
    /\ recon' = [pc |-> IF task'.attempts >= MaxAttempts THEN "refused" ELSE "querying",
                 process |-> p, run |-> task.run, req |-> task.req, attempts |-> task'.attempts]
    /\ UNCHANGED <<bill, calls, job, worker, active, cancel, retrying, resolved, crashes>>

\* Ask the provider what has become of the job.
QueryProviderCancellation ==
    LET state == job[recon.req].state IN
    /\ recon.pc = "querying" /\ task.interface = "cancellable"
    /\ recon' = [recon EXCEPT !.pc = IF state = "working" THEN "deferring" ELSE state]
    /\ LogCancel(recon.run, recon.req)
    /\ UNCHANGED <<job, worker, active, cancel, retrying, resolved, crashes>>

\* No answer, or an interface that cannot be asked and so is not called.
QueryFails ==
    /\ recon.pc = "querying"
    /\ recon' = [recon EXCEPT !.pc =
                    IF recon.attempts >= MaxAttempts - 1 THEN "refused" ELSE "deferring"]
    /\ IF task.interface = "cancellable"
       THEN LogCancel(recon.run, recon.req) ELSE UNCHANGED <<task, bill, calls>>
    /\ UNCHANGED <<job, worker, active, cancel, retrying, resolved, crashes>>

\* The job was cancelled or has failed: the order is refunded; a refund that
\* does not go through is tried again later.
ReconcileStopped ==
    /\ recon.pc \in {"cancelled", "failed"}
    /\ \/ /\ bill[recon.run].status # "settled"
          /\ RefundOrder(recon.run)
          /\ recon' = [recon EXCEPT !.pc = IF @ = "cancelled" THEN "confirmed" ELSE "uncertain"]
       \/ /\ recon' = [recon EXCEPT !.pc = "deferring"]
          /\ UNCHANGED bill
    /\ UNCHANGED <<task, calls, job, worker, active, cancel, retrying, resolved, crashes>>

\* The job was done before the cancellation: the order is settled.
ReconcileDone ==
    /\ recon.pc = "done"
    /\ SettleOrder(recon.run) \/ MarkUncertain(recon.run)
    /\ recon' = [recon EXCEPT !.pc = "uncertain"]
    /\ UNCHANGED <<task, calls, job, worker, active, cancel, retrying, resolved, crashes>>

UpdateCancellation ==
    /\ recon.pc \in {"deferring", "confirmed", "uncertain"}
    /\ IF CancelIsRequested
       THEN CancelMovesTo(IF recon.pc = "deferring" THEN "requested" ELSE recon.pc)
       ELSE UNCHANGED task
    /\ recon' = IdleRecon
    /\ UNCHANGED <<bill, calls, job, worker, active, cancel, retrying, resolved, crashes>>

GiveUpCancellation ==
    /\ recon.pc = "refused"
    /\ IF CancelIsRequested
       THEN CancelMovesTo("uncertain") /\ recon' = [recon EXCEPT !.pc = "reviewing"]
       ELSE UNCHANGED task /\ recon' = IdleRecon
    /\ UNCHANGED <<bill, calls, job, worker, active, cancel, retrying, resolved, crashes>>

ReviewGivenUp ==
    /\ recon.pc = "reviewing"
    /\ MarkUncertain(recon.run)
    /\ recon' = IdleRecon
    /\ UNCHANGED <<task, calls, job, worker, active, cancel, retrying, resolved, crashes>>

ReconStep ==
    \/ \E p \in Process : ClaimNextTaskProviderCancellation(p)
    \/ QueryProviderCancellation \/ QueryFails \/ ReconcileStopped \/ ReconcileDone
    \/ UpdateCancellation \/ GiveUpCancellation \/ ReviewGivenUp

-----------------------------------------------------------------------------
(* Retry, manual resolution.                                               *)

\* The task and its order are read and found fit for another run.
CheckRetry ==
    /\ ~retrying
    /\ task.status \in {"failed", "cancelled"} /\ task.cancel # "requested"
    /\ bill[task.run].status # "uncertain"
    /\ retrying' = TRUE
    /\ UNCHANGED <<task, bill, calls, job, worker, active, cancel, recon, resolved, crashes>>

NewRun == CHOOSE r \in Run : bill[r].status = "none"

\* Mutant of RetryTaskWithBilling: the upstream id of the last run stays.
RetryKeepsRequest ==
    /\ retrying /\ retrying' = FALSE
    /\ task.status \in {"failed", "cancelled"}
    /\ \E r \in Run : bill[r].status = "none"
    /\ bill' = [bill EXCEPT ![NewRun].status = "reserved"]
    /\ task' = [task EXCEPT !.status = "queued", !.run = NewRun, !.cancel = "", !.attempts = 0]
    /\ UNCHANGED <<calls, job, worker, active, cancel, recon, resolved, crashes>>

\* A new order and a reset row, if the task is still failed or cancelled.
RetryTaskWithBilling ==
    /\ retrying /\ retrying' = FALSE
    /\ IF task.status \in {"failed", "cancelled"}
       THEN /\ \E r \in Run : bill[r].status = "none"
            /\ bill' = [bill EXCEPT ![NewRun].status = "reserved"]
            /\ task' = [task EXCEPT !.status = "queued", !.owner = Nobody, !.lease = FALSE,
                                    !.run = NewRun, !.req = None, !.cancel = "", !.attempts = 0]
       ELSE UNCHANGED <<task, bill>>
    /\ UNCHANGED <<calls, job, worker, active, cancel, recon, resolved, crashes>>

\* An administrator settles or refunds an order by hand.
ResolveBillingOrder(r) ==
    /\ bill[r].status \in OpenBill
    /\ SettleOrder(r) \/ RefundOrder(r)
    /\ resolved' = resolved \cup {r}
    /\ UNCHANGED <<task, calls, job, worker, active, cancel, retrying, recon, crashes>>

-----------------------------------------------------------------------------
(* The surroundings: upstream jobs, time and crashes.                      *)

JobEnds(j) ==
    /\ job[j].state = "working"
    /\ \E state \in {"done", "failed"} : job' = [job EXCEPT ![j].state = state]
    /\ UNCHANGED <<task, bill, calls, worker, active, others>>

\* The lease of an actor that is gone runs out, or, where a stalled heartbeat
\* is allowed for, that of any actor.
LeaseExpires ==
    /\ task.lease /\ task.status \in {"running", "cancelled"}
    /\ \/ LeaseMayLapse
       \/ /\ \A w \in Worker : ~At(w, "idle") => ProcessOf[w] # task.owner
          /\ recon.pc = "idle"
    /\ task' = [task EXCEPT !.lease = FALSE]
    /\ UNCHANGED <<bill, calls, job, worker, active, others>>

Crash(p) ==
    /\ crashes < MaxCrashes
    /\ crashes' = crashes + 1
    /\ worker' = [w \in Worker |-> IF ProcessOf[w] = p THEN IdleWorker ELSE worker[w]]
    /\ active' = [active EXCEPT ![p] = Nobody]
    /\ cancel' = [c \in CancelRequest |-> IF cancel[c].process = p THEN IdleCancel ELSE cancel[c]]
    /\ recon' = IF recon.process = p THEN IdleRecon ELSE recon
    /\ UNCHANGED <<task, bill, calls, job, retrying, resolved>>

-----------------------------------------------------------------------------
Next ==
    \/ \E w \in Worker : WorkerStep(w)
    \/ \E c \in CancelRequest :
        \/ \E p \in Process : ReadForCancel(c, p)
        \/ CancelStep(c)
    \/ ReconStep
    \/ CheckRetry \/ RetryTaskWithBilling
    \/ \E r \in Run : ResolveBillingOrder(r)
    \/ \E j \in DOMAIN job : JobEnds(j)
    \/ LeaseExpires
    \/ \E p \in Process : Crash(p)

Spec == Init /\ [][Next]_vars

\* Goroutines that have something to do run; the worker pool and the reconciler
\* come round every few seconds; a lease that nobody renews runs out.
Fairness ==
    /\ \A w \in Worker : WF_vars(WorkerStep(w))
    /\ \A c \in CancelRequest : WF_vars(CancelStep(c))
    /\ WF_vars(ReconStep)
    /\ WF_vars(LeaseExpires)

FairSpec == Spec /\ Fairness

-----------------------------------------------------------------------------
(* Properties.                                                             *)

Submitted(r) == \E j \in DOMAIN job : job[j].run = r
Delivered(r) == \E j \in DOMAIN job : job[j].run = r /\ job[j].state = "done"
Stopped(r) == \E j \in DOMAIN job : job[j].run = r /\ job[j].state \in {"failed", "cancelled"}

\* Nobody holds a copy of the task or has a step left to take on it.
Quiet ==
    /\ \A w \in Worker : At(w, "idle")
    /\ \A c \in CancelRequest : cancel[c].pc = "idle"
    /\ recon.pc = "idle"

\* The user pays for a run only when the provider delivered a job of that
\* same run, whichever of the worker and the reconciler settles the order.
ChargedForOwnJob ==
    \A r \in Run \ resolved : bill[r].status = "settled" => Delivered(r)

\* When a task has ended and all its actors are done, every order of it has
\* been decided: it is final or up for review, and none still holds credits as
\* if its run were going on.
NoForgottenHold ==
    (Quiet /\ task.status \in {"succeeded", "failed", "cancelled"} /\ task.cancel # "requested")
        => \A r \in Run : bill[r].status \notin {"reserved", "running"}

\* What a run costs in the end: it is paid for if the provider delivered it,
\* and decided when nobody is left to decide it.
BillIsRight == ChargedForOwnJob /\ NoForgottenHold

\* A cancel request that found the task in the queue refunds the order of a
\* run that has not been sent to the provider.
QueuedCancelIsFree ==
    \A c \in CancelRequest :
        cancel[c].pc \in {"committed", "closing", "claiming"} /\ cancel[c].status = "queued"
            => ~Submitted(cancel[c].run)

\* Workers never send one run to the provider twice.
OneJobPerRun ==
    \A i, j \in DOMAIN job : job[i].run = job[j].run => i = j

\* What the user sees and what he pays agree: a task that failed was not
\* charged for, and one that succeeded was not given back.
StatusMatchesBill ==
    task.run \notin resolved =>
        /\ task.status = "failed" => bill[task.run].status # "settled"
        /\ task.status = "succeeded" => bill[task.run].status # "refunded"

\* A finished task stays finished until the user retries it, whatever copies
\* of it workers, cancel requests and the reconciler still hold.
SucceededIsFinal ==
    [][task.status = "succeeded" => task'.status = "succeeded"]_vars

\* Every task comes to an end, by its own time limit if by nothing else, also
\* after a crash of its worker.
TaskEnds == (task.status \in {"queued", "running"}) ~> (task.status \notin {"queued", "running"})

\* A requested upstream cancellation is confirmed or goes to review, by the
\* limit on attempts if the provider never answers.
CancellationEnds == (task.cancel = "requested") ~> (task.cancel # "requested")

-----------------------------------------------------------------------------
(* What comments, messages and tests of the code say.                      *)

\* A late result does not turn a cancelled run into a success
\* (task_lifecycle.go): a run that was given up and retried, so that a later
\* order exists, is not the one that succeeds.
CancelledRunNeverSucceeds ==
    task.status = "succeeded" => \A r \in Run : bill[r].status # "none" => r <= task.run

\* A failed run with a "successful billable call" goes to review
\* (task_billing_test.go): one whose create call was accepted, so that its
\* order carries the id of the job, is not taken for a failure that cost
\* nothing, however the polls after it went.
AcceptedFailureIsReviewed ==
    \A w \in Worker :
        (At(w, "charging") /\ worker[w].result \notin NoSlot /\ bill[worker[w].run].req # None)
            => ~FailureIsFree(w)

\* "The slot failed before the request" (task_worker.go, task_terminal.go): a
\* run whose failure is refunded on this ground was never sent.
SlotRefundWasUnsent ==
    \A w \in Worker : At(w, "charging") /\ worker[w].result \in NoSlot => ~Submitted(worker[w].run)

\* "Billing could not be prepared, nothing was sent" (task_worker.go): the
\* order refunded on this ground is that of a run the provider never saw.
PreparationRefundWasUnsent ==
    \A w \in Worker : At(w, "refunding") => ~Submitted(worker[w].run)
=============================================================================
