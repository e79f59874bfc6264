# A TLA+ model of FilmOS Studio

This directory models the parts of FilmOS Studio in which money, long-running
work and documents meet: the backend's credit ledger and generation tasks
(`src/backend`, Go), the canvas agent that drives the Dreamina command line
(`src/canvas-agent`, TypeScript), and the stores of the web client (`src/web`,
TypeScript). The modules are written from the code; the map in `PROJECT.json`
gives the lines each definition stands for.

- `tlc -config X.cfg M` runs a check (`PROJECT.json` "runs" pairs them),
  `tlapm M.tla` the proofs of a module `M` whose name ends in `Proofs` (section 9).
- `CreditSettlement`, `CreditLedger`, `TaskLifecycle` are about the backend;
  `CliArbiter`, `StateFile`, `DreaminaJournal`, `TaskProjection`, `TaskEffects`
  about the agent; `CanvasDocument`, `GenerationEffects`, `RemoteSync` about the
  web client. Modules whose names begin with `MC` give constants their values.

## 1. Inventory

The repository holds a Go backend, a React client, a local "canvas agent"
(TypeScript, with a native bridge in Go) and plugin packages. The protocols
between actors are in the backend, the agent and the stores of the client: a user
asks for an image, a video or a text, credits are frozen, a worker calls an
upstream provider, and the credits are consumed or given back.

| Component | State it keeps | Operations | Talks to | What makes it correct |
|---|---|---|---|---|
| Credit ledger (`repository/finance.go`, `service/finance.go`) | `credit_accounts`, `credit_ledger_entries`, `billing_orders`, `redeem_codes` | grant, redeem, adjust, reserve, reprice, mark running / uncertain, settle, refund | called by everything below, inside one database | every order ends once; balances, entries and orders agree; nothing is overdrawn except by a token supplement |
| Task life cycle (`service/task_*.go`, `repository/repository.go`) | `tasks` row: status, lease, run, upstream id | claim, heartbeat, submit, poll, defer, fail, complete, cancel, retry | ledger, call log, provider, slots | the user pays for what was delivered; nothing is sent twice; ended tasks stay ended; no hold is forgotten |
| Upstream cancellation (`service/provider_task_cancellation.go`) | `tasks.provider_cancel_*` | claim, send, query, retry, give up | provider, ledger | the order follows what became of the job; a request for cancellation ends |
| Call log (`service/admin.go` `LogAPICall`) | `api_call_logs` | log, fold polls into the create call, write ids back | task row, order | later decisions (refund or review, which upstream id) read it |
| Manual recovery (`service/provider_task_recovery.go`) | lease on a failed task | query, restore, settle | provider, ledger | restored only if not refunded, settled once |
| Model router (`service/model_router.go`) | `route_attempts` | begin, dispatch, finish, switch route | ledger (repricing), provider | a request that may have been accepted is never sent elsewhere |
| Coordination (`service/coordination.go`) | slots, rate windows, breaker; in memory or in Redis | acquire, release, count, open | workers, proxy | limits are kept, slots come back |
| ComfyUI Bridge queue (`service/comfy_bridge.go`) | `comfy_bridge_requests`, wake-up channels | enqueue, poll, complete, cancel, revoke | native bridge, workers | a request has one outcome; waiters wake |
| Text replay (`service/text_replay.go`) | `task_text_delta`, drafts | append, compact, clean up | worker, client | no delta lost before its draft, quotas kept |
| Resource deletion (`service/resource_deletion_worker.go`) | deletion jobs with leases | claim, retry, complete | object storage | every object is deleted in the end, references are respected |
| Quotas (`service/storage_quota.go`, `upload_quota.go`) | counters, leases | reserve, commit, release | task completion, uploads | usage stays under the limit |
| Synchronous proxy (`handler/auth.go`, `system_proxy_stream.go`) | one order per request | reserve, stream, settle / refund / review | ledger, slots | as the ledger |
| Projects, assets, accounts, catalog, admin | documents and configuration | create, read, update, delete | | single-transaction record keeping |
| Dreamina arbiter (`dreamina-cli-arbiter.ts`, `dreamina-cli.ts`) | a file: queue of tickets, active lease with its fence, account session | acquire, heartbeat, commit or advance the session, release; status, login, logout, query | Runtimes, command line tool | one command at a time, in order; a late holder writes nothing; a task is queried under its own account |
| State files (`dreamina-cli-state.ts`) | lock directory, file, backup | lock, take over, recover, replace | the file system | an acknowledged write survives any crash |
| Task journal (`dreamina-cli-runtime.ts`, `dreamina-task-reconciler.ts`) | records of tasks, queue tickets, leases; a copy in each Runtime | enqueue, reserve, submit, accept, fail, cancel, delete, poll | arbiter, state file, provider | each task is submitted once; slots are not oversold; outcomes are the provider's |
| Projection (`dreamina-task-projection.ts`, `dreamina-task-contract.ts`) | the product's tasks | recover, compare-and-swap | journal, product store | tasks only move forward and catch up |
| Effects of tasks (`dreamina-task-store.ts`) | outbox, inbox | claim, finish, lapse, compact | browser, projection | an effect is done once; the store stays readable |
| Canvas document (`use-canvas-store.ts`, `canvas-storage-revision.ts`, `canvas-generation-consumer.ts`) | document in IndexedDB, copy in each tab, queued saves | edit, save, merge, publish an effect, reload | other tabs, effects, sync | edits survive merges; a result shows up with its commit |
| Generation effects and assets (`provider-neutral-generation-effects.ts`, `generation-*.ts`, `use-asset-store.ts`) | effect records with leases, asset library per account | claim, heartbeat, insert, complete, release, delete, switch account | tabs, canvas | completed means delivered, once, to the right account |
| Synchronisation (`user-data-sync.ts`, `user-session.ts`) | acknowledged snapshots, one chain of operations | sign in, hydrate, upload, delete | server, stores | nothing stale or foreign is uploaded; edits arrive |

What is hard in it:

- **Concurrency.** Workers, cancel requests, a background reconciler, retries
  and administrators act on one task row and one order. Most statements compare
  the status only, and act on copies read earlier.
- **Isolation.** SQLite and PostgreSQL are both supported, and the release
  transactions read the order without a lock.
- **Failure.** A process may stop between any two statements; a provider may
  answer late, twice, wrongly or never; leases run out.
- **Evidence.** Whether a failure is free is decided from call logs, which other
  calls overwrite (finding 5).

- **Shared files and tabs.** The agent's processes share files under a lock of
  their own making, with leases that lapse; the tabs of a browser share
  IndexedDB and localStorage and merge their copies.

`PROJECT.json` lists these hazards at their lines, with the properties that
watch them, or a note where none does yet.

## 2. Modules, and what is left of the plan

| Module | Models | State |
|---|---|---|
| `CreditSettlement`, `CreditLedger` | credits; abstract promise, tables | checked, proved (`CreditLedgerProofs`) |
| `TaskLifecycle` | a generation task of the backend | checked, proved (`TaskLifecycleProofs`) |
| `CliArbiter` | the right to run the command line | checked, proved (`AgentFilesProofs`) |
| `StateFile` | how a file is locked and replaced | checked, proved (`AgentFilesProofs`) |
| `DreaminaJournal` | Runtimes and the reconciler | checked, proved (`DreaminaJournalProofs`) |
| `TaskProjection` | journal to product store | checked, proved (`ProductStoreProofs`) |
| `TaskEffects` | claims of effects, capacity | checked, proved (`ProductStoreProofs`) |
| `CanvasDocument` | one canvas in several tabs | checked, proved (`DocumentSyncProofs`) |
| `GenerationEffects` | outcomes to assets, accounts | checked, proved (`GenerationEffectsProofs`) |
| `RemoteSync` | one tab and the server | checked, proved (`DocumentSyncProofs`) |
| `MCStudioClient` | one instance of each of the last eight | checked, proved (`StudioClientProofs`) |

What would come next: `RouteDispatch` (route attempts and failover of the backend), `ComfyBridgeQueue`,
`ChannelCoordination`, manual recovery, text replay, resource deletion.

How they meet. `TaskLifecycle` uses the status of an order and takes a settlement
as one step, which `LedgerImplementsSettlement` justifies where an outdated read
cannot commit. `DreaminaJournal`, `CliArbiter` and `TaskEffects` take an operation
under the lock of a file as one step; `StateFile` is about that lock.
`DreaminaJournal` lets the right to run the command line be lost at any time, which
is what `CliArbiter` says of a holder. `TaskProjection` lets the journal move as
its rules allow. `RemoteSync` takes a tab's store and its IndexedDB copy as one;
`CanvasDocument` and `GenerationEffects` are about how the copy is written. Each
assumption of one module on another is thus weaker than what the other does.

## 3. CreditLedger

**State.** `available`, `reserved`: the columns of `credit_accounts`. `order`:
status, amount held, actual amount of a `billing_orders` row; an order that does
not exist has status `none`. `posted`: for each order the totals of the delta
columns of its ledger entries; `deposited`: for each user what came from outside any
order. `releases`: how many consume
and refund entries ended an order. `usedKeys`: the unique reference keys of
grants and the redeem codes gone. `call`: a settlement or refund that has read
its order.

**Actions.** One for each transaction. Those that decide by a conditional
`UPDATE` are one step. `SettleBillingOrder` and `RefundBillingOrder` read the
order without a lock, so each is `BeginRelease` and then `SettleFixed`,
`SettleByUsage` or `Refund`, or `ReleaseFails`, or `SettleFailsWithUsage` (the
usage that `SettleBillingOrder` keeps, outside its transaction, when settlement
fails). `Isolation` says what a commit in between does: under `"snapshot"`
(SQLite in WAL mode) the later write is refused, under `"readCommitted"`
(PostgreSQL) it goes ahead on the row read before.

Two abstractions: a ledger entry is its deltas, added to `posted`; the usage a
provider reports and the price that follows from it are a member of `Usage`. The
update of the account (`MoveCredits`) and the insertion of the entry (`PostEntry`) are
separate, with the deltas the code gives each: a usage settlement moves the account
once and posts a consume entry and a refund entry (`PostUsage`).
`AmountMicrocredits` and `ReservedAmountMicrocredits` are one field, since every
writer sets them together.

**`CreditSettlement`** is what the ledger promises without tables or
transactions: free credits, holds, and orders that end once.

| Run | Question | Result |
|---|---|---|
| `ledger_snapshot` | On SQLite, do accounts, entries and orders agree, does an order end once, and is the abstract promise kept? | all hold |
| `ledger_double_release` | Does a final order stay final on PostgreSQL? | **violated**: finding 1 |

`HoldsAreBacked` and `CreditsConserved` relate accounts and orders;
`EntriesExplainOrders` relates orders and entries: the reserved deltas posted for an order
add up to what it holds, the available deltas to what it holds and has cost. A
settlement that posts one entry too few, or by a row read too early, breaks it.

What survives on PostgreSQL (no reserve below zero) is not a run: `TypeCorrect` proves
it (section 9).

Bounds: one account, two orders (fixed price and token), two release
transactions, prices 1 and 2, usage 0 or 3 (below and above every hold), one
grant, one code, deposits of 2 up to 4, withdrawals of 1. Interference needs two
orders on one account and two releases; a second account shares no row with the
first. `MaxDeposit` is the only bound in a guard. No fairness: nothing here is
about progress. Deadlock is not checked, because a ledger whose orders are final
and whose deposits are made has nothing left to do.

## 4. TaskLifecycle

**State.** `task`: the `tasks` row (status, lease owner, whether the lease is
live, the run, the upstream id, the cancellation columns). A *run* is a billing
order: `retryTask` gives the task a new one. `bill`: the order of each run.
`calls`: of the `api_call_logs`, what the code reads back: whether there is a
create call, whether it counts as a success, and the latest upstream id. `job`:
the upstream jobs. `worker`, `cancel`, `recon`, `retrying`: the program counters
of goroutines and requests, with the copies of the row they hold. `active`: the
map `activeCancels` of each process.

**Actions.** Every database statement or transaction is a step.

- *Workers* follow `processClaimedTask`: `ClaimNextTask`, `Register`,
  `PrepareBilling` (or `PreparationFails`, `RefundPreparation`), the create call
  with its outcomes (`SubmitAccepted`, `SubmitAnswerLost`, `SubmitRejected`,
  `SlotFails`), `RecordAccepted` / `RecordFails`, the polls, then failure
  (`DeferToPoll`, `RecheckFailure`, `CloseFailed`, `ChargeFailure`) or success
  (`RecheckDelivered`, `SaveTaskCompletion`, `SettleSuccess`, `DiscardResult`).
  `Heartbeat` and `HeartbeatFails` may come in between at any time.
- *Cancel requests* follow `cancelTask` and `requestProviderCancellation`.
- *The reconciler* follows `ClaimNextTaskProviderCancellation` and
  `reconcileProviderCancellation`. There is one at a time, since its 30 s
  context ends with its lease.
- *Retry* is `CheckRetry` (the reads) and `RetryTaskWithBilling`.
- *Surroundings*: a job ends, a lease runs out, a process crashes, an
  administrator resolves an order.

`Interface` says which kinds of video interface a task may have: `"cancellable"` (Ark,
Veo: can be asked to cancel and queried) and `"deferrable"` (NewAPI channel 2:
cannot cancel, but a poll that runs out of time puts the task back in the
queue).

**What is left out or simplified.**

- Route attempts: the task bills a system channel directly. Synchronous image and
  text tasks, and the ComfyUI Bridge branch of cancellation.
- `LogAPICall` writes order, task row and log one after the other; here that is
  one step. A failure of it is modelled at its first write only.
- Reads a request makes in a row before its first write are one step
  (`ReadForCancel`, `CheckRetry`, `ChargeFailure`). Further
  interleavings would come with other splits; no property relies on the coarse ones
  to be violated.
- A poll folds into the last create call, and `calls.latest` is the last id
  written: the log is not kept as a list.
- The lease and cancellation columns that `SaveTaskCompletion` writes back are
  left out: nothing reads them once a task has succeeded.
- Refunds fail only where the code reacts to it (`ReconcileStopped`);
  settlements fail in `ReconcileDone` and `SettleSuccess`.

| Run | Question | Result |
|---|---|---|
| `task_billing` | A user cancels a task, or retries it, while two workers of one process and the reconciler are at it, both kinds of interface | all hold |
| `task_poll_refund` | Is a run whose job the provider accepted reviewed when it fails? | **violated**: finding 5 |
| `task_handover` | The lease lapses under a live worker, a second process takes over, polls are deferred | all hold |
| `task_progress` | Do tasks and cancellations end, with a crash and a silent provider? | all hold |

Bounds: two processes or two workers (a stale actor and its successor), two runs
where retry matters, two jobs (one sent twice, or one for each of two runs), one
cancel request, three cancellation attempts (the code has 41: what matters is
claiming below, at and above the limit; two in `task_progress`), one crash.
`MaxRuns`, `MaxJobs` and `MaxCrashes` are in guards; `MaxAttempts` is the code's
own limit, at least 2. Each run leaves out what another one is about; a behaviour
of `task_billing` is followed until the task has been both cancelled and retried
(`CancelledOrRetried`), since the two together are the subject of section 8. Processes and the workers in
them are interchangeable, so runs without liveness use that symmetry. Deadlock
is not checked, because a task that has ended and is not retried stops for
good.

Properties that hold only within what their run allows: `OneJobPerRun` needs
leases that do not lapse and no crash (a crash between submission and
`RecordAccepted` makes the next worker submit again); `ChargedForOwnJob` holds
with retry or with cancellation, but not with both (section 8);
`QueuedCancelIsFree` and `NoForgottenHold` hold within one run, or without
cancellation. Section 9 proves each of them, for any constants, from just these limits.
`BillIsRight` is `ChargedForOwnJob` and
`NoForgottenHold` together.

Fairness (`FairSpec`): weak fairness of each worker, each cancel request, the
reconciler and the expiry of a lease nobody renews. Workers and the reconciler
are goroutines with tickers (`task_worker.go` `start`,
`startProviderCancellationReconciliation`); a lease is a time stamp. The worker's
fairness is on the disjunction of its steps, and a job may work for ever; what
ends such a task is the worker's own time limit, which is among those steps.
The bounded number of jobs cannot starve anybody, as a submission may also be
rejected.

## 5. The canvas agent

Everything here is a file under a lock, and processes that may stop between two
operations. Times are facts: a deadline has passed or not, a lease has lapsed or
not, and steps say when that may happen.

**`CliArbiter`.** `arbiter` is the file (next ticket, next fence, queue, active
lease), `session` the account session in it, `call` the invocations with their
program counters. `TakeTicket`, `Grant`, `KeepWaiting`, `Refused`, `Leave` are
`acquire`; `RunCommand`, `CheckLease`, `CommitSession`, `KeepSession`,
`ConfirmSession`, `Release` the course of a command in `dreamina-cli.ts`, with
`Heartbeat`, `LeaseRunsOut`, `DeadlinePasses`, `LoginFlowExpires`, `Crash` around
it. The initial session may be bound already, by an earlier process. An aborted
call that has claimed but not yet looked leaks its lease until it lapses; this is a
holder that crashes. The `--version` call of `prepare` changes nothing and is left
out.

**`StateFile`.** One step for each call of the file system: taking the lock,
observing, moving and judging a stale one, recovery, the temporary file, the
renames, the removal of the backup. The content of the file is the set of writes
it reflects; `Removal` are the writes that take a record away. A lock whose owner is
gone (crashed, or returned after another had moved its lock aside and put it back)
goes stale (`OwnerGone`).

**`DreaminaJournal`.** `journal` is the file, `memory` each Runtime's copy,
`submission` the course of one submission (queue, reservation, fence, command,
receipt), `poller` the reconciler. The provider makes one job for each submission
that arrives (`jobs`) and has a status for it (`official`). Faults are failed
writes, releases and locks and a clock set back. Only tests call `run`, the older
path with a lock of its own (`dreamina-cli-runtime.ts` about 1126-1300): it is
left out. A defensive branch of `CommitAcceptedReceipt` (the record no longer
accepts the receipt) and one of `CommitObservation` are kept as the code has them
and never fire.

**`TaskProjection`.** `source` is the journal seen from outside, `stored` the
product's task, `projector` a recovery under way: read everything, then one
compare-and-swap for each task, four attempts. **`TaskEffects`.** `disk` is the
store with its capacity; a claim has a token and a fence; compaction is part of
every write.

The run `agent_safety` has two calls of two services with a lapsed lease and a
crash; three processes on one file where renaming over it is refused, with a
crash (they are alike, so `FilePart` lets a given one write first; once a live lock was
stolen it stops at two writes of three); two Runtimes and one
task with a fault or a restart, and one Runtime with two
tasks and one slot (part `"slots"`), where the account changes; two projectors; two
browsers with three effects of two tasks and room for one task.

- `FencedWrites`, `NoOvertaking`, `LeaseKeepsItsSession`: who may write the
  session, who is served first, what a query finds.
- `AckedWritesKept`: what was reported as written is found by the next owner of the
  lock. It is claimed while no live lock has been moved away (`stolen`, section 8).
- `SubmittedOnce`, `SlotsRespected`, `OutcomeIsOfficial`: the journal against the
  provider.
- `ProjectionsAdvance`, `EffectDoneOnce`, `DiskIsReadable`: the product's store.

## 6. The web client

**`CanvasDocument`.** `document` is what IndexedDB holds, with revision and
tombstones; `store[t]` what tab `t` shows; `observed` and `queue` the base and the
queued save. All entities of a project are merged by the same `mergeEntities`; a
node stands for any of them. A generation is `BeginEffect`, the lock, the drain of
the queue, the commit, the publication, with the failures in between. The last read of
the document before a publication (`canvas-generation-consumer.ts:503`) is part of
`PublishEffect`: an edit made during it is taken for one made after, since the page
writes what it gets through to the store and so queues the result and the edit again.

**`GenerationEffects`.** A consumer claims the record of its outcome under a lease,
puts the asset into the library under the library's lock, and completes the
record. `shelf` is what a page has in memory, `unsaved` and `broken` what is not
written yet. `BeginSwitch` and `SwitchUser` change the account after the consumers
have been aborted and drained, which `SwitchAtOnce` (the mutant) does not wait for.

**`RemoteSync`.** `tail` is the chain of operations, `remote` the state of the module
(account, phase, acknowledged versions), `syncing` the batch under way. A version
knows which account made it and when, so that a stale or foreign upload shows.

The run `web_safety` has two tabs, one node, one effect and two edits with a failed
write or a reload; two pages, one outcome, two accounts, with a lapsed lease and a failed
write; two accounts, two entities, another device and a lost request.

- `StampsAreCommitted`, `PublishingKeepsEdits`: a result is in the document with
  its own commit only, and its publication costs no edit.
- `CompletedIsDelivered`, `DoneStaysDone`: a completed effect has its asset in the
  library, and stays completed.
- `AccountsStayApart`, `NoStaleUpload`: nothing of one account reaches another;
  the server gets nothing made before the session's baseline.

**Composition and bounds.** The eight components share no variables. `MCStudioClient`
gives a behaviour one of them, its `part`, and checks it; a run over several parts
is the union of their runs. (Their interleavings would multiply the states and show
nothing about either.) The bounds are constants named in each module and appear in
guards: tickets, crashes, writes, faults, restarts, versions, claims, edits, lapses.
They are chosen so that a stale actor, its successor and one failure meet; the
mutants show that each property is broken within them. Failures come one at a
time: what takes two is in section 8. Deadlock is not checked, because the bounded
components stop.

**Liveness** (`client_progress`): `WaitsEnd`, `JournalSettles` and `WorkIsSaved`,
under `LiveClientSpec`. The fairness assumed:

- weak fairness of each call, process, projector, consumer and effect step: they
  are promise chains that go on;
- weak fairness of time: leases and deadlines of those who are gone run out, locks
  go stale, timers fire;
- strong fairness of a Runtime's claim of a due task and of a projector's read
  and swap: these repeat on an interval and compete for one lock. Four lost swaps end a
  round; the next one begins with the next request of a tab.

The instances are smaller (one account, one tab, no lost request), since a fault
may stop progress for good there: a failed save waits for the next edit.

| Run | Question | Result |
|---|---|---|
| `agent_safety` | Is the agent's state kept right across processes and crashes? | all hold |
| `web_safety` | Is the client's state kept right across tabs, accounts and failures? | all hold |
| `client_progress` | Does everything that waits or is queued come to an end? | all hold |
| `cli_bound_account` | Is a task only queried under the account it was submitted under? | **violated**: finding 2 |
| `state_file_removal` | Is the file recoverable at every interruption point? | **violated**: finding 3 |
| `canvas_deletion` | Does a deleted node stay deleted? | **violated**: finding 4 |

## 7. Findings

Each has a violation run; `PROJECT.json` quotes the lines.

1. On PostgreSQL a settlement and a refund of one order may both go through
   (`finance.go:786`): the order changes although it is final.
2. During a login, a status that still reads the old account's credit binds the
   session again; the new account inherits the binding, and tasks of the first are
   queried under the second (`dreamina-cli.ts:257`).
3. Where a file cannot be renamed over, a crash in a write that removes a pre-spawn
   record leaves the new file and the backup, which recovery refuses
   (`dreamina-cli-state.ts:142`).
4. A node deleted in one tab comes back with the second save of another tab that
   still shows it (`use-canvas-store.ts:381`).
5. A poll that the provider answers with an error overwrites the success of the create
   call in the log (`admin.go:717`). The run fails, no successful call is found, and its
   hold is given back although the provider accepted the job and goes on with it.

## 8. Further disagreements

Met while modelling and not kept as runs. Those with a property can be reproduced
by adding it to the cfg named; the others were seen in variants of a module or
follow from the lines given.

*Backend* (properties of `TaskLifecycle`). To reproduce: `CancelledRunNeverSucceeds`,
`ChargedForOwnJob`, `NoForgottenHold` and `QueuedCancelIsFree` in `TaskBilling.cfg`
without its `CONSTRAINT`; `SlotRefundWasUnsent` in `TaskHandover.cfg` and
`PreparationRefundWasUnsent` in `TaskBilling.cfg` as they are.

- `CancelledRunNeverSucceeds`: a late result of a cancelled run completes the
  retried task (`repository.go:465` compares the status only).
- `SlotRefundWasUnsent`: a poll that gets no channel slot refunds the run as never
  sent (`provider.go:3934`).
- `ChargedForOwnJob`: after a retry a cancellation settles the new run by the job of
  the last one (`service.go:195`).
- `PreparationRefundWasUnsent`: a deferred task whose order went under review is
  refunded as never sent (`task_terminal.go:86`).
- `QueuedCancelIsFree`: a cancellation decided on a queued task hits its next run.
- A task can be retried between the statement that closes it and the one that
  puts its order under review, although `task_lifecycle.go:46` refuses to.
- A crash between cancelling a task and asking for its upstream cancellation
  (`task_lifecycle.go:159`) leaves its order running. The administrators' review
  list shows such an order after 40 minutes (`finance.go:503`).
- A deferrable task is put back for another poll as often as its job goes on, so
  `TaskEnds` is checked for cancellable interfaces only.

*Agent*:

- Two failures in a row (a release, then the lock) let `failTask` overwrite an
  accepted record by a failed one.
- A record that another Runtime has removed from the journal (before the spawn, or
  deleted while reserved) makes a Runtime that still has it in memory refuse the
  whole file until it restarts (`dreamina-cli-runtime.ts:1514`).
- After logging in again with the same account there is a new binding, and tasks
  accepted under the old one are not queried any more; the tests at
  `dreamina-cli-runtime.test.ts:3359` and `:3427` say that this is meant.
- A failure of `scheduleBackground` is swallowed: the accepted record is not polled
  until a restart or a manual refresh.
- With three processes a takeover may move away the fresh lock of a live owner
  (`dreamina-cli-state.ts:612`), and an acknowledged write can be lost.
- A record left `unknown` without a receipt holds its slot for ever.
- Outbox rows of projections are neither delivered nor compacted; at the capacity
  of 50,000 the store refuses to write and the routes that need it stop.
- A projected task stays QUEUED_LOCAL or SUBMITTING after its record was taken away
  before the spawn. A key that is enqueued again starts with version 1, below
  what was projected; under another account, after the fence was committed, its
  projection fails, and with it that of the records after it.

*Web client*:

- `ResultsStay`: an edit queued while a result is being committed, in a page that does
  not show the result yet, is based on the committed document but made of the old memory
  (`use-canvas-store.ts:172`). The merge takes the old content for a change of the user,
  and the save removes the result but leaves its stamp, so that a replay finds the effect
  done. The page repairs its copy if it lives on and the node has no content
  (`use-canvas-generation.ts:314`). The test titled "queued regular Canvas writes cannot
  overwrite a completed generation effect"
  (`user-scoped-generation-persistence.test.ts:1001`) queues its edit before the commit.
  To reproduce: `ResultsStay` in `CanvasDeletion.cfg` with `Field = {"content", "title"}`
  and `Effect = {1}`.
- `StampsAreCommitted` holds for one effect at a time, as `web_safety` checks it. With
  two under way in one tab an ordinary save may carry a result without its stamp: on
  one node because a snapshot is rolled back by the first attempt found only
  (`use-canvas-store.ts:248`); on two nodes, with two edits, because a conflict is
  reconciled against the `after` of an attempt that already showed the other one.
  `Effect = {1, 2}` in `WebSafety.cfg` shows the first.
  `SoleTabIsSaved` fails with two on one node whose drains both fail: the roll-back of
  the second to fail takes the stamp of the first off the store, but not its result.
  It also fails with two on two nodes: the first fails while a save is queued and
  leaves its stamp in the store, the user edits that node, and the publication of the second
  takes the stamp off, so that nothing is left to tell that the edit was never saved.
- A node that was deleted and brought back by the save of a tab that had not seen the
  deletion (section 7) may lose the stamp of a committed effect, and with it the
  protection from a replay: a failed save of before the deletion, written late, puts the
  stamp back, and one of a third tab, based on the stamp and made without it, takes it
  out again (four tabs, ten edits and two failed writes). `StampsStay` has the premise
  that excludes this.
- A write of the asset library that fails makes the next flush throw, so that an
  account switch or logout fails until a retry or a reload
  (`use-asset-store.ts:204`).
- The active account is one entry of localStorage that the tabs share and do not
  watch: after a switch in one tab another one saves what it shows under the new
  account. `GenerationEffects` switches with the other tabs closed.
- An answer of "completed" in one tab may name an asset that this tab's memory does not
  have yet.
- An edit between the last test of `syncQueued` and `syncPromise = null` would be
  missed; only microtasks fall there, so the model takes both as one step.
- A deletion whose answer is lost leaves the entity acknowledged and cached until a
  reload; edits not uploaded at a reload are lost, because hydration replaces the
  cache. Of two devices the last writer wins.

## 9. Proofs

`CreditLedgerProofs` proves, for any users, orders, prices and number of
concurrent transactions, from `LedgerAssumption` and `OrdersAreFinite` only (a table
has finitely many rows, or a sum over it would mean nothing):

| Theorem | Says | Isolation |
|---|---|---|
| `TypeCorrect` | `Spec => []TypeOK` (no reserve goes below zero) | either |
| `OrderReleasedOnce` | `Spec => []ReleasedOnce` | snapshot |
| `FinalOrdersStay` | `Spec => FinalIsFinal` | snapshot |
| `EntriesStayExplained` | `Spec => []EntriesExplainOrders` | snapshot |
| `HoldsStayBacked` | `Spec => []HoldsAreBacked` | snapshot |
| `CreditsStayConserved` | `Spec => []CreditsConserved` | snapshot |
| `LedgerImplementsSettlement` | `Spec => ImplementsSettlement` | snapshot |

All but the first rest on the inductive invariant

    SnapshotInv == TypeOK /\ ReadsAreCurrent /\ ReleasedOnce

`ReleasedOnce` alone is not inductive: a release acts on the row it read, and
only `ReadsAreCurrent` (a transaction whose read is not outdated has read an
open row equal to the present one) says that this row is still open. It is
re-established by each commit because a commit outdates every other read. The
proofs reduce the actions to five forms (`StepForms`), show each form
keeps the invariant (`SnapshotStep`), and from it that a release meets an open
order (`ReleasesAnOpenOrder`). The books (holds, credits, entries) are invariant on top of it
(`BooksStep`): a step either rewrites one order row and moves the owner's credits by
what that is worth (`BooksMove`), which for a release is so only because the row it
read is still the row it writes, or leaves holds and payments alone (`BooksStay`).
`EntriesMove` and `EntriesStay` say the same of the entries of that order, which for a usage
settlement is a sum of two.
What a sum over orders does when one of them changes is `SumMoves`. Its proof has to
show that the recursion behind `SumFunctionOnSet` defines a function (`TotalExists`) and
that the order in which elements are taken does not matter (`TotalRemoves`). Induction
principles that take an operator cannot be used, so these are proofs by least
counterexample, from the well-foundedness of `<` and of strict inclusion among finite
sets, which are plain facts. The refinement maps open orders to holds and the
status to an outcome; each action is a step of `CreditSettlement` or a stutter.

`AgentFilesProofs`, part 1, proves of the arbiter, for any services, calls, accounts, commands and bounds,
from `ArbiterAssumption` only:

| Theorem | Says |
|---|---|
| `ArbiterTypeCorrect` | `ArbiterSpec => []ArbiterTypeOK` |
| `LeaseKeepsSession` | `ArbiterSpec => []LeaseKeepsItsSession` |
| `WritesAreFenced` | `ArbiterSpec => FencedWrites` |
| `QueueIsFair` | `ArbiterSpec => NoOvertaking` |

They rest on one inductive invariant, `ArbiterInv`: types, tickets and fences that
are below the next ones and belong to one call each, and what a holder knows of
its lease. Fencing needs the uniqueness of fences: a stale holder's fence is not
the active one, and a fence never comes back. `QueueIsFair` needs that the queue
still has the ticket of everyone who waits and is not overdue, although others
prune it. The proof that a step keeps the invariant has a lemma for each action;
actions that change one call only share a frame lemma.

`GenerationEffectsProofs` proves, for any tabs, calls, effects, accounts and bounds,
from `EffectsAssumption` only:

| Theorem | Says |
|---|---|
| `EffectsTypeCorrect` | `EffectsSpec => []EffectsTypeOK` |
| `CompletedWasDelivered` | `EffectsSpec => []CompletedIsDelivered` |
| `CallsWorkForScope` | `EffectsSpec => []WorkStaysInAccount` |
| `DoneIsNeverUndone` | `EffectsSpec => DoneStaysDone` |

`CompletedIsDelivered` is not inductive: a record is completed for the account of
the call, the asset was written to the library the call had locked, and nothing in
it says that the two are one account or that the asset is still known there.
`EffectsInv` adds that the
two are one account (`ClaimsForScope`, which the switch keeps because
`ClosedIsQuiet`: the switching tab has drained its calls and the others are closed),
that the lock belongs to the call about to write an asset nobody has deleted
(`LockedToInsert`), and that what was inserted is in the library or among the
deletions (`InsertedIsThere`). `DoneStaysDone` follows from it with two facts on
single steps: `RecordStays`, because a claim, a completion, a release and a lapse
all ask for a record that is not completed, and `TombstonesStay`.

**The state file** (`AgentFilesProofs`, part 2), for any processes, writes and crashes,
with or without renaming over a file:

| Theorem | Says |
|---|---|
| `StateFileTypes` | `StateFileSpec => []StateFileTypeOK` |
| `AcknowledgedWritesKept` | `StateFileSpec => []AckedWritesKept` |
| `RecoverableWithoutRemoval` | the file is recoverable at every point unless a write removes a record and renaming over is refused |
| `KeptUntilACrash` | until a process crashes no live lock is moved away and every reported write is kept |

`AckedWritesKept` is about two files and says nothing of the process between two of
its calls. `FileInv` adds that, while no live lock has been moved away, the owner of
the lock and the process in the critical section are one (`LockInv`: a process checks
its lock before some calls and not before others), that this process knows what the
files hold (`Knows`), and that two files at once are an interrupted replacement whose
new file has grown (`Grown`). The last one is what a removal breaks: the second and
third theorem bound findings 3 and the takeover of section 8 from the other side.

**The journal** (`DreaminaJournalProofs`), for any Runtimes, tasks, accounts, slots,
faults and restarts:

| Theorem | Says |
|---|---|
| `JournalTypes` | `JournalSpec => []JournalTypeOK` |
| `SubmittedAtMostOnce` | `JournalSpec => []SubmittedOnce` |
| `SlotsNeverOversold` | `JournalSpec => []SlotsRespected` |
| `OutcomesAreOfficial` | `JournalSpec /\ ReleasesSucceed => []OutcomeIsOfficial` |

`JournalInv` says of each task that at most one Runtime drives it (`DrivenOnce`),
that its record is one the code can write (`Valid`), that the provider has no job of it
or one the record knows of, by its receipt or by a state that allows for one
(`Accounted`), and what the Runtime that drives it (`Drives`) and the one that polls it
(`Polls`) may take for granted about the record. The record is shared, so each
action is shown to keep what the others rely on (`Keeps`); `SubmittedOnce` then follows
because a second submission would need a driver whose record is still unsubmitted.
`SlotsRespected` needs that only finitely many records are known at a time.
`ReleasesSucceed` says that releasing the command line's lease does not fail: with that
and one more fault the code overwrites an accepted record by a failed one (section 8), so
that the property is false without it. TLC checks it with one fault.

**The product's store** (`ProductStoreProofs`), for any projectors, tasks, effects, tabs
and capacities:

| Theorem | Says |
|---|---|
| `StoreTypes`, `ProjectionTypesCorrect` | the type invariants |
| `StoreIsReadable` | `TaskEffectsSpec => []DiskIsReadable` |
| `EffectsDoneOnce` | `TaskEffectsSpec => []EffectDoneOnce` |
| `StoreAdvances` | `ProjectionSpec => ProjectionsAdvance` |

`StoreInv`: the file fits, every row finds its task, a claim that a tab holds has the
fence of its row or an older one, and what a tab was told it has completed is finished in
the file or has been compacted away with its task, which does not come back
(`FinishedStays`, `DeletedStays`). Of compaction, which chooses what to drop, the
proofs use only that it removes settled rows and leaves the rest (`Shrinks`).
`ProjectionInv`: the verdict and the outputs that are stored, and those of every record a
recovery has read and not yet written, however old, are what the journal says once it
has a receipt (`Agrees`), since the journal does not take a verdict back. That is why
a swap that wins with an old reading does no harm.

**The browser's documents** (`DocumentSyncProofs`), for any tabs, accounts, entities,
nodes and bounds:

| Theorem | Says |
|---|---|
| `SyncTypesCorrect`, `CanvasTypesCorrect` | the type invariants |
| `DataStays` | `SyncSpec => []DataStaysWithMember` |
| `UploadsAreFresh` | `SyncSpec => NoStaleUpload` |
| `StampsComeWithCommits` | `OneEffect => (CanvasSpec => []StampsAreCommitted)` |
| `StampsStayWithNodes` | `CanvasSpec => StampsStay(n)` for every node |
| `PublishingSparesEdits` | `CanvasSpec => PublishingKeepsEdits` |
| `SoleTabDeletes` | `OneTab /\ ~UsersRestore => (CanvasSpec => DeletionsStay)` |
| `SoleTabSaves` | `OneEffect => (CanvasSpec => []SoleTabIsSaved)` |

A version is uploaded under the cookie of the moment, long after its round was put
together. `SyncInv` says that a round which is being sent is at the head of the tail,
that a change of account waits behind it with the workspace closed (`SessionOK`,
`TailOK`), whose versions are where (`Owned`), and that what differs from the
acknowledged version was made in this session (`Fresh`). In the canvas, `StampInv` says
that while an effect is not committed neither its stamp nor its result is in anything
a save is made of: the document, what a tab has observed, what it has queued; that a
store shows the result with its stamp only, and only at the target; and that the
attempt remembers a clean node. An ordinary save and the fallback after a conflict
then leave a clean document (`OrdinaryIsClean`, `FallbackIsClean`). `OneEffect` (there is
one effect) is what `web_safety` checks; with two the property is false (section 8).
`StampsStay(n)` has no run: TLC does not check a formula of its form. It says that
while a node stays in the document its stamps do, so that a replay finds them.
`StampsOnlyAdded` is what it takes: no save that is queued drops a stamp that its base
has, nor will the one that is queued while another is being sent, whose base that one
becomes. Without the premise it is false, for any number of effects (section 8).

`SoleTabDeletes` is the other side of finding 4: with one tab a deleted node stays deleted,
for any number of effects, so that it takes the second tab of `canvas_deletion` to bring one
back. Its invariant `SoleReads` says what a single tab knows: between a write and the
moment it has resolved the tab's readings are old, at any other moment what it has observed
and what its queued save is based on is the document, revision included. So an ordinary save
replaces the document with what was queued (`OwnBaseIsReplaced`), and `NoneMissingInv` that
every node the tab shows is in the document, and in the queued save, is inductive.
`SoleTabSaves` says that no edit is lost between the two ways to write. What makes it hard is a node
that shows a result too early: a save of it carries a reconstruction. `SaveInv` says that
what is queued, or else the document, agrees with what the tab shows wherever it has the stamps the
tab shows (`ShowsSaved`); that taking an uncommitted result back costs nothing else
(`RollsBack`); and, from the commit to its publication, that where nothing is queued the
tab is behind by the result only (`CommitShows`). The commit gets there because a merge without
conflict found the old content in the document, which `StampInv` keeps clean
(`CommittedTarget`), and the publication then makes the store equal to the document
(`CaughtUp`). TLC checked these invariants before they were proved. With two effects
`SoleTabIsSaved` is false (section 8).

**The task** (`TaskLifecycleProofs`), for any workers, processes, cancel requests and
bounds. The middle column says where it holds, besides `TaskAssumption`: *kept* stands for
`~LeaseMayLapse`, *apart* for one run or no cancel request.

| Theorem | Where | Says |
|---|---|---|
| `TaskTypeCorrect` | | `Spec => []TypeOK` |
| `SuccessIsFinal` | | `Spec => SucceededIsFinal` |
| `ChargesAreForOwnJobs` | one run; or kept and no cancel request | `Spec => []ChargedForOwnJob` |
| `UserPaysForWhatHeSees` | kept, apart | `Spec => []StatusMatchesBill` |
| `EveryBillIsDecided` | kept, apart, no crash | `Spec => []BillIsRight` |
| `NeverSentTwice` | kept, no crash; apart or nothing is deferred | `Spec => []OneJobPerRun` |
| `QueuedCancelsAreFree` | one run | `Spec => []QueuedCancelIsFree` |

These are the limits of the runs that check the properties (section 4); section 8 says
what the code does beyond several of them. The actors share one row and act on old
copies of it, so the invariants say what each may still take for granted:

- `TypeInv` counts: attempts stay within `MaxAttempts` and one more for each crash, and
  whoever is about to use an upstream id has one of an existing job, a job of an order
  that is open or was.
- `OneDriver`: with leases kept, one worker at most drives the run of the task, and the row
  names its process as the owner. It needs that a heartbeat finds out about a lost
  lease, and that a cancelled task is not taken up again.
- `CancelledOnce`: one cancel request at most gets past its compare-and-set, and the
  reconciler works on a cancelled task only.
- `OwnJobs`, `DeliveredFirst`: an id held for a run names a job of that run, and who is
  about to settle has seen it delivered.
- `Matches` (`ClosedFirst`): an order is settled or given back after the status says so.
  `Decided`: an order of an ended task that still holds credits has somebody on the way
  to decide it (a worker that closes it, the request, or the reconciler): the reason
  that a crash is excluded.
- `SentOnce`: a run that may yet be sent has not been, and a running task has its worker
  under a lease (`Attended`) or waits for one that will go on polling.
- `QueueIsUntouched`: within one run no worker is at a task that is still queued, no job of
  it exists and no call of it has succeeded.

Each step is sorted once by what it may disturb (`Steering`, `WorkerWays`,
`OtherWorkers`, `OrderMoves`, `JobsChange`); the invariants use those lemmas rather than
the actions.

**The composition** (`StudioClientProofs`): `AgentTypesCorrect`, `WebTypesCorrect` and
`AccountsAreApart` prove `AgentTypesOK`, `WebTypesOK` and `AccountsStayApart` for
`ClientSpec`: a behaviour of it is one of every component (`AgentComponents`,
`WebComponents`), so that the theorems above apply. `AccountsAreApart` joins
`CallsWorkForScope` and `DataStays`.

All these rest on the assumptions the modules name and on nothing else. Four of those say
that a name in use for "nobody" (in `TaskLifecycle`, also for the reconciler as an owner)
is not a process, a Runtime or an account.

Only model-checked: liveness (`WaitsEnd`, `JournalSettles`, the temporal parts of `WorkIsSaved`
and of the task), which is out of the prover's reach.

## 10. Not modelled

The map covers about 3 % of the TypeScript and JavaScript of the repository (and
the Go of sections 3 and 4). More than that cannot be had faithfully: of 124,500 lines
nearly all are generated WebAssembly glue, pages, panels, editors, drawing,
formatting, request shapes and settings, without a protocol between actors. What
keeps state between processes, tabs, accounts or crashes is in sections 5 and 6.
Of the components with such state these are missing:

- backend: manual recovery of video tasks, the logical model router, channel slots
  and the breaker, the ComfyUI Bridge queue, text replay, resource deletion, upload
  quotas, the synchronous proxy (section 2 names the modules they call for);
- agent: the MCP server and local runtime (request plumbing), the portrait clearance
  workflow, the native bridge;
- web client: the continuation of agent and cinematic sessions, which commits to
  the canvas as a generation does; conversations and settings, which one tab
  writes.

The rest is record keeping and plumbing: projects, accounts, catalog, admin,
packaging, migrations.
