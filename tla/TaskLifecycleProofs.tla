------------------------ MODULE TaskLifecycleProofs ------------------------
(***************************************************************************)
(* Proofs about TaskLifecycle, for any workers, processes, cancel requests *)
(* and bounds: its types, that success is final, that a run is sent to the *)
(* provider once, and that what the user pays is what the provider         *)
(* delivered and what the status of the task says.  Each theorem names the *)
(* limits within which it holds, those of the runs of MCTaskLifecycle      *)
(* that check it.                                                          *)
(***************************************************************************)
EXTENDS TaskLifecycle, TLAPS

-----------------------------------------------------------------------------
(* Types.                                                                  *)

Known == 0..Len(job)

\* An order that is open stays known, and a job that exists.
Opened(r) == bill[r].status # "none"

TaskTyped ==
    /\ task \in TaskRow /\ task.req \in Known /\ Opened(task.run)
    /\ task.cancel # "" => task.status = "cancelled"
    /\ task.cancel = "requested" => task.req # None

BillTyped ==
    /\ bill \in [Run -> BillRow] /\ Opened(1)
    /\ \A r \in Run : bill[r].req \in Known

CallsTyped == calls \in CallLog /\ calls.latest \in Known

Job == [run : Run, state : {"working", "done", "failed", "cancelled"}]

JobTyped ==
    /\ job \in Seq(Job)
    /\ Len(job) <= MaxJobs
    /\ \A j \in DOMAIN job : Opened(job[j].run)

WorkerTyped ==
    /\ worker \in [Worker -> WorkerRow]
    /\ \A w \in Worker :
        /\ worker[w].req \in Known /\ worker[w].job \in Known /\ Opened(worker[w].run)
        /\ worker[w].pc \in {"accepted", "polling"} => worker[w].job # None

CancelTyped ==
    /\ cancel \in [CancelRequest -> CancelRow]
    /\ \A c \in CancelRequest :
        /\ cancel[c].req \in Known /\ Opened(cancel[c].run)
        /\ cancel[c].pc \in {"claiming", "sending"} => cancel[c].req # None

ReconTyped ==
    /\ recon \in ReconRow /\ recon.req \in Known /\ Opened(recon.run)
    /\ recon.pc = "querying" => recon.req # None

RestTyped ==
    /\ active \in [Process -> Worker \cup {Nobody}]
    /\ retrying \in BOOLEAN /\ resolved \subseteq Run /\ crashes \in 0..MaxCrashes

AttemptsBounded ==
    /\ task.attempts <= MaxAttempts + crashes
    /\ recon.attempts <= MaxAttempts + crashes
    /\ task.cancel = "requested" /\ recon.pc # "refused" => task.attempts < MaxAttempts + crashes

TypeInv ==
    /\ TaskTyped /\ BillTyped /\ CallsTyped /\ JobTyped /\ WorkerTyped
    /\ CancelTyped /\ ReconTyped /\ RestTyped /\ AttemptsBounded

\* Orders and jobs are only added.
Grows ==
    /\ Known \subseteq Known'
    /\ \A r \in Run : Opened(r) => Opened(r)'

LEMMA TypeInvOK == TypeInv => TypeOK
BY DEF TypeInv, TypeOK, TaskTyped, BillTyped, CallsTyped, JobTyped, WorkerTyped, CancelTyped,
    ReconTyped, RestTyped, Job

LEMMA InitTyped == Init => TypeInv
<1> SUFFICES ASSUME Init PROVE TypeInv
    OBVIOUS
<1>0. 1 \in Run /\ 0 \in 0..MaxAttempts + MaxCrashes /\ 0 \in 0..MaxCrashes /\ 0 < MaxAttempts + 0
      /\ MaxJobs >= 0
    BY TaskAssumption DEF TaskAssumption, Run
<1>1. job = <<>> /\ Len(job) = 0 /\ Known = {0}
    <2>1. job = <<>>
        BY DEF Init
    <2> QED
        BY <2>1 DEF Known
<1>2. bill = [r \in Run |-> [status |-> IF r = 1 THEN "reserved" ELSE "none", req |-> None]]
    BY DEF Init
<1>3. BillTyped
    BY <1>0, <1>1, <1>2 DEF BillTyped, BillRow, Known, Opened, None, OpenBill
<1>4. CallsTyped /\ JobTyped
    <2>1. calls = [created |-> FALSE, ok |-> FALSE, okBefore |-> FALSE, latest |-> None]
        BY DEF Init
    <2>2. CallsTyped
        BY <2>1, <1>1 DEF CallsTyped, CallLog, None
    <2>3. JobTyped
        BY <1>0, <1>1 DEF JobTyped
    <2> QED
        BY <2>2, <2>3
<1>5. TaskTyped /\ task.attempts = 0 /\ task.cancel = ""
    <2>1. PICK i \in Interface :
            task = [status |-> "queued", owner |-> Nobody, lease |-> FALSE, interface |-> i,
                    run |-> 1, req |-> None, cancel |-> "", attempts |-> 0]
        BY DEF Init
    <2>2. task \in TaskRow
        BY <2>1, <1>0 DEF TaskRow, None
    <2>3. task.run = 1 /\ task.req = 0 /\ task.cancel = "" /\ task.attempts = 0
        BY <2>1 DEF None
    <2> QED
        BY <2>2, <2>3, <1>3, <1>1 DEF TaskTyped, BillTyped
<1>6. WorkerTyped
    <2>1. worker = [w \in Worker |-> IdleWorker]
        BY DEF Init
    <2>2. IdleWorker \in WorkerRow
        BY <1>0 DEF IdleWorker, WorkerRow, Result, None
    <2>3. IdleWorker.run = 1 /\ IdleWorker.req = 0 /\ IdleWorker.job = 0 /\ IdleWorker.pc = "idle"
        BY DEF IdleWorker, None
    <2> QED
        BY <2>1, <2>2, <2>3, <1>3, <1>1 DEF WorkerTyped, BillTyped
<1>7. CancelTyped
    <2>1. cancel = [c \in CancelRequest |-> IdleCancel]
        BY DEF Init
    <2>2. IdleCancel \in CancelRow
        BY <1>0 DEF IdleCancel, CancelRow, None
    <2> QED
        BY <2>1, <2>2, <1>3, <1>1 DEF CancelTyped, BillTyped, Known, None, IdleCancel
<1>8. ReconTyped
    <2>1. recon = IdleRecon
        BY DEF Init
    <2>2. IdleRecon \in ReconRow
        BY <1>0 DEF IdleRecon, ReconRow, None
    <2> QED
        BY <2>1, <2>2, <1>3, <1>1 DEF ReconTyped, BillTyped, Known, None, IdleRecon
<1>9. RestTyped
    BY <1>0 DEF Init, RestTyped
<1>10. AttemptsBounded
    <2>2. recon.attempts = 0 /\ crashes = 0
        BY DEF Init, IdleRecon
    <2>3. 0 <= MaxAttempts + 0
        BY TaskAssumption DEF TaskAssumption
    <2> QED
        BY <1>5, <2>2, <2>3 DEF AttemptsBounded
<1> QED
    BY <1>3, <1>4, <1>5, <1>6, <1>7, <1>8, <1>9, <1>10 DEF TypeInv

\* What a statement on an order does.
OrderStep(r) == MarkUncertain(r) \/ RefundOrder(r) \/ SettleOrder(r) \/ bill' = bill

LEMMA OrderKeeps ==
    ASSUME TypeInv, NEW r \in Run, OrderStep(r), job' = job
    PROVE  BillTyped' /\ Grows
<1>1. /\ bill' \in [Run -> BillRow]
      /\ \A x \in Run : bill'[x].req = bill[x].req /\ (Opened(x) => Opened(x)')
    BY DEF TypeInv, BillTyped, OrderStep, MarkUncertain, RefundOrder, SettleOrder, BillRow,
        OpenBill, Opened
<1>2. Known' = Known
    BY DEF Known
<1>3. 1 \in Run
    BY TaskAssumption DEF TaskAssumption, Run
<1> QED
    BY <1>1, <1>2, <1>3 DEF Grows, BillTyped, TypeInv

LEMMA LogKeeps ==
    ASSUME TypeInv, NEW r \in Run, NEW j \in Known', LogIds(r, j), Known \subseteq Known',
           Known' \subseteq JobId \cup {None}
    PROVE  BillTyped' /\ TaskTyped' /\ Grows
<1>1. /\ bill' \in [Run -> BillRow]
      /\ \A x \in Run : bill'[x].req \in {bill[x].req, j} /\ (Opened(x) => Opened(x)')
    BY DEF TypeInv, BillTyped, LogIds, BillRow, OpenBill, Opened
<1>2. /\ task' \in TaskRow /\ task'.req \in {task.req, j}
      /\ task'.run = task.run /\ task'.cancel = task.cancel /\ task'.status = task.status
      /\ task'.req = task.req \/ task'.req # None
    <2>1. CASE j = None
        BY <2>1 DEF TypeInv, TaskTyped, LogIds
    <2>2. CASE j # None
        <3>1. task' = [task EXCEPT !.req = j] /\ task \in TaskRow /\ j \in JobId
            BY <2>2 DEF TypeInv, TaskTyped, LogIds
        <3>2. task' \in TaskRow
            BY <3>1 DEF TaskRow
        <3>3. /\ task'.req = j /\ task'.run = task.run /\ task'.cancel = task.cancel
              /\ task'.status = task.status
            BY <3>1 DEF TaskRow
        <3> QED
            BY <2>2, <3>2, <3>3
    <2> QED
        BY <2>1, <2>2
<1>3. Grows
    BY <1>1 DEF Grows
<1>4. 1 \in Run /\ task.run \in Run
    <2>1. 1 \in Run
        BY TaskAssumption DEF TaskAssumption, Run
    <2> QED
        BY <2>1 DEF TypeInv, TaskTyped, TaskRow
<1>5. BillTyped'
    BY <1>1, <1>3, <1>4 DEF Grows, BillTyped, TypeInv
<1>6. TaskTyped'
    BY <1>2, <1>3, <1>4 DEF TypeInv, TaskTyped, Grows
<1> QED
    BY <1>3, <1>5, <1>6

LEMMA KeepTask ==
    ASSUME TypeInv, Grows, task' = task  PROVE TaskTyped'
<1>1. task.run \in Run
    BY DEF TypeInv, TaskTyped, TaskRow
<1> QED
    BY <1>1 DEF TypeInv, Grows, TaskTyped

LEMMA KeepBill ==
    ASSUME TypeInv, Grows, bill' = bill  PROVE BillTyped'
BY DEF TypeInv, Grows, BillTyped, Opened

LEMMA KeepCalls ==
    ASSUME TypeInv, Grows, calls' = calls  PROVE CallsTyped'
BY DEF TypeInv, Grows, CallsTyped

LEMMA KeepJob ==
    ASSUME TypeInv, Grows, job' = job  PROVE JobTyped'
<1>1. \A j \in DOMAIN job : job[j] \in Job
    BY DEF TypeInv, JobTyped
<1>2. \A j \in DOMAIN job : job[j].run \in Run
    BY <1>1 DEF Job
<1> QED
    BY <1>2 DEF TypeInv, Grows, JobTyped

LEMMA KeepWorker ==
    ASSUME TypeInv, Grows, worker' = worker  PROVE WorkerTyped'
BY DEF TypeInv, Grows, WorkerTyped, WorkerRow

LEMMA KeepCancel ==
    ASSUME TypeInv, Grows, cancel' = cancel  PROVE CancelTyped'
BY DEF TypeInv, Grows, CancelTyped, CancelRow

LEMMA KeepRecon ==
    ASSUME TypeInv, Grows, recon' = recon  PROVE ReconTyped'
BY DEF TypeInv, Grows, ReconTyped, ReconRow

-----------------------------------------------------------------------------
(* Types: a worker's steps.                                                *)

\* Worker w has the row s from now on.
Moves(w, s) == worker' = [x \in Worker |-> IF x = w THEN s ELSE worker[x]]

\* A row that a worker may have after the step.
Fits(s) ==
    /\ s \in WorkerRow /\ s.req \in Known' /\ s.job \in Known' /\ bill'[s.run].status # "none"
    /\ s.pc \in {"accepted", "polling"} => s.job # None

Registered == active' \in [Process -> Worker \cup {Nobody}]

LEMMA WorkerStepTyped ==
    ASSUME TypeInv, NEW w \in Worker, NEW s, Moves(w, s), Fits(s), Registered, Grows,
           BillTyped', TaskTyped', CallsTyped', JobTyped', UNCHANGED others,
           task'.attempts = task.attempts, task'.cancel = task.cancel
    PROVE  TypeInv'
<1>1. WorkerTyped'
    <2>1. \A x \in Worker : worker[x].run \in Run
        BY DEF TypeInv, WorkerTyped, WorkerRow
    <2>2. worker' \in [Worker -> WorkerRow]
        BY DEF TypeInv, WorkerTyped, Moves, Fits
    <2>3. \A x \in Worker : worker'[x] = IF x = w THEN s ELSE worker[x]
        BY DEF Moves
    <2> QED
        BY <2>1, <2>2, <2>3 DEF TypeInv, Grows, WorkerTyped, Fits, Opened
<1>2. CancelTyped' /\ ReconTyped'
    BY KeepCancel, KeepRecon DEF others
<1>3. RestTyped' /\ AttemptsBounded'
    BY DEF TypeInv, RestTyped, AttemptsBounded, Registered, others
<1> QED
    BY <1>1, <1>2, <1>3 DEF TypeInv

\* What a worker's row gives.
LEMMA RowFits ==
    ASSUME TypeInv, Grows, NEW w \in Worker
    PROVE  /\ worker[w] \in WorkerRow /\ worker[w].run \in Run /\ Opened(worker[w].run)
           /\ worker[w].req \in JobId \cup {None} /\ worker[w].job \in JobId \cup {None}
           /\ Fits(worker[w]) /\ Fits(IdleWorker)
<1>1. worker[w] \in WorkerRow /\ worker[w].run \in Run /\ Opened(worker[w].run)
      /\ worker[w].req \in JobId \cup {None} /\ worker[w].job \in JobId \cup {None}
    BY DEF TypeInv, WorkerTyped, WorkerRow
<1>2. Fits(worker[w])
    BY <1>1 DEF TypeInv, WorkerTyped, Grows, Fits, Opened
<1>3. Fits(IdleWorker)
    <2>1. 1 \in Run
        BY TaskAssumption DEF TaskAssumption, Run
    <2>2. IdleWorker \in WorkerRow
        BY <2>1 DEF IdleWorker, WorkerRow, Result, None
    <2>3. 0 \in Known
        BY DEF TypeInv, JobTyped, Known
    <2>4. IdleWorker.run = 1 /\ IdleWorker.req = 0 /\ IdleWorker.job = 0 /\ IdleWorker.pc = "idle"
        BY DEF IdleWorker, None
    <2> QED
        BY <2>1, <2>2, <2>3, <2>4 DEF TypeInv, BillTyped, Grows, Fits, Opened
<1> QED
    BY <1>1, <1>2, <1>3

\* A worker that only moves on in its program.
LEMMA PcFits ==
    ASSUME TypeInv, Grows, NEW w \in Worker,
           NEW pc \in {"idle", "claimed", "preparing", "refunding", "dispatching", "polling",
                    "failing", "closing", "charging", "delivered", "saving", "settling", "discarding"},
           At(w, "accepted") \/ pc # "polling"
    PROVE  Fits([worker[w] EXCEPT !.pc = pc])
BY RowFits DEF Fits, WorkerRow, At, TypeInv, WorkerTyped

LEMMA GotoMoves ==
    ASSUME TypeInv, NEW w \in Worker, NEW pc, Goto(w, pc)
    PROVE  Moves(w, [worker[w] EXCEPT !.pc = pc])
BY DEF Goto, Moves, TypeInv, WorkerTyped

LEMMA FinishMoves ==
    ASSUME TypeInv, NEW w \in Worker, Finish(w)
    PROVE  Moves(w, IdleWorker) /\ Registered
BY TaskAssumption DEF TaskAssumption, Finish, Moves, TypeInv, WorkerTyped, RestTyped, Registered

LEMMA ReturnsMoves ==
    ASSUME TypeInv, NEW w \in Worker, NEW result \in Result, NEW latest \in Known',
           Grows, Known' \subseteq JobId \cup {None}, Returns(w, result, latest)
    PROVE  \E s : Moves(w, s) /\ Fits(s)
<1> DEFINE s == [pc |-> IF result = "delivered" THEN "delivered" ELSE "failing",
                 run |-> worker[w].run, req |-> IF latest # None THEN latest ELSE worker[w].req,
                 job |-> worker[w].job, canceled |-> worker[w].canceled, lost |-> worker[w].lost,
                 result |-> result]
<1>1. worker[w] \in WorkerRow /\ Fits(worker[w])
    BY RowFits
<1>2. worker' = [x \in Worker |-> IF x = w THEN s ELSE worker[x]]
    <2>1. worker'[w] = s
        BY <1>1 DEF Returns, TypeInv, WorkerTyped, WorkerRow
    <2>2. \A x \in Worker : x # w => worker'[x] = worker[x]
        BY DEF Returns, TypeInv, WorkerTyped
    <2>3. worker' = [x \in Worker |-> worker'[x]]
        BY DEF Returns, TypeInv, WorkerTyped
    <2> QED
        BY <2>1, <2>2, <2>3
<1>3. s \in WorkerRow
    BY <1>1 DEF WorkerRow
<1>4. Fits(s)
    BY <1>1, <1>3 DEF Fits
<1> QED
    BY <1>2, <1>4 DEF Moves

LEMMA StillGrows ==
    ASSUME TypeInv, UNCHANGED <<bill, job>>
    PROVE  Grows /\ BillTyped' /\ JobTyped'
<1>1. Grows
    BY DEF Grows, Known, Opened
<1> QED
    BY <1>1, KeepBill, KeepJob

LEMMA KnownJobs ==
    ASSUME TypeInv
    PROVE  Known \subseteq JobId \cup {None} /\ None \in Known /\ Len(job) \in Nat /\ Len(job) <= MaxJobs
BY TaskAssumption DEF TaskAssumption, TypeInv, JobTyped, Known, JobId, None

LEMMA LogTyped ==
    ASSUME TypeInv, NEW r \in Run, NEW j \in Known', NEW ok \in BOOLEAN, Known \subseteq Known',
           Known' \subseteq JobId \cup {None},
           LogCreate(r, j, ok) \/ LogPoll(r, j, ok) \/ LogCancel(r, j)
    PROVE  /\ BillTyped' /\ TaskTyped' /\ CallsTyped' /\ Grows
           /\ task'.attempts = task.attempts /\ task'.cancel = task.cancel
<1>1. LogIds(r, j)
    BY DEF LogCreate, LogPoll, LogCancel
<1>2. BillTyped' /\ TaskTyped' /\ Grows
    BY <1>1, LogKeeps
<1>3. CallsTyped'
    <2>1. calls \in CallLog /\ calls.latest \in Known' /\ j \in JobId \cup {None}
        BY DEF TypeInv, CallsTyped
    <2>2. calls' \in CallLog /\ calls'.latest \in {calls.latest, j}
        <3>1. CASE LogCreate(r, j, ok)
            BY <2>1, <3>1 DEF LogCreate, LatestOf, CallLog
        <3>2. CASE LogPoll(r, j, ok)
            BY <2>1, <3>2 DEF LogPoll, CallLog
        <3>3. CASE LogCancel(r, j)
            BY <2>1, <3>3 DEF LogCancel, CallLog
        <3> QED
            BY <3>1, <3>2, <3>3
    <2> QED
        BY <2>1, <2>2 DEF CallsTyped
<1>4. task'.attempts = task.attempts /\ task'.cancel = task.cancel
    BY <1>1 DEF LogIds, TypeInv, TaskTyped, TaskRow
<1> QED
    BY <1>2, <1>3, <1>4

LEMMA TerminalTyped ==
    ASSUME TypeInv, Grows, NEW status \in {"failed", "cancelled"}, MarkTerminalState(status)
    PROVE  TaskTyped' /\ task'.attempts = task.attempts /\ task'.cancel = task.cancel
<1>1. task.run \in Run
    BY DEF TypeInv, TaskTyped, TaskRow
<1>2. CASE task.status = "running"
    <2>1. /\ task' \in TaskRow /\ task'.req = task.req /\ task'.run = task.run
          /\ task'.cancel = task.cancel /\ task'.attempts = task.attempts
        BY <1>2 DEF MarkTerminalState, TypeInv, TaskTyped, TaskRow
    <2> QED
        BY <1>1, <1>2, <2>1 DEF TypeInv, TaskTyped, Grows
<1>3. CASE task.status # "running"
    BY <1>3, KeepTask DEF MarkTerminalState
<1> QED
    BY <1>2, <1>3

\* Steps that change the worker only.
LEMMA OwnStepTyped ==
    ASSUME TypeInv, NEW w \in Worker, NEW s, Moves(w, s), Grows => Fits(s), Registered,
           UNCHANGED <<task, bill, calls, job, others>>
    PROVE  TypeInv'
<1>1. Grows /\ BillTyped' /\ JobTyped'
    BY StillGrows
<1>2. TaskTyped' /\ CallsTyped'
    BY <1>1, KeepTask, KeepCalls
<1> QED
    BY <1>1, <1>2, WorkerStepTyped

\* Steps that change the worker and an order.
LEMMA OrderStepTyped ==
    ASSUME TypeInv, NEW w \in Worker, NEW s, Moves(w, s), Grows => Fits(s), Registered,
           NEW r \in Run, OrderStep(r), UNCHANGED <<task, calls, job, others>>
    PROVE  TypeInv'
<1>1. BillTyped' /\ Grows
    BY OrderKeeps
<1>2. TaskTyped' /\ CallsTyped' /\ JobTyped'
    BY <1>1, KeepTask, KeepCalls, KeepJob
<1> QED
    BY <1>1, <1>2, WorkerStepTyped

\* Steps that change the worker and the task.
LEMMA TaskStepTyped ==
    ASSUME TypeInv, NEW w \in Worker, NEW s, Moves(w, s), Grows => Fits(s), Registered,
           Grows => TaskTyped', task'.attempts = task.attempts, task'.cancel = task.cancel,
           UNCHANGED <<bill, calls, job, others>>
    PROVE  TypeInv'
<1>1. Grows /\ BillTyped' /\ JobTyped'
    BY StillGrows
<1>2. CallsTyped'
    BY <1>1, KeepCalls
<1> QED
    BY <1>1, <1>2, WorkerStepTyped

\* Steps that log a call.
LEMMA LogStepTyped ==
    ASSUME TypeInv, NEW w \in Worker, NEW j \in Known, NEW ok \in BOOLEAN,
           LogCreate(worker[w].run, j, ok) \/ LogPoll(worker[w].run, j, ok),
           Grows => \E s : Moves(w, s) /\ Fits(s), UNCHANGED <<job, active, others>>
    PROVE  TypeInv'
<1>1. Known' = Known /\ Known \subseteq JobId \cup {None}
    BY KnownJobs DEF Known
<1>2. worker[w].run \in Run
    BY DEF TypeInv, WorkerTyped, WorkerRow
<1>3. /\ BillTyped' /\ TaskTyped' /\ CallsTyped' /\ Grows
      /\ task'.attempts = task.attempts /\ task'.cancel = task.cancel
    BY <1>1, <1>2, LogTyped
<1>4. JobTyped'
    BY <1>3, KeepJob
<1>5. Registered
    BY DEF TypeInv, RestTyped, Registered
<1>6. PICK s : Moves(w, s) /\ Fits(s)
    BY <1>3
<1> QED
    BY <1>3, <1>4, <1>5, <1>6, WorkerStepTyped

LEMMA ActiveStays ==
    ASSUME TypeInv, active' = active  PROVE Registered
BY DEF TypeInv, RestTyped, Registered

LEMMA WorkerSteps1 ==
    ASSUME TypeInv, NEW w \in Worker,
           Register(w) \/ PollStops(w) \/ PersistFails(w) \/ AbandonLost(w) \/ RecheckFailure(w)
             \/ RecheckDelivered(w) \/ SaveFails(w) \/ HeartbeatFails(w)
    PROVE  TypeInv'
<1>0. Grows => Fits(IdleWorker)
    BY RowFits
<1>1. CASE Register(w)
    <2>1. CASE task.status = "cancelled"
        BY <1>0, <1>1, <2>1, FinishMoves, OwnStepTyped DEF Register
    <2>2. CASE task.status # "cancelled"
        <3>1. Moves(w, [worker[w] EXCEPT !.pc = "preparing"])
            BY <1>1, <2>2, GotoMoves DEF Register
        <3>2. Grows => Fits([worker[w] EXCEPT !.pc = "preparing"])
            BY PcFits
        <3>3. Registered
            BY <1>1, <2>2 DEF Register, TypeInv, RestTyped, Registered
        <3> QED
            BY <1>1, <3>1, <3>2, <3>3, OwnStepTyped DEF Register
    <2> QED
        BY <2>1, <2>2
<1>2. CASE PollStops(w)
    <2>1. PICK result \in {"deadline", "unclear", "failed"} :
            Returns(w, Interrupted(w, result), task.req)
        BY <1>2 DEF PollStops
    <2>2. Interrupted(w, result) \in Result
        BY DEF Interrupted, Result
    <2>3. UNCHANGED <<task, bill, calls, job, active, others>>
        BY <1>2 DEF PollStops
    <2>4. Grows /\ Known' = Known
        BY <2>3, StillGrows DEF Known
    <2>5. task.req \in Known /\ Known \subseteq JobId \cup {None}
        BY KnownJobs DEF TypeInv, TaskTyped
    <2>6. PICK s : Moves(w, s) /\ Fits(s)
        BY <2>1, <2>2, <2>4, <2>5, ReturnsMoves
    <2> QED
        BY <2>3, <2>6, ActiveStays, OwnStepTyped
<1>3. CASE PersistFails(w)
    <2> DEFINE s == [worker[w] EXCEPT !.pc = "failing", !.result = "unsaved"]
    <2>1. Moves(w, s)
        BY <1>3 DEF PersistFails, Moves, TypeInv, WorkerTyped, WorkerRow
    <2>2. Grows => Fits(s)
        BY RowFits DEF Fits, WorkerRow, Result
    <2> QED
        BY <1>3, <2>1, <2>2, ActiveStays, OwnStepTyped DEF PersistFails
<1>4. CASE AbandonLost(w)
    BY <1>0, <1>4, FinishMoves, OwnStepTyped DEF AbandonLost
<1>5. CASE RecheckFailure(w)
    <2>1. CASE worker[w].result \in Canceled /\ task.status = "cancelled"
        BY <1>0, <1>5, <2>1, FinishMoves, OwnStepTyped DEF RecheckFailure
    <2>2. CASE ~(worker[w].result \in Canceled /\ task.status = "cancelled")
        <3>1. Moves(w, [worker[w] EXCEPT !.pc = "closing"])
            BY <1>5, <2>2, GotoMoves DEF RecheckFailure
        <3>2. Grows => Fits([worker[w] EXCEPT !.pc = "closing"])
            BY PcFits
        <3> QED
            BY <1>5, <2>2, <3>1, <3>2, ActiveStays, OwnStepTyped DEF RecheckFailure
    <2> QED
        BY <2>1, <2>2
<1>6. CASE RecheckDelivered(w) \/ SaveFails(w)
    <2>1. UNCHANGED <<task, bill, calls, job, active, others>>
        BY <1>6 DEF RecheckDelivered, SaveFails
    <2>2. \/ Moves(w, [worker[w] EXCEPT !.pc = "discarding", !.run = task.run])
          \/ Moves(w, [worker[w] EXCEPT !.pc = "saving"])
          \/ Moves(w, [worker[w] EXCEPT !.pc = "closing", !.result = "unsaved"])
        BY <1>6 DEF RecheckDelivered, SaveFails, Moves, TypeInv, WorkerTyped, WorkerRow
    <2>3. task.run \in Run /\ Opened(task.run)
        BY DEF TypeInv, TaskTyped, TaskRow
    <2>4. Grows => Fits([worker[w] EXCEPT !.pc = "discarding", !.run = task.run])
        BY <2>3, RowFits DEF Fits, WorkerRow, Result, Grows, Opened
    <2>5. Grows => Fits([worker[w] EXCEPT !.pc = "saving"])
        BY PcFits
    <2>6. Grows => Fits([worker[w] EXCEPT !.pc = "closing", !.result = "unsaved"])
        BY <2>3, RowFits DEF Fits, WorkerRow, Result
    <2> QED
        BY <2>1, <2>2, <2>4, <2>5, <2>6, ActiveStays, OwnStepTyped
<1>7. CASE HeartbeatFails(w)
    <2> DEFINE s == [worker[w] EXCEPT !.lost = TRUE, !.canceled = TRUE]
    <2>1. Moves(w, s)
        BY <1>7 DEF HeartbeatFails, Moves, TypeInv, WorkerTyped, WorkerRow
    <2>2. Grows => Fits(s)
        BY RowFits DEF Fits, WorkerRow
    <2> QED
        BY <1>7, <2>1, <2>2, ActiveStays, OwnStepTyped DEF HeartbeatFails
<1> QED
    BY <1>1, <1>2, <1>3, <1>4, <1>5, <1>6, <1>7

LEMMA WorkerSteps2 ==
    ASSUME TypeInv, NEW w \in Worker,
           PrepareBilling(w) \/ RefundPreparation(w) \/ RecordFails(w) \/ ChargeFailure(w)
             \/ DiscardResult(w) \/ SettleSuccess(w)
    PROVE  TypeInv'
<1>0. worker[w].run \in Run /\ (Grows => Fits(IdleWorker))
    BY RowFits DEF TypeInv, WorkerTyped, WorkerRow
<1>1. CASE PrepareBilling(w)
    <2> DEFINE s == [worker[w] EXCEPT !.pc = IF worker[w].req = None THEN "dispatching" ELSE "polling",
                                      !.job = worker[w].req]
    <2>1. Moves(w, s)
        BY <1>1 DEF PrepareBilling, Moves, TypeInv, WorkerTyped, WorkerRow
    <2>2. Grows => Fits(s)
        BY RowFits DEF Fits, WorkerRow
    <2>3. Known' = Known
        BY <1>1 DEF PrepareBilling, Known
    <2>4. /\ bill' \in [Run -> BillRow]
          /\ \A x \in Run : bill'[x].req = bill[x].req /\ (Opened(x) => Opened(x)')
        BY <1>0, <1>1 DEF PrepareBilling, TypeInv, BillTyped, BillRow, OpenBill, Opened
    <2>5. Grows
        BY <2>3, <2>4 DEF Grows
    <2>6. 1 \in Run
        BY TaskAssumption DEF TaskAssumption, Run
    <2>7. BillTyped'
        BY <2>3, <2>4, <2>6 DEF TypeInv, BillTyped
    <2>8. TaskTyped' /\ CallsTyped' /\ JobTyped'
        BY <1>1, <2>5, KeepTask, KeepCalls, KeepJob DEF PrepareBilling
    <2> QED
        BY <1>1, <2>1, <2>2, <2>5, <2>7, <2>8, ActiveStays, WorkerStepTyped DEF PrepareBilling
<1>2. CASE RefundPreparation(w) \/ ChargeFailure(w) \/ DiscardResult(w) \/ SettleSuccess(w)
    <2>1. OrderStep(worker[w].run) /\ Finish(w) /\ UNCHANGED <<task, calls, job, others>>
        BY <1>2 DEF RefundPreparation, ChargeFailure, DiscardResult, SettleSuccess, OrderStep
    <2> QED
        BY <1>0, <2>1, FinishMoves, OrderStepTyped
<1>3. CASE RecordFails(w)
    <2>1. OrderStep(worker[w].run) /\ Goto(w, "polling") /\ At(w, "accepted")
          /\ UNCHANGED <<task, calls, job, active, others>>
        BY <1>3 DEF RecordFails, OrderStep
    <2>2. Grows => Fits([worker[w] EXCEPT !.pc = "polling"])
        BY <2>1, PcFits
    <2> QED
        BY <1>0, <2>1, <2>2, GotoMoves, ActiveStays, OrderStepTyped
<1> QED
    BY <1>1, <1>2, <1>3

LEMMA ClaimTyped ==
    ASSUME TypeInv, NEW w \in Worker, ClaimNextTask(w)
    PROVE  TypeInv'
<1> DEFINE s == [pc |-> "claimed", run |-> task.run, req |-> task.req, job |-> None,
                 canceled |-> FALSE, lost |-> FALSE, result |-> ""]
<1>1. Moves(w, s)
    <2>1. worker'[w] = s
        BY DEF ClaimNextTask, TypeInv, WorkerTyped, IdleWorker
    <2>2. \A x \in Worker : x # w => worker'[x] = worker[x]
        BY DEF ClaimNextTask, TypeInv, WorkerTyped
    <2>3. worker' = [x \in Worker |-> worker'[x]]
        BY DEF ClaimNextTask, TypeInv, WorkerTyped
    <2> HIDE DEF s
    <2> QED
        BY <2>1, <2>2, <2>3 DEF Moves
<1>2. task.run \in Run /\ task.req \in JobId \cup {None} /\ task.req \in Known /\ Opened(task.run)
      /\ None \in Known
    BY KnownJobs DEF TypeInv, TaskTyped, TaskRow
<1>3. Grows => Fits(s)
    <2>1. s \in WorkerRow
        BY <1>2 DEF WorkerRow, Result, None
    <2> QED
        BY <1>2, <2>1 DEF Grows, Fits, Opened
<1> HIDE DEF s
<1>4. /\ task' \in TaskRow /\ task'.req = task.req /\ task'.run = task.run
      /\ task'.cancel = task.cancel /\ task'.attempts = task.attempts
    BY TaskAssumption DEF TaskAssumption, ClaimNextTask, TypeInv, TaskTyped, TaskRow
<1>5. Grows => TaskTyped'
    <2>1. task.cancel = ""
        BY DEF ClaimNextTask, TypeInv, TaskTyped
    <2> QED
        BY <1>2, <1>4, <2>1 DEF TaskTyped, Grows
<1> QED
    BY <1>1, <1>3, <1>4, <1>5, ActiveStays, TaskStepTyped DEF ClaimNextTask

LEMMA WorkerSteps3 ==
    ASSUME TypeInv, NEW w \in Worker,
           PreparationFails(w) \/ DeferToPoll(w) \/ CloseFailed(w) \/ SaveTaskCompletion(w) \/ Heartbeat(w)
    PROVE  TypeInv'
<1>0. worker[w] \in WorkerRow /\ (Grows => Fits(IdleWorker))
    BY RowFits DEF TypeInv, WorkerTyped
<1>1. CASE PreparationFails(w)
    <2>1. Moves(w, [worker[w] EXCEPT !.pc = "refunding"])
        BY <1>1, GotoMoves DEF PreparationFails
    <2>2. Grows => Fits([worker[w] EXCEPT !.pc = "refunding"])
        BY PcFits
    <2>3. Grows
        BY <1>1, StillGrows DEF PreparationFails
    <2> QED
        BY <1>1, <2>1, <2>2, <2>3, TerminalTyped, ActiveStays, TaskStepTyped DEF PreparationFails
<1>2. CASE CloseFailed(w)
    <2>1. Moves(w, [worker[w] EXCEPT !.pc = "charging"])
        BY <1>2, GotoMoves DEF CloseFailed
    <2>2. Grows => Fits([worker[w] EXCEPT !.pc = "charging"])
        BY PcFits
    <2>3. Grows
        BY <1>2, StillGrows DEF CloseFailed
    <2>4. TaskTyped' /\ task'.attempts = task.attempts /\ task'.cancel = task.cancel
        BY <1>2, <2>3, TerminalTyped DEF CloseFailed
    <2> QED
        BY <1>2, <2>1, <2>2, <2>4, ActiveStays, TaskStepTyped DEF CloseFailed
<1>3. CASE DeferToPoll(w)
    <2>1. /\ task' \in TaskRow /\ task'.req = task.req /\ task'.run = task.run /\ task'.status = task.status
          /\ task'.cancel = task.cancel /\ task'.attempts = task.attempts
        <3>1. task' = task \/ task' = [task EXCEPT !.owner = Nobody, !.lease = FALSE]
            BY <1>3 DEF DeferToPoll
        <3>2. task \in TaskRow
            BY DEF TypeInv, TaskTyped
        <3>3. CASE task' = [task EXCEPT !.owner = Nobody, !.lease = FALSE]
            BY <3>2, <3>3 DEF TaskRow
        <3> QED
            BY <3>1, <3>2, <3>3
    <2>2. Grows => TaskTyped'
        <3>1. task.run \in Run
            BY DEF TypeInv, TaskTyped, TaskRow
        <3> QED
            BY <2>1, <3>1 DEF TypeInv, TaskTyped, Grows
    <2> QED
        BY <1>0, <1>3, <2>1, <2>2, FinishMoves, TaskStepTyped DEF DeferToPoll
<1>4. CASE SaveTaskCompletion(w)
    <2>1. Moves(w, [worker[w] EXCEPT !.pc = "settling"])
        BY <1>4, GotoMoves DEF SaveTaskCompletion
    <2>2. Grows => Fits([worker[w] EXCEPT !.pc = "settling"])
        BY PcFits
    <2>3. worker[w].run \in Run /\ worker[w].req \in JobId \cup {None} /\ worker[w].req \in Known
          /\ Opened(worker[w].run)
        BY <1>0 DEF TypeInv, WorkerTyped, WorkerRow
    <2>4. /\ task' \in TaskRow /\ task'.req = worker[w].req /\ task'.run = worker[w].run
          /\ task'.cancel = task.cancel /\ task'.attempts = task.attempts /\ task.status = "running"
        BY <1>4, <2>3 DEF SaveTaskCompletion, TypeInv, TaskTyped, TaskRow
    <2>5. Grows => TaskTyped'
        BY <2>3, <2>4 DEF TypeInv, TaskTyped, Grows
    <2> QED
        BY <1>4, <2>1, <2>2, <2>4, <2>5, ActiveStays, TaskStepTyped DEF SaveTaskCompletion
<1>5. CASE Heartbeat(w)
    <2>1. /\ task' \in TaskRow /\ task'.req = task.req /\ task'.run = task.run /\ task'.status = task.status
          /\ task'.cancel = task.cancel /\ task'.attempts = task.attempts
        BY <1>5 DEF Heartbeat, TypeInv, TaskTyped, TaskRow
    <2>2. Grows => TaskTyped'
        <3>1. task.run \in Run
            BY DEF TypeInv, TaskTyped, TaskRow
        <3> QED
            BY <2>1, <3>1 DEF TypeInv, TaskTyped, Grows
    <2>3. Moves(w, worker[w])
        BY <1>5 DEF Heartbeat, Moves, TypeInv, WorkerTyped
    <2>4. Grows => Fits(worker[w])
        BY RowFits
    <2> QED
        BY <1>5, <2>1, <2>2, <2>3, <2>4, ActiveStays, TaskStepTyped DEF Heartbeat
<1> QED
    BY <1>1, <1>2, <1>3, <1>4, <1>5

LEMMA NewJobTyped ==
    ASSUME TypeInv, NEW w \in Worker, NewJob(w), bill' = bill
    PROVE  JobTyped' /\ Grows /\ Known' \subseteq JobId \cup {None} /\ Len(job') \in Known' \ {None}
<1>1. Len(job) \in Nat /\ Len(job) < MaxJobs /\ MaxJobs \in Nat
    BY TaskAssumption DEF TaskAssumption, NewJob, TypeInv, JobTyped
<1> DEFINE new == [run |-> worker[w].run, state |-> "working"]
<1>2. new \in Job /\ Opened(new.run)
    BY DEF TypeInv, WorkerTyped, WorkerRow, Job
<1>3. job \in Seq(Job) /\ job' = Append(job, new)
    BY DEF NewJob, TypeInv, JobTyped
<1> HIDE DEF new
<1>4. job' \in Seq(Job) /\ Len(job') = Len(job) + 1
    BY <1>2, <1>3
<1>5. \A j \in DOMAIN job' : job'[j] = new \/ (j \in DOMAIN job /\ job'[j] = job[j])
    BY <1>2, <1>3
<1>6. Known \subseteq Known' /\ Known' \subseteq JobId \cup {None} /\ Len(job') \in Known' \ {None}
    BY <1>1, <1>4 DEF Known, JobId, None
<1>7. Grows
    BY <1>6 DEF Grows, Opened
<1>8. \A j \in DOMAIN job' : bill'[job'[j].run].status # "none"
    BY <1>2, <1>5 DEF TypeInv, JobTyped, Opened
<1> QED
    BY <1>1, <1>4, <1>6, <1>7, <1>8 DEF JobTyped, Opened

LEMMA SubmitTyped ==
    ASSUME TypeInv, NEW w \in Worker, SubmitAccepted(w) \/ SubmitAnswerLost(w)
    PROVE  TypeInv'
<1>0. worker[w] \in WorkerRow /\ worker[w].run \in Run
    BY DEF TypeInv, WorkerTyped, WorkerRow
<1>1. CASE SubmitAccepted(w)
    <2>1. JobTyped' /\ Grows /\ Known' \subseteq JobId \cup {None} /\ Len(job') \in Known' \ {None}
        BY <1>1, NewJobTyped DEF SubmitAccepted
    <2> DEFINE s == [worker[w] EXCEPT !.pc = "accepted", !.job = Len(job')]
    <2>2. Moves(w, s)
        BY <1>1 DEF SubmitAccepted, Moves, TypeInv, WorkerTyped, WorkerRow
    <2>3. Fits(s)
        BY <2>1, RowFits DEF Fits, WorkerRow
    <2>4. TaskTyped' /\ BillTyped' /\ CallsTyped'
        BY <1>1, <2>1, KeepTask, KeepBill, KeepCalls DEF SubmitAccepted
    <2> QED
        BY <1>1, <2>1, <2>2, <2>3, <2>4, ActiveStays, WorkerStepTyped DEF SubmitAccepted
<1>2. CASE SubmitAnswerLost(w)
    <2>1. NewJob(w) /\ LogCreate(worker[w].run, None, FALSE) /\ UNCHANGED <<task, bill, active, others>>
        BY <1>2 DEF SubmitAnswerLost, LogCreate, LogIds
    <2>2. JobTyped' /\ Grows /\ Known' \subseteq JobId \cup {None}
        BY <2>1, NewJobTyped
    <2>3. None \in Known' /\ task.req \in Known'
        BY <2>2, KnownJobs DEF Grows, TypeInv, TaskTyped
    <2>4. Interrupted(w, "unclear") \in Result
        BY DEF Interrupted, Result
    <2>5. PICK s : Moves(w, s) /\ Fits(s)
        BY <1>2, <2>2, <2>3, <2>4, ReturnsMoves DEF SubmitAnswerLost
    <2>6. CallsTyped'
        BY <1>0, <2>1, <2>2, <2>3, LogTyped DEF Grows
    <2>7. TaskTyped' /\ BillTyped'
        BY <2>1, <2>2, KeepTask, KeepBill
    <2> QED
        BY <2>1, <2>2, <2>5, <2>6, <2>7, ActiveStays, WorkerStepTyped
<1> QED
    BY <1>1, <1>2

LEMMA WorkerSteps4 ==
    ASSUME TypeInv, NEW w \in Worker,
           SubmitRejected(w) \/ RecordAccepted(w) \/ PollPending(w) \/ PollDelivers(w) \/ PollFails(w)
             \/ PollBreaks(w) \/ SlotFails(w)
    PROVE  TypeInv'
<1>0. /\ worker[w] \in WorkerRow /\ worker[w].run \in Run /\ worker[w].job \in Known
      /\ None \in Known /\ task.req \in Known /\ Known \subseteq JobId \cup {None}
    BY KnownJobs DEF TypeInv, WorkerTyped, WorkerRow, TaskTyped
<1>1. /\ Interrupted(w, "failed") \in Result /\ Interrupted(w, "unclear") \in Result
      /\ {"delivered", "failed", "slot", "slotDeadline", "slotCanceled"} \subseteq Result
    BY DEF Interrupted, Result, NoSlot
<1>2. UNCHANGED <<job, active, others>>
    BY DEF SubmitRejected, RecordAccepted, PollPending, PollDelivers, PollFails, PollBreaks, SlotFails, Poll
<1>3. Known' = Known
    BY <1>2 DEF Known
<1>4. \A result \in Result, latest \in Known :
        Returns(w, result, latest) => (Grows => \E s : Moves(w, s) /\ Fits(s))
    BY <1>0, <1>3, ReturnsMoves
<1>5. CASE SubmitRejected(w)
    <2>1. LogCreate(worker[w].run, None, FALSE) /\ Returns(w, Interrupted(w, "failed"), task.req)
        BY <1>5 DEF SubmitRejected
    <2> QED
        BY <1>0, <1>1, <1>2, <1>4, <2>1, LogStepTyped
<1>6. CASE RecordAccepted(w)
    <2>1. LogCreate(worker[w].run, worker[w].job, TRUE) /\ Goto(w, "polling") /\ At(w, "accepted")
        BY <1>6 DEF RecordAccepted
    <2>2. Moves(w, [worker[w] EXCEPT !.pc = "polling"])
        BY <2>1, GotoMoves
    <2>3. Grows => Fits([worker[w] EXCEPT !.pc = "polling"])
        BY <2>1, PcFits
    <2> QED
        BY <1>0, <1>2, <2>1, <2>2, <2>3, LogStepTyped
<1>7. CASE PollPending(w)
    <2>1. LogPoll(worker[w].run, worker[w].job, TRUE) /\ worker' = worker
        BY <1>7 DEF PollPending, Poll
    <2>2. Moves(w, worker[w])
        BY <2>1 DEF Moves, TypeInv, WorkerTyped
    <2>3. Grows => Fits(worker[w])
        BY RowFits
    <2> QED
        BY <1>0, <1>2, <2>1, <2>2, <2>3, LogStepTyped
<1>8. CASE PollDelivers(w) \/ PollFails(w)
    <2>1. LogPoll(worker[w].run, worker[w].job, TRUE)
        BY <1>8 DEF PollDelivers, PollFails, Poll
    <2>2. Returns(w, "delivered", worker[w].job) \/ Returns(w, "failed", worker[w].job)
        BY <1>8 DEF PollDelivers, PollFails
    <2> QED
        BY <1>0, <1>1, <1>2, <1>4, <2>1, <2>2, LogStepTyped
<1>9. CASE PollBreaks(w)
    <2>1. LogPoll(worker[w].run, worker[w].job, FALSE)
        BY <1>9 DEF PollBreaks
    <2>2. \/ Returns(w, Interrupted(w, "failed"), worker[w].job)
          \/ Returns(w, Interrupted(w, "unclear"), worker[w].job)
        BY <1>9 DEF PollBreaks
    <2> QED
        BY <1>0, <1>1, <1>2, <1>4, <2>1, <2>2, LogStepTyped
<1>10. CASE SlotFails(w)
    <2>1. PICK why \in {"slot", "slotDeadline", "slotCanceled"} :
            \/ LogCreate(worker[w].run, None, FALSE) /\ Returns(w, why, task.req)
            \/ LogPoll(worker[w].run, worker[w].job, FALSE) /\ Returns(w, why, worker[w].job)
        BY <1>10 DEF SlotFails
    <2> QED
        BY <1>0, <1>1, <1>2, <1>4, <2>1, LogStepTyped
<1> QED
    BY <1>5, <1>6, <1>7, <1>8, <1>9, <1>10

LEMMA WorkerTypes ==
    ASSUME TypeInv, NEW w \in Worker, WorkerStep(w)
    PROVE  TypeInv'
BY WorkerSteps1, WorkerSteps2, WorkerSteps3, WorkerSteps4, ClaimTyped, SubmitTyped DEF WorkerStep

-----------------------------------------------------------------------------
(* Types: cancel requests, the reconciler, the user and the surroundings.  *)

\* Request c has the row s from now on.
Turns(c, s) == cancel' = [d \in CancelRequest |-> IF d = c THEN s ELSE cancel[d]]

\* A row that a request may have after the step.
Suits(s) ==
    /\ s \in CancelRow /\ s.req \in Known' /\ bill'[s.run].status # "none"
    /\ s.pc \in {"claiming", "sending"} => s.req # None

LEMMA CancelStepTyped ==
    ASSUME TypeInv, NEW c \in CancelRequest, NEW s, Turns(c, s), Suits(s), Grows,
           BillTyped', TaskTyped', CallsTyped', JobTyped', WorkerTyped', AttemptsBounded',
           UNCHANGED <<active, retrying, recon, resolved, crashes>>
    PROVE  TypeInv'
<1>1. CancelTyped'
    <2>1. \A d \in CancelRequest : cancel[d].run \in Run
        BY DEF TypeInv, CancelTyped, CancelRow
    <2>2. cancel' \in [CancelRequest -> CancelRow]
        BY DEF TypeInv, CancelTyped, Turns, Suits
    <2>3. \A d \in CancelRequest : cancel'[d] = IF d = c THEN s ELSE cancel[d]
        BY DEF Turns
    <2> QED
        BY <2>1, <2>2, <2>3 DEF TypeInv, Grows, CancelTyped, Suits, Opened
<1>2. ReconTyped' /\ RestTyped'
    BY KeepRecon DEF TypeInv, RestTyped
<1> QED
    BY <1>1, <1>2 DEF TypeInv

LEMMA RequestSuits ==
    ASSUME TypeInv, Grows, NEW c \in CancelRequest
    PROVE  /\ cancel[c] \in CancelRow /\ cancel[c].run \in Run /\ cancel[c].req \in JobId \cup {None}
           /\ Suits(cancel[c]) /\ Suits(IdleCancel)
<1>1. cancel[c] \in CancelRow /\ cancel[c].run \in Run /\ cancel[c].req \in JobId \cup {None}
    BY DEF TypeInv, CancelTyped, CancelRow
<1>2. Suits(cancel[c])
    BY <1>1 DEF TypeInv, CancelTyped, Grows, Suits, Opened
<1>3. Suits(IdleCancel)
    <2>1. 1 \in Run
        BY TaskAssumption DEF TaskAssumption, Run
    <2>2. IdleCancel \in CancelRow
        BY <2>1 DEF IdleCancel, CancelRow, None
    <2>3. 0 \in Known
        BY KnownJobs DEF None
    <2>4. IdleCancel.run = 1 /\ IdleCancel.req = 0 /\ IdleCancel.pc = "idle"
        BY DEF IdleCancel, None
    <2> QED
        BY <2>1, <2>2, <2>3, <2>4 DEF TypeInv, BillTyped, Grows, Suits, Opened
<1> QED
    BY <1>1, <1>2, <1>3

LEMMA RequestMovesOn ==
    ASSUME TypeInv, Grows, NEW c \in CancelRequest, NEW pc \in {"committed", "closing", "claiming",
               "sending", "refused", "reviewing"},
           pc \in {"claiming", "sending"} => cancel[c].req # None
    PROVE  Suits([cancel[c] EXCEPT !.pc = pc])
BY RequestSuits DEF Suits, CancelRow

LEMMA AttemptsStay ==
    ASSUME TypeInv, task'.attempts = task.attempts, task'.cancel = task.cancel,
           UNCHANGED <<recon, crashes>>
    PROVE  AttemptsBounded'
BY DEF TypeInv, AttemptsBounded

LEMMA CancelMoved ==
    ASSUME TypeInv, Grows, CancelIsRequested, NEW status \in {"requested", "confirmed", "uncertain"},
           CancelMovesTo(status)
    PROVE  TaskTyped' /\ task'.attempts = task.attempts /\ task'.cancel = status
<1>1. /\ task' \in TaskRow /\ task'.req = task.req /\ task'.run = task.run /\ task'.status = task.status
      /\ task'.cancel = status /\ task'.attempts = task.attempts
    BY DEF CancelMovesTo, TypeInv, TaskTyped, TaskRow
<1>2. task.run \in Run
    BY DEF TypeInv, TaskTyped, TaskRow
<1>3. task.status = "cancelled" /\ task.req # None
    BY DEF CancelIsRequested, TypeInv, TaskTyped
<1> QED
    BY <1>1, <1>2, <1>3 DEF TypeInv, TaskTyped, Grows

LEMMA CancelSteps1 ==
    ASSUME TypeInv, NEW c \in CancelRequest,
           (\E p \in Process : ReadForCancel(c, p)) \/ CancelTaskIfStatus(c)
             \/ ClaimTaskProviderCancellation(c) \/ CannotCancel(c) \/ RefuseCancelled(c)
    PROVE  TypeInv'
<1>0. UNCHANGED <<bill, calls, job, worker, active, retrying, recon, resolved, crashes>>
    BY DEF ReadForCancel, CancelTaskIfStatus, ClaimTaskProviderCancellation, CannotCancel, RefuseCancelled
<1>1. Grows /\ BillTyped' /\ JobTyped' /\ CallsTyped' /\ WorkerTyped'
    BY <1>0, StillGrows, KeepCalls, KeepWorker
<1>2. task.run \in Run /\ Opened(task.run) /\ Suits(IdleCancel) /\ cancel[c].req \in JobId \cup {None}
    BY <1>1, RequestSuits DEF TypeInv, TaskTyped, TaskRow
<1>3. CASE \E p \in Process : ReadForCancel(c, p)
    <2>1. PICK p \in Process : ReadForCancel(c, p)
        BY <1>3
    <2> DEFINE s == [pc |-> "read", process |-> p, status |-> task.status,
                     run |-> task.run, req |-> HydratedRequest]
    <2>2. Turns(c, s)
        BY <2>1 DEF ReadForCancel, Turns, TypeInv, CancelTyped
    <2>3. HydratedRequest \in Known /\ Known \subseteq JobId \cup {None}
        BY <1>2, KnownJobs DEF HydratedRequest, TypeInv, TaskTyped, BillTyped, CallsTyped
    <2> HIDE DEF HydratedRequest
    <2>4. s \in CancelRow
        BY <1>2, <2>1, <2>3 DEF ReadForCancel, CancelRow
    <2>5. Suits(s)
        BY <1>1, <1>2, <2>3, <2>4 DEF Suits, Grows, Opened
    <2>6. task' = task
        BY <2>1 DEF ReadForCancel
    <2> QED
        BY <1>0, <1>1, <2>2, <2>5, <2>6, KeepTask, AttemptsStay, CancelStepTyped
<1>4. CASE CancelTaskIfStatus(c)
    <2>1. CASE task.status = cancel[c].status
        <3>1. Turns(c, [cancel[c] EXCEPT !.pc = "committed"])
            BY <1>4, <2>1 DEF CancelTaskIfStatus, Turns, TypeInv, CancelTyped
        <3>2. Suits([cancel[c] EXCEPT !.pc = "committed"])
            BY <1>1, RequestMovesOn
        <3>3. /\ task' \in TaskRow /\ task'.req = task.req /\ task'.run = task.run
              /\ task'.status = "cancelled" /\ task'.cancel = task.cancel /\ task'.attempts = task.attempts
            <4>1. task' = [task EXCEPT !.status = "cancelled", !.owner = Nobody, !.lease = FALSE]
                BY <1>4, <2>1 DEF CancelTaskIfStatus
            <4>2. task \in TaskRow
                BY DEF TypeInv, TaskTyped
            <4> QED
                BY <4>1, <4>2 DEF TaskRow
        <3>4. TaskTyped'
            BY <1>1, <1>2, <3>3 DEF TypeInv, TaskTyped, Grows
        <3> QED
            BY <1>0, <1>1, <3>1, <3>2, <3>3, <3>4, AttemptsStay, CancelStepTyped
    <2>2. CASE task.status # cancel[c].status
        <3>1. Turns(c, IdleCancel) /\ task' = task
            BY <1>4, <2>2 DEF CancelTaskIfStatus, Turns, TypeInv, CancelTyped
        <3> QED
            BY <1>0, <1>1, <1>2, <3>1, KeepTask, AttemptsStay, CancelStepTyped
    <2> QED
        BY <2>1, <2>2
<1>5. CASE ClaimTaskProviderCancellation(c)
    <2>1. cancel[c].req \in Known /\ cancel[c].req # None
        BY <1>5 DEF ClaimTaskProviderCancellation, TypeInv, CancelTyped
    <2>2. CASE task.status = "cancelled" /\ task.cancel = ""
        <3>1. Turns(c, [cancel[c] EXCEPT !.pc = "sending"])
            BY <1>5, <2>2 DEF ClaimTaskProviderCancellation, Turns, TypeInv, CancelTyped
        <3>2. Suits([cancel[c] EXCEPT !.pc = "sending"])
            BY <1>1, <2>1, RequestMovesOn
        <3>3. 1 \in 0..MaxAttempts + MaxCrashes
            BY TaskAssumption DEF TaskAssumption
        <3>4. /\ task' \in TaskRow /\ task'.req = cancel[c].req /\ task'.run = task.run
              /\ task'.status = "cancelled" /\ task'.attempts = 1
            BY <1>2, <1>5, <2>2, <3>3 DEF ClaimTaskProviderCancellation, TypeInv, TaskTyped, TaskRow
        <3>5. TaskTyped'
            BY <1>1, <1>2, <2>1, <3>4 DEF TypeInv, TaskTyped, Grows
        <3>6. AttemptsBounded'
            <4>1. 1 < MaxAttempts + crashes /\ 1 <= MaxAttempts + crashes
                BY TaskAssumption DEF TaskAssumption, TypeInv, RestTyped
            <4> QED
                BY <1>0, <3>4, <4>1 DEF TypeInv, AttemptsBounded
        <3> QED
            BY <1>0, <1>1, <3>1, <3>2, <3>5, <3>6, CancelStepTyped
    <2>3. CASE ~(task.status = "cancelled" /\ task.cancel = "")
        <3>1. Turns(c, IdleCancel)
            BY <1>5, <2>3 DEF ClaimTaskProviderCancellation, Turns, TypeInv, CancelTyped
        <3>2. /\ task' \in TaskRow /\ task'.req = cancel[c].req /\ task'.run = task.run
              /\ task'.status = task.status /\ task'.attempts = task.attempts /\ task'.cancel = task.cancel
            BY <1>2, <1>5, <2>3 DEF ClaimTaskProviderCancellation, TypeInv, TaskTyped, TaskRow
        <3>3. TaskTyped'
            BY <1>1, <1>2, <2>1, <3>2 DEF TypeInv, TaskTyped, Grows
        <3> QED
            BY <1>0, <1>1, <1>2, <3>1, <3>2, <3>3, AttemptsStay, CancelStepTyped
    <2> QED
        BY <2>2, <2>3
<1>6. CASE CannotCancel(c)
    <2>1. Turns(c, [cancel[c] EXCEPT !.pc = "refused"]) /\ task' = task
        BY <1>6 DEF CannotCancel, Turns, TypeInv, CancelTyped
    <2>2. Suits([cancel[c] EXCEPT !.pc = "refused"])
        BY <1>1, RequestMovesOn
    <2> QED
        BY <1>0, <1>1, <2>1, <2>2, KeepTask, AttemptsStay, CancelStepTyped
<1>7. CASE RefuseCancelled(c)
    <2>1. CASE CancelIsRequested
        <3>1. Turns(c, [cancel[c] EXCEPT !.pc = "reviewing"]) /\ CancelMovesTo("uncertain")
            BY <1>7, <2>1 DEF RefuseCancelled, Turns, TypeInv, CancelTyped
        <3>2. Suits([cancel[c] EXCEPT !.pc = "reviewing"])
            BY <1>1, RequestMovesOn
        <3>3. TaskTyped' /\ task'.attempts = task.attempts /\ task'.cancel = "uncertain"
            BY <1>1, <2>1, <3>1, CancelMoved
        <3>4. AttemptsBounded'
            BY <1>0, <3>3 DEF TypeInv, AttemptsBounded
        <3> QED
            BY <1>0, <1>1, <3>1, <3>2, <3>3, <3>4, CancelStepTyped
    <2>2. CASE ~CancelIsRequested
        <3>1. Turns(c, IdleCancel) /\ task' = task
            BY <1>7, <2>2 DEF RefuseCancelled, Turns, TypeInv, CancelTyped
        <3> QED
            BY <1>0, <1>1, <1>2, <3>1, KeepTask, AttemptsStay, CancelStepTyped
    <2> QED
        BY <2>1, <2>2
<1> QED
    BY <1>3, <1>4, <1>5, <1>6, <1>7

LEMMA ActiveTyped ==
    ASSUME TypeInv, NEW c \in CancelRequest, CancelActiveTask(c)
    PROVE  TypeInv'
<1> DEFINE pc == IF cancel[c].req # None THEN "claiming" ELSE "closing"
           p == cancel[c].process
<1>0. UNCHANGED <<task, bill, calls, job, active, retrying, recon, resolved, crashes>>
    BY DEF CancelActiveTask
<1>1. Grows /\ BillTyped' /\ JobTyped' /\ CallsTyped' /\ TaskTyped' /\ AttemptsBounded'
    BY <1>0, StillGrows, KeepCalls, KeepTask, AttemptsStay
<1>2. Turns(c, [cancel[c] EXCEPT !.pc = pc])
    BY DEF CancelActiveTask, Turns, TypeInv, CancelTyped
<1>3. Suits([cancel[c] EXCEPT !.pc = pc])
    BY <1>1, RequestMovesOn
<1>4. WorkerTyped'
    <2>1. CASE worker' = worker
        BY <1>1, <2>1, KeepWorker
    <2>2. CASE worker' # worker
        <3> DEFINE w == active[p]
        <3>1. worker' = [worker EXCEPT ![w].canceled = TRUE]
            BY <2>2 DEF CancelActiveTask
        <3>2. \A x \in Worker : /\ worker'[x] \in WorkerRow /\ worker'[x].run = worker[x].run
                                /\ worker'[x].req = worker[x].req /\ worker'[x].job = worker[x].job
                                /\ worker'[x].pc = worker[x].pc /\ worker[x].run \in Run
            <4>1. worker \in [Worker -> WorkerRow]
                BY DEF TypeInv, WorkerTyped
            <4> TAKE x \in Worker
            <4>2. worker'[x] = worker[x] \/ worker'[x] = [worker[x] EXCEPT !.canceled = TRUE]
                BY <3>1, <4>1
            <4>3. worker[x] \in WorkerRow
                BY <4>1
            <4>4. CASE worker'[x] = [worker[x] EXCEPT !.canceled = TRUE]
                BY <4>3, <4>4 DEF WorkerRow
            <4>5. CASE worker'[x] = worker[x]
                BY <4>3, <4>5 DEF WorkerRow
            <4> QED
                BY <4>2, <4>4, <4>5
        <3>3. worker' \in [Worker -> WorkerRow]
            BY <3>1, <3>2 DEF TypeInv, WorkerTyped
        <3> QED
            BY <1>1, <3>2, <3>3 DEF TypeInv, WorkerTyped, Grows, Opened
    <2> QED
        BY <2>1, <2>2
<1> QED
    BY <1>0, <1>1, <1>2, <1>3, <1>4, CancelStepTyped

LEMMA CancelSteps2 ==
    ASSUME TypeInv, NEW c \in CancelRequest, CloseCancelled(c) \/ ReviewCancelled(c)
    PROVE  TypeInv'
<1>1. /\ OrderStep(cancel[c].run) /\ UNCHANGED <<task, calls, job, worker, active, retrying, recon,
                                                 resolved, crashes>>
      /\ cancel' = [cancel EXCEPT ![c] = IdleCancel]
    BY DEF CloseCancelled, ReviewCancelled, OrderStep
<1>2. cancel[c].run \in Run
    BY DEF TypeInv, CancelTyped, CancelRow
<1>3. BillTyped' /\ Grows
    BY <1>1, <1>2, OrderKeeps
<1>4. TaskTyped' /\ CallsTyped' /\ JobTyped' /\ WorkerTyped' /\ AttemptsBounded'
    BY <1>1, <1>3, KeepTask, KeepCalls, KeepJob, KeepWorker, AttemptsStay
<1>5. Turns(c, IdleCancel) /\ Suits(IdleCancel)
    BY <1>1, <1>3, RequestSuits DEF Turns, TypeInv, CancelTyped
<1> QED
    BY <1>1, <1>3, <1>4, <1>5, CancelStepTyped

\* Jobs end, but are not taken back.
JobsEnd ==
    /\ job' \in Seq(Job) /\ DOMAIN job' = DOMAIN job /\ Len(job') = Len(job)
    /\ \A j \in DOMAIN job : /\ job'[j].run = job[j].run
                             /\ job[j].state # "working" => job'[j].state = job[j].state

LEMMA JobEndTyped ==
    ASSUME TypeInv, NEW j \in DOMAIN job, NEW state \in {"done", "failed", "cancelled"},
           job[j].state = "working", job' = [job EXCEPT ![j].state = state]
    PROVE  JobsEnd
<1>1. job \in Seq(Job) /\ \A i \in DOMAIN job : job[i] \in Job
    BY DEF TypeInv, JobTyped
<1> DEFINE new == [job[j] EXCEPT !.state = state]
<1>2. new \in Job /\ new.run = job[j].run
    BY <1>1 DEF Job
<1>3. job' = [job EXCEPT ![j] = new]
    OBVIOUS
<1> HIDE DEF new
<1>4. job' \in Seq(Job) /\ DOMAIN job' = DOMAIN job /\ Len(job') = Len(job)
    BY <1>1, <1>2, <1>3
<1>5. \A i \in DOMAIN job : job'[i] = IF i = j THEN new ELSE job[i]
    BY <1>1, <1>3
<1> QED
    BY <1>2, <1>4, <1>5 DEF JobsEnd

LEMMA JobsEndTyped ==
    ASSUME TypeInv, JobsEnd, Grows
    PROVE  JobTyped'
<1>1. \A j \in DOMAIN job : job[j] \in Job
    BY DEF TypeInv, JobTyped
<1>2. \A j \in DOMAIN job : job[j].run \in Run
    BY <1>1 DEF Job
<1> QED
    BY <1>2 DEF JobsEnd, TypeInv, JobTyped, Grows, Opened

LEMMA SendTyped ==
    ASSUME TypeInv, NEW c \in CancelRequest, SendCancellation(c)
    PROVE  TypeInv'
<1> DEFINE me == cancel[c]
<1>1. me.run \in Run /\ me.req \in Known /\ me.req # None /\ me.pc = "sending" /\ me \in CancelRow
    BY DEF SendCancellation, TypeInv, CancelTyped, CancelRow
<1>2. me.req \in DOMAIN job
    BY <1>1, KnownJobs DEF Known, None, TypeInv, JobTyped
<1>3. JobsEnd
    <2>1. CASE job' = job
        BY <2>1 DEF JobsEnd, TypeInv, JobTyped
    <2>2. CASE job[me.req].state = "working" /\ job' = [job EXCEPT ![me.req].state = "cancelled"]
        BY <1>2, <2>2, JobEndTyped
    <2> QED
        BY <2>1, <2>2 DEF SendCancellation
<1>4. Known' = Known
    BY <1>3 DEF JobsEnd, Known
<1>5. LogCancel(me.run, me.req) /\ UNCHANGED <<worker, active, retrying, recon, resolved, crashes>>
    BY DEF SendCancellation
<1>6. /\ BillTyped' /\ TaskTyped' /\ CallsTyped' /\ Grows
      /\ task'.attempts = task.attempts /\ task'.cancel = task.cancel
    BY <1>1, <1>4, <1>5, KnownJobs, LogTyped
<1>7. JobTyped' /\ WorkerTyped' /\ AttemptsBounded'
    BY <1>3, <1>5, <1>6, JobsEndTyped, KeepWorker, AttemptsStay
<1>8. Suits(IdleCancel) /\ Suits([cancel[c] EXCEPT !.pc = "refused"])
    BY <1>6, RequestSuits, RequestMovesOn
<1>9. Turns(c, IdleCancel) \/ Turns(c, [cancel[c] EXCEPT !.pc = "refused"])
    BY DEF SendCancellation, Turns, TypeInv, CancelTyped
<1> QED
    BY <1>5, <1>6, <1>7, <1>8, <1>9, CancelStepTyped

LEMMA CancelTypes ==
    ASSUME TypeInv, NEW c \in CancelRequest, (\E p \in Process : ReadForCancel(c, p)) \/ CancelStep(c)
    PROVE  TypeInv'
BY CancelSteps1, CancelSteps2, ActiveTyped, SendTyped DEF CancelStep

LEMMA ReconStepTyped ==
    ASSUME TypeInv, Grows, BillTyped', TaskTyped', CallsTyped', JobTyped', ReconTyped',
           AttemptsBounded', UNCHANGED <<worker, active, cancel, retrying, resolved, crashes>>
    PROVE  TypeInv'
BY KeepWorker, KeepCancel DEF TypeInv, RestTyped

\* Of a step of the reconciler that keeps its row, or drops it.
ReconAt(pc) == recon' = [recon EXCEPT !.pc = pc]

LEMMA ReconMoves ==
    ASSUME TypeInv, Grows,
           \/ \E pc \in {"cancelled", "done", "failed", "deferring", "confirmed", "uncertain",
                         "refused", "reviewing"} : ReconAt(pc)
           \/ recon' = IdleRecon
    PROVE  ReconTyped' /\ recon'.attempts \in {0, recon.attempts}
<1>0. recon \in ReconRow /\ recon.run \in Run
    BY DEF TypeInv, ReconTyped, ReconRow
<1>1. CASE recon' = IdleRecon
    <2>1. 1 \in Run
        BY TaskAssumption DEF TaskAssumption, Run
    <2>2. IdleRecon \in ReconRow
        BY <2>1, TaskAssumption DEF TaskAssumption, IdleRecon, ReconRow, None
    <2>3. 0 \in Known
        BY KnownJobs DEF None
    <2>4. IdleRecon.run = 1 /\ IdleRecon.req = 0 /\ IdleRecon.pc = "idle" /\ IdleRecon.attempts = 0
        BY DEF IdleRecon, None
    <2> QED
        BY <1>1, <2>1, <2>2, <2>3, <2>4 DEF TypeInv, BillTyped, Grows, ReconTyped
<1>2. ASSUME NEW pc \in {"cancelled", "done", "failed", "deferring", "confirmed", "uncertain",
                         "refused", "reviewing"}, ReconAt(pc)
      PROVE  ReconTyped' /\ recon'.attempts = recon.attempts
    <2>1. recon' \in ReconRow /\ recon'.req = recon.req /\ recon'.run = recon.run /\ recon'.pc = pc
          /\ recon'.attempts = recon.attempts
        BY <1>0, <1>2 DEF ReconAt, ReconRow
    <2> QED
        BY <1>0, <2>1 DEF TypeInv, Grows, ReconTyped
<1> QED
    BY <1>1, <1>2

LEMMA Counted ==
    ASSUME TypeInv
    PROVE  /\ task.attempts \in Nat /\ recon.attempts \in Nat /\ crashes \in 0..MaxCrashes
           /\ MaxAttempts \in Nat /\ MaxCrashes \in Nat /\ MaxAttempts >= 2
<1>1. MaxAttempts \in Nat /\ MaxCrashes \in Nat /\ MaxAttempts >= 2
    BY TaskAssumption DEF TaskAssumption
<1> DEFINE Attempts == 0..MaxAttempts + MaxCrashes
<1>2. Attempts \subseteq Nat
    BY <1>1
<1> HIDE DEF Attempts
<1>3. task.attempts \in Attempts /\ recon.attempts \in Attempts
    BY DEF TypeInv, TaskTyped, ReconTyped, TaskRow, ReconRow, Attempts
<1> QED
    BY <1>1, <1>2, <1>3 DEF TypeInv, RestTyped

LEMMA ReconAttempts ==
    ASSUME TypeInv, recon.pc # "refused", recon'.attempts \in {0, recon.attempts},
           task'.attempts = task.attempts, task'.cancel = "requested" => task.cancel = "requested",
           crashes' = crashes
    PROVE  AttemptsBounded'
BY TaskAssumption DEF TaskAssumption, TypeInv, AttemptsBounded, RestTyped

LEMMA ClaimCancellationTyped ==
    ASSUME TypeInv, NEW p \in Process, ClaimNextTaskProviderCancellation(p)
    PROVE  TypeInv'
<1> DEFINE n == task.attempts + 1
<1>1. UNCHANGED <<bill, calls, job, worker, active, cancel, retrying, resolved, crashes>>
    BY DEF ClaimNextTaskProviderCancellation
<1>2. Grows /\ BillTyped' /\ JobTyped' /\ CallsTyped'
    BY <1>1, StillGrows, KeepCalls
<1>3. /\ task.run \in Run /\ Opened(task.run) /\ task.req \in Known /\ task.req # None
      /\ task.req \in JobId \cup {None}
    BY DEF ClaimNextTaskProviderCancellation, CancelIsRequested, TypeInv, TaskTyped, TaskRow
<1>4. task.attempts \in Nat /\ task.attempts < MaxAttempts + crashes /\ crashes \in 0..MaxCrashes
    BY Counted DEF ClaimNextTaskProviderCancellation, CancelIsRequested, TypeInv, AttemptsBounded
<1>5. n \in 0..MaxAttempts + MaxCrashes /\ n <= MaxAttempts + crashes
      /\ (n < MaxAttempts => n < MaxAttempts + crashes)
    BY <1>4, TaskAssumption DEF TaskAssumption
<1> HIDE DEF n
<1>6. /\ task' \in TaskRow /\ task'.req = task.req /\ task'.run = task.run /\ task'.attempts = n
      /\ task'.cancel = "requested" /\ task'.status = "cancelled"
    <2>1. task' = [task EXCEPT !.owner = Reconciler, !.lease = TRUE, !.attempts = n]
        BY DEF ClaimNextTaskProviderCancellation, n
    <2> QED
        BY <2>1, <1>5 DEF ClaimNextTaskProviderCancellation, CancelIsRequested, TypeInv, TaskTyped, TaskRow
<1>7. TaskTyped'
    BY <1>2, <1>3, <1>6 DEF TaskTyped, Grows
<1>8. /\ recon' = [pc |-> IF n >= MaxAttempts THEN "refused" ELSE "querying",
                   process |-> p, run |-> task.run, req |-> task.req, attempts |-> n]
    BY <1>6 DEF ClaimNextTaskProviderCancellation
<1>9. recon' \in ReconRow
    BY <1>3, <1>5, <1>8 DEF ReconRow
<1>10. ReconTyped'
    BY <1>2, <1>3, <1>8, <1>9 DEF ReconTyped, Grows
<1>11. AttemptsBounded'
    <2>1. n \in Int /\ MaxAttempts \in Int
        BY <1>5, TaskAssumption DEF TaskAssumption
    <2>2. recon'.attempts = n /\ (recon'.pc # "refused" => n < MaxAttempts)
        BY <1>8, <2>1
    <2> QED
        BY <1>1, <1>5, <1>6, <2>2 DEF AttemptsBounded
<1> QED
    BY <1>1, <1>2, <1>7, <1>10, <1>11, ReconStepTyped

LEMMA ReconSteps1 ==
    ASSUME TypeInv, QueryProviderCancellation \/ QueryFails
    PROVE  TypeInv'
<1>1. recon.pc = "querying" /\ recon.req \in Known /\ recon.req # None /\ recon.run \in Run
    BY DEF QueryProviderCancellation, QueryFails, TypeInv, ReconTyped, ReconRow
<1>2. UNCHANGED <<job, worker, active, cancel, retrying, resolved, crashes>>
    BY DEF QueryProviderCancellation, QueryFails
<1>3. Known' = Known
    BY <1>2 DEF Known
<1>4. /\ BillTyped' /\ TaskTyped' /\ CallsTyped' /\ Grows
      /\ task'.attempts = task.attempts /\ task'.cancel = task.cancel
    <2>1. CASE LogCancel(recon.run, recon.req)
        BY <1>1, <1>3, <2>1, KnownJobs, LogTyped
    <2>2. CASE UNCHANGED <<task, bill, calls>>
        <3>1. Grows /\ BillTyped'
            BY <1>2, <2>2, StillGrows
        <3> QED
            BY <2>2, <3>1, KeepTask, KeepCalls
    <2> QED
        BY <2>1, <2>2 DEF QueryProviderCancellation, QueryFails
<1>5. JobTyped'
    BY <1>2, <1>4, KeepJob
<1>6. \E pc \in {"cancelled", "done", "failed", "deferring", "refused"} : ReconAt(pc)
    <2>1. CASE QueryProviderCancellation
        <3>1. recon.req \in DOMAIN job
            BY <1>1, KnownJobs DEF Known, None, TypeInv, JobTyped
        <3>2. job[recon.req].state \in {"working", "done", "failed", "cancelled"}
            <4>1. job[recon.req] \in Job
                BY <3>1 DEF TypeInv, JobTyped
            <4> QED
                BY <4>1 DEF Job
        <3> QED
            BY <2>1, <3>2 DEF QueryProviderCancellation, ReconAt
    <2>2. CASE QueryFails
        BY <2>2 DEF QueryFails, ReconAt
    <2> QED
        BY <2>1, <2>2
<1>7. ReconTyped' /\ recon'.attempts \in {0, recon.attempts}
    BY <1>4, <1>6, ReconMoves
<1>8. AttemptsBounded'
    BY <1>1, <1>2, <1>4, <1>7, ReconAttempts
<1> QED
    BY <1>2, <1>4, <1>5, <1>7, <1>8, ReconStepTyped

LEMMA ReconSteps2 ==
    ASSUME TypeInv, ReconcileStopped \/ ReconcileDone \/ ReviewGivenUp
    PROVE  TypeInv'
<1>1. /\ OrderStep(recon.run)
      /\ UNCHANGED <<task, calls, job, worker, active, cancel, retrying, resolved, crashes>>
      /\ recon.pc # "refused"
    BY DEF ReconcileStopped, ReconcileDone, ReviewGivenUp, OrderStep
<1>2. recon.run \in Run
    BY DEF TypeInv, ReconTyped, ReconRow
<1>3. BillTyped' /\ Grows
    BY <1>1, <1>2, OrderKeeps
<1>4. TaskTyped' /\ CallsTyped' /\ JobTyped'
    BY <1>1, <1>3, KeepTask, KeepCalls, KeepJob
<1>5. (\E pc \in {"deferring", "confirmed", "uncertain"} : ReconAt(pc)) \/ recon' = IdleRecon
    <2>1. CASE ReconcileStopped
        <3>1. \/ recon' = [recon EXCEPT !.pc = IF recon.pc = "cancelled" THEN "confirmed" ELSE "uncertain"]
              \/ recon' = [recon EXCEPT !.pc = "deferring"]
            BY <2>1 DEF ReconcileStopped
        <3> QED
            BY <3>1 DEF ReconAt
    <2>2. CASE ReconcileDone \/ ReviewGivenUp
        BY <2>2 DEF ReconcileDone, ReviewGivenUp, ReconAt
    <2> QED
        BY <2>1, <2>2
<1>6. ReconTyped' /\ recon'.attempts \in {0, recon.attempts}
    BY <1>3, <1>5, ReconMoves
<1>7. AttemptsBounded'
    BY <1>1, <1>6, ReconAttempts
<1> QED
    BY <1>1, <1>3, <1>4, <1>6, <1>7, ReconStepTyped

LEMMA ReconSteps3 ==
    ASSUME TypeInv, UpdateCancellation \/ GiveUpCancellation
    PROVE  TypeInv'
<1>1. UNCHANGED <<bill, calls, job, worker, active, cancel, retrying, resolved, crashes>>
    BY DEF UpdateCancellation, GiveUpCancellation
<1>2. Grows /\ BillTyped' /\ JobTyped' /\ CallsTyped'
    BY <1>1, StillGrows, KeepCalls
<1>3. TaskTyped' /\ task'.attempts = task.attempts
    <2>1. CASE CancelIsRequested
        <3>1. \E status \in {"requested", "confirmed", "uncertain"} : CancelMovesTo(status)
            BY <2>1 DEF UpdateCancellation, GiveUpCancellation
        <3> QED
            BY <1>2, <2>1, <3>1, CancelMoved
    <2>2. CASE ~CancelIsRequested
        BY <1>2, <2>2, KeepTask DEF UpdateCancellation, GiveUpCancellation
    <2> QED
        BY <2>1, <2>2
<1>4. ReconAt("reviewing") \/ recon' = IdleRecon
    BY DEF UpdateCancellation, GiveUpCancellation, ReconAt
<1>5. ReconTyped' /\ recon'.attempts \in {0, recon.attempts}
    BY <1>2, <1>4, ReconMoves
<1>6. task'.cancel = "requested" => task.cancel = "requested" /\ recon.pc # "refused"
    <2>1. CASE CancelIsRequested
        <3>1. CASE UpdateCancellation
            BY <2>1, <3>1 DEF UpdateCancellation, CancelIsRequested
        <3>2. CASE GiveUpCancellation
            <4>1. CancelMovesTo("uncertain")
                BY <2>1, <3>2 DEF GiveUpCancellation
            <4>2. task'.cancel = "uncertain"
                BY <1>2, <2>1, <4>1, CancelMoved
            <4> QED
                BY <4>2
        <3> QED
            BY <3>1, <3>2
    <2>2. CASE ~CancelIsRequested
        <3>1. task' = task
            BY <2>2 DEF UpdateCancellation, GiveUpCancellation
        <3> QED
            BY <2>2, <3>1 DEF CancelIsRequested, TypeInv, TaskTyped
    <2> QED
        BY <2>1, <2>2
<1>7. AttemptsBounded'
    <2>1. CASE task'.cancel = "requested"
        BY <1>1, <1>3, <1>5, <1>6, <2>1, ReconAttempts
    <2>2. CASE task'.cancel # "requested"
        BY <1>1, <1>3, <1>5, <2>2, TaskAssumption
        DEF TaskAssumption, TypeInv, AttemptsBounded, RestTyped
    <2> QED
        BY <2>1, <2>2
<1> QED
    BY <1>1, <1>2, <1>3, <1>5, <1>7, ReconStepTyped

LEMMA ReconTypes ==
    ASSUME TypeInv, ReconStep
    PROVE  TypeInv'
BY ReconSteps1, ReconSteps2, ReconSteps3, ClaimCancellationTyped DEF ReconStep

LEMMA RestStepTyped ==
    ASSUME TypeInv, Grows, TaskTyped', BillTyped', JobTyped', RestTyped', AttemptsBounded',
           UNCHANGED <<calls, worker, cancel, recon>>
    PROVE  TypeInv'
BY KeepCalls, KeepWorker, KeepCancel, KeepRecon DEF TypeInv

LEMMA NewRunIsNew ==
    ASSUME \E r \in Run : bill[r].status = "none"
    PROVE  NewRun \in Run /\ bill[NewRun].status = "none"
BY DEF NewRun

LEMMA RetryTypes ==
    ASSUME TypeInv, CheckRetry \/ RetryTaskWithBilling
    PROVE  TypeInv'
<1>1. UNCHANGED <<calls, job, worker, active, cancel, recon, resolved, crashes>> /\ retrying' \in BOOLEAN
    BY DEF CheckRetry, RetryTaskWithBilling
<1>2. RestTyped'
    BY <1>1 DEF TypeInv, RestTyped
<1>3. CASE UNCHANGED <<task, bill>>
    <2>1. Grows /\ BillTyped' /\ JobTyped'
        BY <1>1, <1>3, StillGrows
    <2> QED
        BY <1>1, <1>2, <1>3, <2>1, KeepTask, AttemptsStay, RestStepTyped
<1>4. CASE RetryTaskWithBilling /\ task.status \in {"failed", "cancelled"}
    <2>1. NewRun \in Run /\ bill[NewRun].status = "none"
        BY <1>4, NewRunIsNew DEF RetryTaskWithBilling
    <2> DEFINE n == NewRun
    <2>2. bill' = [bill EXCEPT ![n].status = "reserved"]
        BY <1>4 DEF RetryTaskWithBilling
    <2>3. task' = [task EXCEPT !.status = "queued", !.owner = Nobody, !.lease = FALSE,
                               !.run = n, !.req = None, !.cancel = "", !.attempts = 0]
        BY <1>4 DEF RetryTaskWithBilling
    <2> HIDE DEF n
    <2>4. n \in Run
        BY <2>1 DEF n
    <2>5. /\ bill' \in [Run -> BillRow] /\ bill'[n].status # "none"
          /\ \A x \in Run : bill'[x].req = bill[x].req /\ (Opened(x) => Opened(x)')
        BY <2>2, <2>4 DEF TypeInv, BillTyped, BillRow, OpenBill, Opened
    <2>6. Known' = Known
        BY <1>1 DEF Known
    <2>7. Grows
        BY <2>5, <2>6 DEF Grows
    <2>8. BillTyped'
        <3>1. 1 \in Run
            BY TaskAssumption DEF TaskAssumption, Run
        <3> QED
            BY <2>5, <2>6, <3>1 DEF TypeInv, BillTyped
    <2>9. /\ task' \in TaskRow /\ task'.req = None /\ task'.run = n /\ task'.cancel = ""
          /\ task'.attempts = 0
        <3>1. 0 \in 0..MaxAttempts + MaxCrashes
            BY TaskAssumption DEF TaskAssumption
        <3> QED
            BY <2>3, <2>4, <3>1 DEF TypeInv, TaskTyped, TaskRow
    <2>10. TaskTyped'
        BY <2>5, <2>6, <2>9, KnownJobs DEF TaskTyped, Opened
    <2>11. JobTyped'
        BY <1>1, <2>7, KeepJob
    <2>12. AttemptsBounded'
        <3>1. task'.attempts = 0 /\ task'.cancel = ""
            BY <2>9
        <3>3. 0 <= MaxAttempts + crashes
            BY Counted
        <3>2. recon.attempts <= MaxAttempts + crashes /\ recon' = recon /\ crashes' = crashes
            BY <1>1 DEF TypeInv, AttemptsBounded
        <3> QED
            BY <3>1, <3>2, <3>3 DEF AttemptsBounded
    <2> QED
        BY <1>1, <1>2, <2>7, <2>8, <2>10, <2>11, <2>12, RestStepTyped
<1> QED
    BY <1>3, <1>4 DEF CheckRetry, RetryTaskWithBilling

LEMMA SurroundingsTypes ==
    ASSUME TypeInv, \/ \E r \in Run : ResolveBillingOrder(r)
                    \/ \E j \in DOMAIN job : JobEnds(j)
                    \/ LeaseExpires
    PROVE  TypeInv'
<1>1. ASSUME NEW r \in Run, ResolveBillingOrder(r)
      PROVE  TypeInv'
    <2>1. OrderStep(r) /\ UNCHANGED <<task, calls, job, worker, active, cancel, retrying, recon, crashes>>
        BY <1>1 DEF ResolveBillingOrder, OrderStep
    <2>2. Grows /\ BillTyped'
        BY <2>1, OrderKeeps
    <2>3. RestTyped'
        BY <1>1 DEF ResolveBillingOrder, TypeInv, RestTyped
    <2> QED
        BY <2>1, <2>2, <2>3, KeepTask, KeepJob, AttemptsStay, RestStepTyped
<1>2. ASSUME NEW j \in DOMAIN job, JobEnds(j)
      PROVE  TypeInv'
    <2>1. JobsEnd
        BY <1>2, JobEndTyped DEF JobEnds
    <2>2. UNCHANGED <<task, bill, calls, worker, active, others>>
        BY <1>2 DEF JobEnds
    <2>3. Grows
        BY <2>1, <2>2 DEF JobsEnd, Grows, Known, Opened
    <2>4. JobTyped' /\ BillTyped' /\ TaskTyped' /\ AttemptsBounded' /\ RestTyped'
        BY <2>1, <2>2, <2>3, JobsEndTyped, KeepBill, KeepTask, AttemptsStay
        DEF others, TypeInv, RestTyped
    <2> QED
        BY <2>2, <2>3, <2>4, RestStepTyped DEF others
<1>3. CASE LeaseExpires
    <2>1. UNCHANGED <<bill, calls, job, worker, active, others>> /\ task' = [task EXCEPT !.lease = FALSE]
        BY <1>3 DEF LeaseExpires
    <2>2. Grows /\ BillTyped' /\ JobTyped'
        BY <2>1, StillGrows
    <2>3. /\ task' \in TaskRow /\ task'.req = task.req /\ task'.run = task.run /\ task'.status = task.status
          /\ task'.cancel = task.cancel /\ task'.attempts = task.attempts /\ task.run \in Run
        BY <2>1 DEF TypeInv, TaskTyped, TaskRow
    <2>4. TaskTyped'
        BY <2>2, <2>3 DEF TypeInv, TaskTyped, Grows
    <2>5. AttemptsBounded' /\ RestTyped'
        BY <2>1, <2>3, AttemptsStay DEF others, TypeInv, RestTyped
    <2> QED
        BY <2>1, <2>2, <2>4, <2>5, RestStepTyped DEF others
<1> QED
    BY <1>1, <1>2, <1>3

LEMMA CrashTypes ==
    ASSUME TypeInv, NEW p \in Process, Crash(p)
    PROVE  TypeInv'
<1>1. UNCHANGED <<task, bill, calls, job, retrying, resolved>> /\ crashes' = crashes + 1
      /\ crashes < MaxCrashes
    BY DEF Crash
<1>2. Grows /\ BillTyped' /\ JobTyped' /\ CallsTyped' /\ TaskTyped'
    BY <1>1, StillGrows, KeepCalls, KeepTask
<1>3. crashes \in Nat /\ MaxCrashes \in Nat /\ MaxAttempts \in Nat
    BY TaskAssumption DEF TaskAssumption, TypeInv, RestTyped
<1>4. RestTyped'
    <2>1. crashes' \in 0..MaxCrashes
        BY <1>1, <1>3
    <2>2. active' = [active EXCEPT ![p] = Nobody]
        BY DEF Crash
    <2> QED
        BY <1>1, <2>1, <2>2 DEF TypeInv, RestTyped
<1>5. WorkerTyped'
    <2>1. \A w \in Worker : worker'[w] = IdleWorker \/ worker'[w] = worker[w]
        BY DEF Crash
    <2>2. worker' = [w \in Worker |-> worker'[w]]
        BY DEF Crash
    <2>3. \A w \in Worker : Fits(worker[w]) /\ Fits(IdleWorker)
        BY <1>2, RowFits
    <2>4. \A w \in Worker : Fits(worker'[w])
        BY <2>1, <2>3
    <2> HIDE DEF Crash
    <2> QED
        BY <2>2, <2>4 DEF WorkerTyped, Fits, Opened
<1>6. CancelTyped'
    <2>1. \A c \in CancelRequest : cancel'[c] = IdleCancel \/ cancel'[c] = cancel[c]
        BY DEF Crash
    <2>2. cancel' = [c \in CancelRequest |-> cancel'[c]]
        BY DEF Crash
    <2>3. \A c \in CancelRequest : Suits(cancel[c]) /\ Suits(IdleCancel)
        BY <1>2, RequestSuits
    <2>4. \A c \in CancelRequest : Suits(cancel'[c])
        BY <2>1, <2>3
    <2> QED
        BY <2>2, <2>4 DEF CancelTyped, Suits, Opened
<1>7. recon' = recon \/ recon' = IdleRecon
    BY DEF Crash
<1>8. ReconTyped' /\ recon'.attempts \in {0, recon.attempts}
    BY <1>2, <1>7, KeepRecon, ReconMoves
<1>9. AttemptsBounded'
    <2>1. task.attempts \in Int /\ recon.attempts \in Int
        BY Counted
    <2>2. task.attempts <= MaxAttempts + crashes /\ recon.attempts <= MaxAttempts + crashes
        BY DEF TypeInv, AttemptsBounded
    <2> QED
        BY <1>1, <1>3, <1>8, <2>1, <2>2 DEF AttemptsBounded
<1> QED
    BY <1>2, <1>4, <1>5, <1>6, <1>8, <1>9 DEF TypeInv

LEMMA StepTyped == TypeInv /\ [Next]_vars => TypeInv'
<1> SUFFICES ASSUME TypeInv, [Next]_vars PROVE TypeInv'
    OBVIOUS
<1>1. CASE UNCHANGED vars
    <2>1. Grows /\ BillTyped' /\ JobTyped'
        BY <1>1, StillGrows DEF vars
    <2> QED
        BY <1>1, <2>1, KeepTask, AttemptsStay, RestStepTyped DEF vars, TypeInv, RestTyped
<1>2. CASE Next
    BY <1>2, WorkerTypes, CancelTypes, ReconTypes, RetryTypes, SurroundingsTypes, CrashTypes DEF Next
<1> QED
    BY <1>1, <1>2

\* The rows of the database and every copy that an actor holds of them stay
\* within their types, and the attempts of a cancellation are bounded even if
\* processes crash in it (provider_task_cancellation.go).
THEOREM TaskTypeCorrect == Spec => []TypeOK
<1>1. Spec => []TypeInv
    BY InitTyped, StepTyped, PTL DEF Spec
<1> QED
    BY <1>1, TypeInvOK, PTL

-----------------------------------------------------------------------------
(* A task that has succeeded.                                              *)

\* The steps that may change more of the task than its upstream id.
Steering(w) == ClaimNextTask(w) \/ PreparationFails(w) \/ DeferToPoll(w) \/ CloseFailed(w)
                 \/ SaveTaskCompletion(w) \/ Heartbeat(w)

SameTask ==
    /\ task'.status = task.status /\ task'.run = task.run /\ task'.owner = task.owner
    /\ task'.lease = task.lease /\ task'.cancel = task.cancel /\ task'.interface = task.interface

LEMMA LogsOnly ==
    ASSUME TypeInv, NEW r, NEW j,
           LogIds(r, j) \/ (\E ok : LogCreate(r, j, ok) \/ LogPoll(r, j, ok)) \/ LogCancel(r, j)
    PROVE  SameTask /\ \A x \in Run : bill'[x].status = bill[x].status
<1>1. LogIds(r, j)
    BY DEF LogCreate, LogPoll, LogCancel
<1>2. SameTask
    BY <1>1 DEF LogIds, SameTask, TypeInv, TaskTyped, TaskRow
<1>3. \A x \in Run : bill'[x].status = bill[x].status
    BY <1>1 DEF LogIds, TypeInv, BillTyped, BillRow
<1> QED
    BY <1>2, <1>3

LEMMA WorkerLogs ==
    ASSUME NEW w \in Worker, WorkerStep(w), ~Steering(w)
    PROVE  \/ task' = task
           \/ \E j, ok : LogCreate(worker[w].run, j, ok) \/ LogPoll(worker[w].run, j, ok)
BY DEF WorkerStep, Steering, Register, PrepareBilling, RefundPreparation, SubmitAccepted,
    SubmitAnswerLost, SubmitRejected, RecordAccepted, RecordFails, PollPending, PollDelivers,
    PollFails, Poll, PollBreaks, PollStops, SlotFails, PersistFails, AbandonLost, RecheckFailure,
    ChargeFailure, RecheckDelivered, SaveFails, DiscardResult, SettleSuccess, HeartbeatFails

LEMMA WorksOn ==
    ASSUME TypeInv, NEW w \in Worker, WorkerStep(w), ~Steering(w)
    PROVE  SameTask
BY WorkerLogs, LogsOnly DEF SameTask

LEMMA SucceededStays ==
    ASSUME TypeInv, [Next]_vars, task.status = "succeeded"
    PROVE  task'.status = "succeeded"
<1>1. ASSUME NEW w \in Worker, WorkerStep(w)
      PROVE  task'.status = "succeeded"
    <2>1. CASE Steering(w)
        BY <2>1 DEF Steering, ClaimNextTask, PreparationFails, CloseFailed, MarkTerminalState,
            DeferToPoll, SaveTaskCompletion, Heartbeat
    <2>2. CASE ~Steering(w)
        BY <1>1, <2>2, WorksOn DEF SameTask
    <2> QED
        BY <2>1, <2>2
<1>2. ASSUME NEW c \in CancelRequest, (\E p \in Process : ReadForCancel(c, p)) \/ CancelStep(c)
      PROVE  task'.status = "succeeded"
    <2>1. CASE CancelTaskIfStatus(c)
        <3>1. cancel[c].status # "succeeded"
            BY DEF TypeInv, CancelTyped, CancelRow
        <3> QED
            BY <2>1, <3>1 DEF CancelTaskIfStatus
    <2>2. CASE SendCancellation(c)
        BY <2>2, LogsOnly DEF SendCancellation, SameTask
    <2>3. CASE ClaimTaskProviderCancellation(c)
        BY <2>3 DEF ClaimTaskProviderCancellation, TypeInv, TaskTyped, TaskRow
    <2>4. CASE \/ \E p \in Process : ReadForCancel(c, p)
               \/ CancelActiveTask(c) \/ CloseCancelled(c) \/ CannotCancel(c) \/ RefuseCancelled(c)
               \/ ReviewCancelled(c)
        BY <2>4 DEF ReadForCancel, CancelActiveTask, CloseCancelled, CannotCancel, RefuseCancelled,
            ReviewCancelled, CancelIsRequested
    <2> QED
        BY <1>2, <2>1, <2>2, <2>3, <2>4 DEF CancelStep
<1>3. CASE ReconStep
    <2>1. CASE QueryProviderCancellation \/ QueryFails
        BY <2>1, LogsOnly DEF QueryProviderCancellation, QueryFails, SameTask
    <2>2. CASE ~(QueryProviderCancellation \/ QueryFails)
        BY <1>3, <2>2 DEF ReconStep, ClaimNextTaskProviderCancellation, CancelIsRequested, ReconcileStopped,
            ReconcileDone, UpdateCancellation, GiveUpCancellation, ReviewGivenUp
    <2> QED
        BY <2>1, <2>2
<1>4. CASE CheckRetry \/ RetryTaskWithBilling \/ (\E r \in Run : ResolveBillingOrder(r))
             \/ (\E j \in DOMAIN job : JobEnds(j)) \/ LeaseExpires \/ (\E p \in Process : Crash(p))
    BY <1>4 DEF CheckRetry, RetryTaskWithBilling, ResolveBillingOrder, JobEnds, LeaseExpires, Crash
<1>5. CASE UNCHANGED vars
    BY <1>5 DEF vars
<1> QED
    BY <1>1, <1>2, <1>3, <1>4, <1>5 DEF Next

\* A task that has succeeded is never cancelled, failed or run again, whatever
\* stale copies of it the workers, the cancel requests and the reconciler hold.
THEOREM SuccessIsFinal == Spec => SucceededIsFinal
<1>1. Spec => []TypeInv
    BY InitTyped, StepTyped, PTL DEF Spec
<1>2. TypeInv /\ [Next]_vars => [task.status = "succeeded" => task'.status = "succeeded"]_vars
    BY SucceededStays
<1> QED
    BY <1>1, <1>2, PTL DEF Spec, SucceededIsFinal

-----------------------------------------------------------------------------
(* One worker drives the task.                                             *)

\* The worker has not yet closed the task.
Drives(w) == worker[w].pc \in {"claimed", "preparing", "dispatching", "accepted", "polling",
                               "failing", "closing", "delivered", "saving"}

\* Leases are kept up, and a run is not given up while another one follows.
Orderly == ~LeaseMayLapse /\ (MaxRuns = 1 \/ CancelRequest = {})

Drive(w) ==
    /\ worker[w].run = task.run
    /\ \/ task.status = "running" /\ task.lease /\ task.owner = ProcessOf[w] /\ ~worker[w].lost
       \/ task.status = "cancelled" /\ MaxRuns = 1
    /\ \A x \in Worker : Drives(x) => x = w

OneDriver == \A w \in Worker : Drives(w) => Drive(w)

\* What other actors keep and the steering steps change.
LEMMA DriverKept ==
    ASSUME TypeInv, OneDriver, SameTask,
           \A x \in Worker : Drives(x)' => /\ Drives(x) /\ worker'[x].run = worker[x].run
                                           /\ worker'[x].lost = worker[x].lost
    PROVE  OneDriver'
BY DEF OneDriver, Drive, SameTask

LEMMA ReturnedRow ==
    ASSUME TypeInv, NEW w \in Worker, NEW result, NEW latest, Returns(w, result, latest)
    PROVE  /\ worker'[w].pc = IF result = "delivered" THEN "delivered" ELSE "failing"
           /\ worker'[w].req = IF latest # None THEN latest ELSE worker[w].req
           /\ worker'[w].run = worker[w].run /\ worker'[w].job = worker[w].job
           /\ worker'[w].lost = worker[w].lost /\ worker'[w].canceled = worker[w].canceled
           /\ worker'[w].result = result
           /\ \A x \in Worker : x # w => worker'[x] = worker[x]
BY DEF Returns, TypeInv, WorkerTyped, WorkerRow

LEMMA FinishedRow ==
    ASSUME TypeInv, NEW w \in Worker, Finish(w)
    PROVE  /\ worker'[w] = IdleWorker /\ worker'[w].pc = "idle"
           /\ \A x \in Worker : x # w => worker'[x] = worker[x]
BY DEF Finish, TypeInv, WorkerTyped, IdleWorker

LEMMA ClaimedRow ==
    ASSUME TypeInv, NEW w \in Worker, ClaimNextTask(w)
    PROVE  /\ worker[w].pc = "idle" /\ worker'[w].pc = "claimed" /\ worker'[w].run = task.run
           /\ worker'[w].req = task.req /\ ~worker'[w].lost
           /\ \A x \in Worker : x # w => worker'[x] = worker[x]
<1> DEFINE row == [IdleWorker EXCEPT !.pc = "claimed", !.run = task.run, !.req = task.req]
<1>1. row.pc = "claimed" /\ row.run = task.run /\ row.req = task.req /\ ~row.lost
    BY DEF IdleWorker
<1>2. worker' = [worker EXCEPT ![w] = row] /\ worker[w].pc = "idle"
    BY DEF ClaimNextTask, At
<1> HIDE DEF row
<1> QED
    BY <1>1, <1>2 DEF TypeInv, WorkerTyped

LEMMA WentRow ==
    ASSUME TypeInv, NEW w \in Worker, NEW pc, Goto(w, pc)
    PROVE  /\ worker'[w].pc = pc /\ worker'[w].req = worker[w].req
           /\ worker'[w].run = worker[w].run /\ worker'[w].job = worker[w].job
           /\ worker'[w].lost = worker[w].lost /\ worker'[w].canceled = worker[w].canceled
           /\ worker'[w].result = worker[w].result
           /\ \A x \in Worker : x # w => worker'[x] = worker[x]
BY DEF Goto, TypeInv, WorkerTyped, WorkerRow

LEMMA OneRun ==
    ASSUME TypeInv, MaxRuns = 1
    PROVE  /\ Run = {1} /\ task.run = 1 /\ recon.run = 1 /\ bill[1].status # "none"
           /\ \A w \in Worker : worker[w].run = 1
           /\ \A c \in CancelRequest : cancel[c].run = 1
           /\ \A j \in DOMAIN job : job[j].run = 1
<1>1. Run = {1}
    BY DEF Run
<1>2. \A j \in DOMAIN job : job[j] \in Job
    BY DEF TypeInv, JobTyped
<1>3. \A j \in DOMAIN job : job[j].run \in Run
    BY <1>2 DEF Job
<1>4. task.run \in Run /\ recon.run \in Run
    BY DEF TypeInv, TaskTyped, TaskRow, ReconTyped, ReconRow
<1>5. \A w \in Worker : worker[w].run \in Run
    BY DEF TypeInv, WorkerTyped, WorkerRow
<1>6. \A c \in CancelRequest : cancel[c].run \in Run
    BY DEF TypeInv, CancelTyped, CancelRow
<1> QED
    BY <1>1, <1>3, <1>4, <1>5, <1>6 DEF TypeInv, BillTyped, Opened

LEMMA NoRetry ==
    ASSUME TypeInv, MaxRuns = 1, RetryTaskWithBilling
    PROVE  UNCHANGED <<task, bill>>
BY OneRun DEF RetryTaskWithBilling

\* The steps of a worker that neither claim nor close the task.
LEMMA WorkingRow ==
    ASSUME TypeInv, NEW w \in Worker, WorkerStep(w), ~Steering(w), ~HeartbeatFails(w)
    PROVE  /\ \A x \in Worker : x # w => worker'[x] = worker[x]
           /\ Drives(w)' => /\ Drives(w) /\ worker'[w].run = worker[w].run
                            /\ worker'[w].lost = worker[w].lost
<1> DEFINE P == /\ \A x \in Worker : x # w => worker'[x] = worker[x]
                /\ Drives(w)' => /\ Drives(w) /\ worker'[w].run = worker[w].run
                                 /\ worker'[w].lost = worker[w].lost
<1>1. CASE RefundPreparation(w) \/ AbandonLost(w) \/ ChargeFailure(w) \/ DiscardResult(w) \/ SettleSuccess(w)
    BY <1>1, FinishedRow DEF RefundPreparation, AbandonLost, ChargeFailure, DiscardResult, SettleSuccess, Drives
<1>2. CASE SubmitAnswerLost(w) \/ SubmitRejected(w) \/ PollDelivers(w) \/ PollFails(w) \/ PollBreaks(w)
             \/ PollStops(w) \/ SlotFails(w)
    <2>1. Drives(w) /\ \E result, latest : Returns(w, result, latest)
        BY <1>2 DEF SubmitAnswerLost, NewJob, SubmitRejected, PollDelivers, PollFails, Poll, PollBreaks,
            PollStops, SlotFails, Drives, At
    <2> QED
        BY <2>1, ReturnedRow DEF Drives
<1>3. CASE RecordAccepted(w) \/ RecordFails(w)
    <2>1. Drives(w) /\ Goto(w, "polling")
        BY <1>3 DEF RecordAccepted, RecordFails, Drives, At
    <2> QED
        BY <2>1, WentRow DEF Drives
<1>4. CASE Register(w) \/ RecheckFailure(w)
    <2>1. Drives(w) /\ (Finish(w) \/ Goto(w, "preparing") \/ Goto(w, "closing"))
        BY <1>4 DEF Register, RecheckFailure, Drives, At
    <2> QED
        BY <2>1, WentRow, FinishedRow DEF Drives
<1>5. CASE PollPending(w)
    BY <1>5 DEF PollPending, Drives
<1>6. CASE PrepareBilling(w) \/ SubmitAccepted(w) \/ PersistFails(w)
    <2>1. Drives(w)
        BY <1>6 DEF PrepareBilling, SubmitAccepted, NewJob, PersistFails, Drives, At
    <2>2. /\ \A x \in Worker : x # w => worker'[x] = worker[x]
          /\ worker'[w].run = worker[w].run /\ worker'[w].lost = worker[w].lost
        BY <1>6 DEF PrepareBilling, SubmitAccepted, PersistFails, TypeInv, WorkerTyped, WorkerRow
    <2> QED
        BY <2>1, <2>2
<1>7. CASE RecheckDelivered(w) \/ SaveFails(w)
    <2>1. Drives(w)
        BY <1>7 DEF RecheckDelivered, SaveFails, Drives, At
    <2>2. /\ \A x \in Worker : x # w => worker'[x] = worker[x]
          /\ worker'[w].pc # "discarding" => worker'[w].run = worker[w].run
          /\ worker'[w].lost = worker[w].lost
        BY <1>7 DEF RecheckDelivered, SaveFails, TypeInv, WorkerTyped, WorkerRow
    <2> QED
        BY <2>1, <2>2 DEF Drives
<1> QED
    BY <1>1, <1>2, <1>3, <1>4, <1>5, <1>6, <1>7 DEF WorkerStep, Steering

LEMMA WorkingKeepsDriver ==
    ASSUME TypeInv, OneDriver, NEW w \in Worker, WorkerStep(w), ~Steering(w), ~HeartbeatFails(w)
    PROVE  OneDriver'
BY WorkingRow, WorksOn, DriverKept DEF Drives

\* Steps of others leave the workers alone, all but their context.
LEMMA OtherRows ==
    ASSUME TypeInv, Next, ~\E w \in Worker : WorkerStep(w)
    PROVE  \A x \in Worker : Drives(x)' => /\ Drives(x) /\ worker'[x].run = worker[x].run
                                           /\ worker'[x].lost = worker[x].lost
<1>1. ASSUME NEW c \in CancelRequest, CancelActiveTask(c)
      PROVE  \A x \in Worker : /\ worker'[x].pc = worker[x].pc /\ worker'[x].run = worker[x].run
                               /\ worker'[x].lost = worker[x].lost
    BY <1>1 DEF CancelActiveTask, TypeInv, WorkerTyped, WorkerRow
<1>2. ASSUME NEW p \in Process, Crash(p)
      PROVE  \A x \in Worker : worker'[x] = IdleWorker \/ worker'[x] = worker[x]
    BY <1>2 DEF Crash
<1>3. \/ worker' = worker
      \/ \E c \in CancelRequest : CancelActiveTask(c)
      \/ \E p \in Process : Crash(p)
    <2>1. ASSUME NEW c \in CancelRequest, (\E p \in Process : ReadForCancel(c, p)) \/ CancelStep(c),
                 ~CancelActiveTask(c)
          PROVE  worker' = worker
        BY <2>1 DEF ReadForCancel, CancelStep, CancelTaskIfStatus, CloseCancelled, CannotCancel, RefuseCancelled,
            ReviewCancelled, ClaimTaskProviderCancellation, SendCancellation
    <2>2. ASSUME ReconStep
          PROVE  worker' = worker
        BY <2>2 DEF ReconStep, ClaimNextTaskProviderCancellation, QueryProviderCancellation, QueryFails,
            ReconcileStopped, ReconcileDone, UpdateCancellation, GiveUpCancellation, ReviewGivenUp
    <2>3. CASE CheckRetry \/ RetryTaskWithBilling \/ (\E r \in Run : ResolveBillingOrder(r))
             \/ (\E j \in DOMAIN job : JobEnds(j)) \/ LeaseExpires
        BY <2>3 DEF CheckRetry, RetryTaskWithBilling, ResolveBillingOrder, JobEnds, LeaseExpires
    <2> QED
        BY <2>1, <2>2, <2>3 DEF Next
<1>4. \A x \in Worker : Drives(x)' => worker'[x].pc # "idle"
    BY DEF Drives
<1>5. IdleWorker.pc = "idle"
    BY DEF IdleWorker
<1> QED
    BY <1>1, <1>2, <1>3, <1>4, <1>5 DEF Drives

\* What anybody but a worker does to the status of the task.
SameStatus ==
    /\ task'.status = task.status /\ task'.run = task.run
    /\ \/ task'.owner = task.owner /\ task'.lease = task.lease
       \/ task.status = "cancelled"

TaskCancelled(c) ==
    /\ CancelTaskIfStatus(c) /\ task.status = cancel[c].status
    /\ task' = [task EXCEPT !.status = "cancelled", !.owner = Nobody, !.lease = FALSE]

Retried == RetryTaskWithBilling /\ task.status \in {"failed", "cancelled"}

LEMMA OthersTask ==
    ASSUME TypeInv, [Next]_vars, ~\E w \in Worker : WorkerStep(w)
    PROVE  \/ SameStatus
           \/ \E c \in CancelRequest : TaskCancelled(c)
           \/ Retried
           \/ LeaseExpires
<1>1. ASSUME NEW c \in CancelRequest, (\E p \in Process : ReadForCancel(c, p)) \/ CancelStep(c)
      PROVE  SameStatus \/ TaskCancelled(c)
    <2>1. CASE CancelTaskIfStatus(c)
        BY <2>1 DEF CancelTaskIfStatus, TaskCancelled, SameStatus
    <2>2. CASE SendCancellation(c)
        BY <2>2, LogsOnly DEF SendCancellation, SameTask, SameStatus
    <2>3. CASE ClaimTaskProviderCancellation(c)
        BY <2>3 DEF ClaimTaskProviderCancellation, TypeInv, TaskTyped, TaskRow, SameStatus
    <2>4. CASE RefuseCancelled(c)
        BY <2>4 DEF RefuseCancelled, CancelIsRequested, CancelMovesTo, TypeInv, TaskTyped, TaskRow, SameStatus
    <2>5. CASE \/ \E p \in Process : ReadForCancel(c, p)
               \/ CancelActiveTask(c) \/ CloseCancelled(c) \/ CannotCancel(c) \/ ReviewCancelled(c)
        BY <2>5 DEF ReadForCancel, CancelActiveTask, CloseCancelled, CannotCancel,
            ReviewCancelled, SameStatus
    <2> QED
        BY <1>1, <2>1, <2>2, <2>3, <2>4, <2>5 DEF CancelStep
<1>2. CASE ReconStep
    <2>1. CASE QueryProviderCancellation \/ QueryFails
        <3>1. LogCancel(recon.run, recon.req) \/ task' = task
            BY <2>1 DEF QueryProviderCancellation, QueryFails
        <3> QED
            BY <3>1, LogsOnly DEF SameTask, SameStatus
    <2>2. CASE UpdateCancellation \/ GiveUpCancellation
        <3>1. (CancelIsRequested /\ \E status : CancelMovesTo(status)) \/ task' = task
            BY <2>2 DEF UpdateCancellation, GiveUpCancellation
        <3> QED
            BY <3>1 DEF CancelIsRequested, CancelMovesTo, TypeInv, TaskTyped, TaskRow, SameStatus
    <2>3. CASE \E p \in Process : ClaimNextTaskProviderCancellation(p)
        BY <2>3 DEF ClaimNextTaskProviderCancellation, CancelIsRequested, TypeInv, TaskTyped, TaskRow, SameStatus
    <2>4. CASE ReconcileStopped \/ ReconcileDone \/ ReviewGivenUp
        BY <2>4 DEF ReconcileStopped, ReconcileDone, ReviewGivenUp, SameStatus
    <2> QED
        BY <1>2, <2>1, <2>2, <2>3, <2>4 DEF ReconStep
<1>3. CASE RetryTaskWithBilling
    BY <1>3 DEF RetryTaskWithBilling, Retried, SameStatus
<1>4. CASE CheckRetry \/ (\E r \in Run : ResolveBillingOrder(r))
             \/ (\E j \in DOMAIN job : JobEnds(j)) \/ (\E p \in Process : Crash(p))
    BY <1>4 DEF CheckRetry, ResolveBillingOrder, JobEnds, Crash, SameStatus
<1>5. CASE UNCHANGED vars
    BY <1>5 DEF vars, SameStatus
<1> QED
    BY <1>1, <1>2, <1>3, <1>4, <1>5 DEF Next

LEMMA Initially ==
    ASSUME Init
    PROVE  /\ task.status = "queued" /\ task.run = 1 /\ task.req = None /\ task.cancel = ""
           /\ \A w \in Worker : worker[w].pc = "idle" /\ worker[w].req = None
           /\ \A c \in CancelRequest : cancel[c].pc = "idle"
           /\ recon.pc = "idle" /\ recon.req = None
           /\ job = <<>> /\ ~calls.ok /\ ~calls.okBefore
           /\ \A r \in Run : bill[r].status = IF r = 1 THEN "reserved" ELSE "none"
<1>1. /\ worker = [w \in Worker |-> IdleWorker]
      /\ cancel = [c \in CancelRequest |-> IdleCancel]
      /\ recon = IdleRecon /\ job = <<>>
      /\ calls = [created |-> FALSE, ok |-> FALSE, okBefore |-> FALSE, latest |-> None]
      /\ bill = [r \in Run |-> [status |-> IF r = 1 THEN "reserved" ELSE "none", req |-> None]]
    BY DEF Init
<1>2. task.status = "queued" /\ task.run = 1 /\ task.req = None /\ task.cancel = ""
    <2>1. PICK i \in Interface :
            task = [status |-> "queued", owner |-> Nobody, lease |-> FALSE, interface |-> i,
                    run |-> 1, req |-> None, cancel |-> "", attempts |-> 0]
        BY DEF Init
    <2> QED
        BY <2>1
<1> QED
    BY <1>1, <1>2 DEF IdleWorker, IdleCancel, IdleRecon

LEMMA DriverInit == Init => OneDriver
BY Initially DEF OneDriver, Drives

LEMMA DriverSteers ==
    ASSUME TypeInv, Orderly, OneDriver, NEW w \in Worker, Steering(w) \/ HeartbeatFails(w)
    PROVE  OneDriver'
<1>1. CASE ClaimNextTask(w)
    <2>1. \A x \in Worker : ~Drives(x)
        BY <1>1 DEF ClaimNextTask, OneDriver, Drive
    <2>2. /\ \A x \in Worker : x # w => worker'[x] = worker[x]
          /\ worker'[w].run = task.run /\ ~worker'[w].lost
        BY <1>1 DEF ClaimNextTask, IdleWorker, TypeInv, WorkerTyped
    <2>3. /\ task'.status = "running" /\ task'.lease /\ task'.owner = ProcessOf[w] /\ task'.run = task.run
        BY <1>1 DEF ClaimNextTask, TypeInv, TaskTyped, TaskRow
    <2> QED
        BY <2>1, <2>2, <2>3 DEF OneDriver, Drive, Drives
<1>2. CASE PreparationFails(w) \/ CloseFailed(w)
    <2>1. Drives(w) /\ (Goto(w, "refunding") \/ Goto(w, "charging"))
        BY <1>2 DEF PreparationFails, CloseFailed, Drives, At
    <2>2. \A x \in Worker : ~Drives(x)'
        BY <2>1, WentRow DEF OneDriver, Drive, Drives
    <2> QED
        BY <2>2 DEF OneDriver
<1>3. CASE DeferToPoll(w)
    <2>1. Drives(w) /\ Finish(w)
        BY <1>3 DEF DeferToPoll, Drives, At
    <2>2. \A x \in Worker : ~Drives(x)'
        BY <2>1, FinishedRow DEF OneDriver, Drive, Drives
    <2> QED
        BY <2>2 DEF OneDriver
<1>4. CASE SaveTaskCompletion(w)
    <2>1. Drives(w) /\ Goto(w, "settling")
        BY <1>4 DEF SaveTaskCompletion, Drives, At
    <2>2. \A x \in Worker : ~Drives(x)'
        BY <2>1, WentRow DEF OneDriver, Drive, Drives
    <2> QED
        BY <2>2 DEF OneDriver
<1>5. CASE Heartbeat(w)
    <2>1. \A x \in Worker : ~Drives(x)
        BY <1>5 DEF Heartbeat, OneDriver, Drive
    <2> QED
        BY <1>5, <2>1 DEF Heartbeat, OneDriver, Drives
<1>6. CASE HeartbeatFails(w)
    <2>1. /\ worker'[w].pc = worker[w].pc /\ worker'[w].run = worker[w].run
          /\ \A x \in Worker : x # w => worker'[x] = worker[x]
        BY <1>6 DEF HeartbeatFails, TypeInv, WorkerTyped, WorkerRow
    <2>2. task' = task /\ ~(task.status = "running" /\ task.owner = ProcessOf[w])
        BY <1>6 DEF HeartbeatFails
    <2> QED
        BY <2>1, <2>2 DEF OneDriver, Drive, Drives
<1> QED
    BY <1>1, <1>2, <1>3, <1>4, <1>5, <1>6 DEF Steering

LEMMA DriverStep == TypeInv /\ Orderly /\ OneDriver /\ [Next]_vars => OneDriver'
<1> SUFFICES ASSUME TypeInv, Orderly, OneDriver, [Next]_vars PROVE OneDriver'
    OBVIOUS
<1>1. CASE \E w \in Worker : WorkerStep(w)
    BY <1>1, DriverSteers, WorkingKeepsDriver
<1>2. CASE UNCHANGED vars
    BY <1>2 DEF vars, OneDriver, Drive, Drives
<1>3. CASE Next /\ ~\E w \in Worker : WorkerStep(w)
    <2>1. \A x \in Worker : Drives(x)' => /\ Drives(x) /\ worker'[x].run = worker[x].run
                                          /\ worker'[x].lost = worker[x].lost
        BY <1>3, OtherRows
    <2>2. CASE SameStatus
        BY <2>1, <2>2 DEF SameStatus, OneDriver, Drive
    <2>3. ASSUME NEW c \in CancelRequest, TaskCancelled(c)
          PROVE  OneDriver'
        <3>1. task'.status = "cancelled" /\ task'.run = task.run /\ MaxRuns = 1
            BY <2>3 DEF TaskCancelled, Orderly, TypeInv, TaskTyped, TaskRow
        <3> QED
            BY <2>1, <3>1 DEF OneDriver, Drive
    <2>4. CASE Retried
        <3>1. CASE MaxRuns = 1
            <4>1. task' = task
                BY <2>4, <3>1, NoRetry DEF Retried
            <4> QED
                BY <2>1, <4>1 DEF OneDriver, Drive
        <3>2. CASE MaxRuns # 1
            BY <2>1, <2>4, <3>2 DEF Retried, OneDriver, Drive
        <3> QED
            BY <3>1, <3>2
    <2>5. CASE LeaseExpires
        <3>1. ASSUME NEW x \in Worker, Drives(x), task.status = "running"
              PROVE  FALSE
            BY <2>5, <3>1 DEF LeaseExpires, Orderly, OneDriver, Drive, Drives, At
        <3>2. task'.run = task.run /\ task'.status = task.status
            BY <2>5 DEF LeaseExpires, TypeInv, TaskTyped, TaskRow
        <3> QED
            BY <2>1, <3>1, <3>2 DEF OneDriver, Drive
    <2> QED
        BY <1>3, <2>2, <2>3, <2>4, <2>5, OthersTask
<1> QED
    BY <1>1, <1>2, <1>3

-----------------------------------------------------------------------------
(* One run is cancelled once.                                              *)

\* Between two runs nothing is cancelled, and of one run only once.
CancelledOnce ==
    /\ MaxRuns # 1 => recon.pc = "idle" /\ task.cancel = ""
    /\ recon.pc # "idle" => task.status = "cancelled" /\ task.cancel # ""
    /\ \A c \in CancelRequest : cancel[c].pc \notin {"idle", "read"} =>
        /\ task.status = "cancelled"
        /\ cancel[c].pc \in {"committed", "closing", "claiming"} => task.cancel = ""
        /\ \A d \in CancelRequest : cancel[d].pc \notin {"idle", "read"} => d = c

LEMMA WorkerLeaves ==
    ASSUME TypeInv, NEW w \in Worker, WorkerStep(w)
    PROVE  UNCHANGED others /\ task'.cancel = task.cancel /\ task'.interface = task.interface
<1>1. CASE Steering(w)
    <2>1. task'.cancel = task.cancel /\ task'.interface = task.interface
        <3>1. CASE PreparationFails(w) \/ CloseFailed(w)
            <4>1. \E status : MarkTerminalState(status)
                BY <3>1 DEF PreparationFails, CloseFailed
            <4> QED
                BY <4>1 DEF MarkTerminalState, TypeInv, TaskTyped, TaskRow
        <3>2. CASE ClaimNextTask(w) \/ DeferToPoll(w) \/ SaveTaskCompletion(w) \/ Heartbeat(w)
            BY <3>2 DEF ClaimNextTask, DeferToPoll, SaveTaskCompletion, Heartbeat, TypeInv, TaskTyped, TaskRow
        <3> QED
            BY <1>1, <3>1, <3>2 DEF Steering
    <2>2. UNCHANGED others
        BY <1>1 DEF Steering, ClaimNextTask, PreparationFails, DeferToPoll, CloseFailed, SaveTaskCompletion,
            Heartbeat
    <2> QED
        BY <2>1, <2>2
<1>2. CASE ~Steering(w)
    <2>1. SameTask
        BY <1>2, WorksOn
    <2>2. UNCHANGED others
        BY <1>2 DEF WorkerStep, Steering, Register, PrepareBilling, RefundPreparation, SubmitAccepted,
            SubmitAnswerLost, SubmitRejected, RecordAccepted, RecordFails, PollPending, PollDelivers,
            PollFails, Poll, PollBreaks, PollStops, SlotFails, PersistFails, AbandonLost, RecheckFailure,
            ChargeFailure, RecheckDelivered, SaveFails, DiscardResult, SettleSuccess, HeartbeatFails
    <2> QED
        BY <2>1, <2>2 DEF SameTask
<1> QED
    BY <1>1, <1>2

LEMMA CancelledStays ==
    ASSUME TypeInv, MaxRuns = 1, [Next]_vars, task.status = "cancelled"
    PROVE  task'.status = "cancelled"
<1>1. ASSUME NEW w \in Worker, WorkerStep(w)
      PROVE  task'.status = "cancelled"
    <2>1. CASE Steering(w)
        BY <2>1 DEF Steering, ClaimNextTask, PreparationFails, CloseFailed, MarkTerminalState,
            DeferToPoll, SaveTaskCompletion, Heartbeat
    <2>2. CASE ~Steering(w)
        BY <1>1, <2>2, WorksOn DEF SameTask
    <2> QED
        BY <2>1, <2>2
<1>2. CASE ~\E w \in Worker : WorkerStep(w)
    <2>1. CASE Retried
        BY <2>1, NoRetry DEF Retried
    <2>2. ASSUME NEW c \in CancelRequest, TaskCancelled(c)
          PROVE  task'.status = "cancelled"
        BY <2>2 DEF TaskCancelled, TypeInv, TaskTyped, TaskRow
    <2>3. CASE LeaseExpires
        BY <2>3 DEF LeaseExpires, TypeInv, TaskTyped, TaskRow
    <2> QED
        BY <1>2, <2>1, <2>2, <2>3, OthersTask DEF SameStatus
<1> QED
    BY <1>1, <1>2

LEMMA OnceInit == Init => CancelledOnce
BY Initially DEF CancelledOnce

\* The ways of a cancel request.
Leg(c, from, to) == cancel[c].pc = from /\ cancel'[c].pc \in to

LEMMA RequestLegs ==
    ASSUME TypeInv, NEW c \in CancelRequest, (\E p \in Process : ReadForCancel(c, p)) \/ CancelStep(c)
    PROVE  /\ \A d \in CancelRequest : d # c => cancel'[d] = cancel[d]
           /\ \/ Leg(c, "idle", {"read"})
              \/ Leg(c, "read", {"idle"}) /\ task' = task
              \/ Leg(c, "read", {"committed"}) /\ TaskCancelled(c)
              \/ Leg(c, "committed", {"claiming", "closing"}) /\ CancelActiveTask(c)
              \/ Leg(c, "closing", {"idle"}) /\ CloseCancelled(c)
              \/ Leg(c, "claiming", {"sending", "idle"}) /\ ClaimTaskProviderCancellation(c)
              \/ Leg(c, "sending", {"refused", "idle"}) /\ (SendCancellation(c) \/ CannotCancel(c))
              \/ Leg(c, "refused", {"reviewing", "idle"}) /\ RefuseCancelled(c)
              \/ Leg(c, "reviewing", {"idle"}) /\ ReviewCancelled(c)
<1>1. cancel \in [CancelRequest -> CancelRow] /\ IdleCancel.pc = "idle"
    BY DEF TypeInv, CancelTyped, IdleCancel
<1>2. ASSUME NEW p \in Process, ReadForCancel(c, p)
      PROVE  /\ \A d \in CancelRequest : d # c => cancel'[d] = cancel[d]
             /\ Leg(c, "idle", {"read"})
    BY <1>1, <1>2 DEF ReadForCancel, Leg
<1>3. CASE CancelTaskIfStatus(c)
    <2>1. CASE task.status = cancel[c].status
        BY <1>1, <1>3, <2>1 DEF CancelTaskIfStatus, TaskCancelled, Leg, CancelRow
    <2>2. CASE task.status # cancel[c].status
        BY <1>1, <1>3, <2>2 DEF CancelTaskIfStatus, Leg
    <2> QED
        BY <2>1, <2>2
<1>4. CASE CancelActiveTask(c)
    BY <1>1, <1>4 DEF CancelActiveTask, Leg, CancelRow
<1>5. CASE CloseCancelled(c)
    BY <1>1, <1>5 DEF CloseCancelled, Leg
<1>6. CASE ClaimTaskProviderCancellation(c)
    BY <1>1, <1>6 DEF ClaimTaskProviderCancellation, Leg, CancelRow
<1>7. CASE SendCancellation(c)
    <2>1. \/ cancel' = [cancel EXCEPT ![c] = IdleCancel]
          \/ cancel' = [cancel EXCEPT ![c] = [cancel[c] EXCEPT !.pc = "refused"]]
        BY <1>7 DEF SendCancellation
    <2>2. cancel[c].pc = "sending"
        BY <1>7 DEF SendCancellation
    <2> QED
        BY <1>1, <1>7, <2>1, <2>2 DEF Leg, CancelRow
<1>8. CASE CannotCancel(c)
    BY <1>1, <1>8 DEF CannotCancel, Leg, CancelRow
<1>9. CASE RefuseCancelled(c)
    BY <1>1, <1>9 DEF RefuseCancelled, Leg, CancelRow
<1>10. CASE ReviewCancelled(c)
    BY <1>1, <1>10 DEF ReviewCancelled, Leg
<1> QED
    BY <1>2, <1>3, <1>4, <1>5, <1>6, <1>7, <1>8, <1>9, <1>10 DEF CancelStep

LEMMA OnceByRequest ==
    ASSUME TypeInv, MaxRuns = 1, CancelledOnce, NEW c \in CancelRequest,
           (\E p \in Process : ReadForCancel(c, p)) \/ CancelStep(c)
    PROVE  CancelledOnce'
<1>1. Next
    BY DEF Next
<1>2. recon' = recon
    BY DEF ReadForCancel, CancelStep, CancelTaskIfStatus, CancelActiveTask, CloseCancelled,
        ClaimTaskProviderCancellation, SendCancellation, CannotCancel, RefuseCancelled, ReviewCancelled
<1>3. \A d \in CancelRequest : d # c => cancel'[d] = cancel[d]
    BY RequestLegs
<1>4. task.cancel # "" => task'.cancel # ""
    <2>1. CASE SendCancellation(c)
        BY <2>1, LogsOnly DEF SendCancellation, SameTask
    <2>2. CASE ClaimTaskProviderCancellation(c)
        BY <2>2 DEF ClaimTaskProviderCancellation, TypeInv, TaskTyped, TaskRow
    <2>3. CASE RefuseCancelled(c)
        BY <2>3 DEF RefuseCancelled, CancelMovesTo, TypeInv, TaskTyped, TaskRow
    <2>4. CASE CancelTaskIfStatus(c)
        BY <2>4 DEF CancelTaskIfStatus, TypeInv, TaskTyped, TaskRow
    <2>5. CASE (\E p \in Process : ReadForCancel(c, p)) \/ CancelActiveTask(c) \/ CloseCancelled(c)
               \/ CannotCancel(c) \/ ReviewCancelled(c)
        BY <2>5 DEF ReadForCancel, CancelActiveTask, CloseCancelled, CannotCancel, ReviewCancelled
    <2> QED
        BY <2>1, <2>2, <2>3, <2>4, <2>5 DEF CancelStep
<1>5. CASE cancel'[c].pc \in {"idle", "read"}
    <2>1. \A d \in CancelRequest : cancel'[d].pc \notin {"idle", "read"} =>
            cancel[c].pc \in {"idle", "read"} /\ cancel[d].pc \notin {"idle", "read"}
        BY <1>3, <1>5 DEF CancelledOnce
    <2>2. cancel[c].pc \in {"idle", "read"} => task'.cancel = task.cancel
        BY DEF ReadForCancel, CancelStep, CancelTaskIfStatus, CancelActiveTask, CloseCancelled,
            ClaimTaskProviderCancellation, SendCancellation, CannotCancel, RefuseCancelled, ReviewCancelled,
            TypeInv, TaskTyped, TaskRow
    <2> QED
        BY <1>1, <1>2, <1>3, <1>5, <1>4, <2>1, <2>2, CancelledStays DEF CancelledOnce
<1>6. CASE cancel'[c].pc \notin {"idle", "read"}
    <2>1. CASE TaskCancelled(c)
        <3>1. task.status # "cancelled"
            BY <2>1 DEF TaskCancelled, TypeInv, CancelTyped, CancelRow
        <3>2. task'.status = "cancelled" /\ task'.cancel = task.cancel /\ task.cancel = ""
            BY <2>1, <3>1 DEF TaskCancelled, TypeInv, TaskTyped, TaskRow
        <3>3. \A d \in CancelRequest : cancel[d].pc \in {"idle", "read"}
            BY <3>1 DEF CancelledOnce
        <3> QED
            BY <1>2, <1>3, <3>1, <3>2, <3>3 DEF CancelledOnce
    <2>2. CASE ~TaskCancelled(c)
        <3>1. cancel[c].pc \notin {"idle", "read"}
            BY <1>6, <2>2, RequestLegs DEF Leg
        <3>2. task.status = "cancelled" /\ task'.status = "cancelled"
            BY <1>1, <3>1, CancelledStays DEF CancelledOnce
        <3>3. \A d \in CancelRequest : d # c => cancel'[d].pc \in {"idle", "read"}
            BY <1>3, <3>1 DEF CancelledOnce
        <3>4. cancel'[c].pc \in {"committed", "closing", "claiming"} => task'.cancel = ""
            <4>1. CASE CancelActiveTask(c)
                BY <4>1, <3>1 DEF CancelActiveTask, CancelledOnce
            <4>2. CASE ~CancelActiveTask(c)
                BY <1>6, <2>2, <4>2, RequestLegs DEF Leg
            <4> QED
                BY <4>1, <4>2
        <3> QED
            BY <1>2, <1>4, <3>2, <3>3, <3>4 DEF CancelledOnce
    <2> QED
        BY <2>1, <2>2
<1> QED
    BY <1>5, <1>6


LEMMA ReconLeaves ==
    ASSUME TypeInv, ReconStep
    PROVE  /\ cancel' = cancel /\ task'.status = task.status /\ task'.run = task.run
           /\ task'.cancel = task.cancel \/ CancelIsRequested
           /\ recon.pc # "idle" \/ CancelIsRequested
           /\ task.cancel # "" => task'.cancel # ""
<1>1. CASE \E p \in Process : ClaimNextTaskProviderCancellation(p)
    BY <1>1 DEF ClaimNextTaskProviderCancellation, TypeInv, TaskTyped, TaskRow
<1>2. CASE QueryProviderCancellation \/ QueryFails
    <2>1. LogCancel(recon.run, recon.req) \/ task' = task
        BY <1>2 DEF QueryProviderCancellation, QueryFails
    <2>2. SameTask
        BY <2>1, LogsOnly DEF SameTask
    <2> QED
        BY <1>2, <2>2 DEF QueryProviderCancellation, QueryFails, SameTask
<1>3. CASE UpdateCancellation \/ GiveUpCancellation
    <2>1. (CancelIsRequested /\ \E status : CancelMovesTo(status)) \/ task' = task
        BY <1>3 DEF UpdateCancellation, GiveUpCancellation
    <2> QED
        BY <1>3, <2>1 DEF UpdateCancellation, GiveUpCancellation, CancelMovesTo, TypeInv, TaskTyped, TaskRow
<1>4. CASE ReconcileStopped \/ ReconcileDone \/ ReviewGivenUp
    BY <1>4 DEF ReconcileStopped, ReconcileDone, ReviewGivenUp
<1> QED
    BY <1>1, <1>2, <1>3, <1>4 DEF ReconStep

\* Of the others only a retry touches the cancellation of the task.
LEMMA SurroundingsLeave ==
    ASSUME TypeInv, [Next]_vars, ~ReconStep, ~\E w \in Worker : WorkerStep(w),
           ~\E c \in CancelRequest : (\E p \in Process : ReadForCancel(c, p)) \/ CancelStep(c)
    PROVE  /\ task'.cancel = task.cancel \/ (Retried /\ task'.cancel = "")
           /\ recon' = recon \/ recon' = IdleRecon
           /\ \A c \in CancelRequest : cancel'[c] = cancel[c] \/ cancel'[c] = IdleCancel
           /\ UNCHANGED <<cancel, recon>> \/ \E p \in Process : Crash(p)
<1>1. CASE RetryTaskWithBilling
    BY <1>1 DEF RetryTaskWithBilling, Retried, TypeInv, TaskTyped, TaskRow
<1>2. CASE LeaseExpires
    BY <1>2 DEF LeaseExpires, others, TypeInv, TaskTyped, TaskRow
<1>3. CASE CheckRetry \/ (\E r \in Run : ResolveBillingOrder(r)) \/ (\E j \in DOMAIN job : JobEnds(j))
    BY <1>3 DEF CheckRetry, ResolveBillingOrder, JobEnds, others
<1>4. ASSUME NEW p \in Process, Crash(p)
      PROVE  /\ task' = task /\ (recon' = recon \/ recon' = IdleRecon)
             /\ \A c \in CancelRequest : cancel'[c] = cancel[c] \/ cancel'[c] = IdleCancel
    BY <1>4 DEF Crash
<1>5. CASE UNCHANGED vars
    BY <1>5 DEF vars
<1> QED
    BY <1>1, <1>2, <1>3, <1>4, <1>5 DEF Next

LEMMA OnceStep ==
    TypeInv /\ (MaxRuns = 1 \/ CancelRequest = {}) /\ CancelledOnce /\ [Next]_vars => CancelledOnce'
<1> SUFFICES ASSUME TypeInv, MaxRuns = 1 \/ CancelRequest = {}, CancelledOnce, [Next]_vars
             PROVE  CancelledOnce'
    OBVIOUS
<1>0. IdleRecon.pc = "idle" /\ IdleCancel.pc = "idle"
    BY DEF IdleRecon, IdleCancel
<1>1. CASE MaxRuns = 1
    <2>1. CASE \E c \in CancelRequest : (\E p \in Process : ReadForCancel(c, p)) \/ CancelStep(c)
        BY <1>1, <2>1, OnceByRequest
    <2>2. ASSUME NEW w \in Worker, WorkerStep(w)
          PROVE  CancelledOnce'
        <3>1. UNCHANGED <<cancel, recon>> /\ task'.cancel = task.cancel
            BY <2>2, WorkerLeaves DEF others
        <3> QED
            BY <1>1, <3>1, CancelledStays DEF CancelledOnce
    <2>3. CASE ReconStep
        <3>1. task.status = "cancelled" /\ task'.status = "cancelled"
            BY <2>3, ReconLeaves DEF CancelIsRequested, CancelledOnce
        <3>2. cancel' = cancel /\ task.cancel # "" /\ task'.cancel # ""
            BY <2>3, ReconLeaves DEF CancelIsRequested, CancelledOnce
        <3> QED
            BY <1>1, <3>1, <3>2 DEF CancelledOnce
    <2>4. CASE /\ ~ReconStep /\ ~\E w \in Worker : WorkerStep(w)
               /\ ~\E c \in CancelRequest : (\E p \in Process : ReadForCancel(c, p)) \/ CancelStep(c)
        <3>1. task'.cancel = task.cancel
            BY <1>1, <2>4, SurroundingsLeave, NoRetry DEF Retried
        <3>2. /\ recon' = recon \/ recon' = IdleRecon
              /\ \A c \in CancelRequest : cancel'[c] = cancel[c] \/ cancel'[c] = IdleCancel
            BY <2>4, SurroundingsLeave
        <3>3. task.status = "cancelled" => task'.status = "cancelled"
            BY <1>1, CancelledStays
        <3> QED
            BY <1>0, <1>1, <3>1, <3>2, <3>3 DEF CancelledOnce
    <2> QED
        BY <2>1, <2>2, <2>3, <2>4
<1>2. CASE CancelRequest = {} /\ MaxRuns # 1
    <2>1. ~ReconStep
        BY <1>2, ReconLeaves DEF CancelledOnce, CancelIsRequested
    <2>2. task'.cancel = "" /\ recon'.pc = "idle"
        BY <1>0, <1>2, <2>1, WorkerLeaves, SurroundingsLeave DEF CancelledOnce, others
    <2> QED
        BY <1>2, <2>2 DEF CancelledOnce
<1> QED
    BY <1>1, <1>2

-----------------------------------------------------------------------------
(* Upstream ids are used by the run whose jobs they name.                  *)

\* Jobs stay, and one that is over stays as it is.
JobsStay ==
    \A j \in DOMAIN job :
        /\ j \in DOMAIN job' /\ job'[j].run = job[j].run
        /\ job[j].state # "working" => job'[j].state = job[j].state

LEMMA NewJobStays ==
    ASSUME TypeInv, NEW w \in Worker, NewJob(w)
    PROVE  /\ JobsStay /\ Len(job') \in DOMAIN job' /\ job'[Len(job')].run = worker[w].run
           /\ Len(job') \notin DOMAIN job /\ DOMAIN job' = DOMAIN job \cup {Len(job')}
<1>1. job \in Seq(Job) /\ Len(job) \in Nat /\ DOMAIN job = 1..Len(job)
    BY DEF TypeInv, JobTyped
<1>2. [run |-> worker[w].run, state |-> "working"] \in Job
    BY DEF Job, TypeInv, WorkerTyped, WorkerRow
<1> DEFINE new == [run |-> worker[w].run, state |-> "working"]
<1>3. new \in Job /\ new.run = worker[w].run
    BY <1>2
<1>4. job' = Append(job, new)
    BY DEF NewJob
<1> HIDE DEF new
<1>5. /\ Len(job') = Len(job) + 1 /\ DOMAIN job' = 1..Len(job) + 1
      /\ job'[Len(job) + 1] = new /\ \A j \in 1..Len(job) : job'[j] = job[j]
    BY <1>1, <1>3, <1>4
<1> QED
    BY <1>1, <1>3, <1>5 DEF JobsStay

LEMMA JobsChange ==
    ASSUME TypeInv, [Next]_vars
    PROVE  \/ job' = job \/ JobsEnd
           \/ \E w \in Worker : WorkerStep(w) /\ NewJob(w)
<1>1. ASSUME NEW w \in Worker, WorkerStep(w)
      PROVE  job' = job \/ NewJob(w)
    BY <1>1 DEF WorkerStep, ClaimNextTask, Register, PrepareBilling, PreparationFails, RefundPreparation,
        SubmitAccepted, SubmitAnswerLost, SubmitRejected, RecordAccepted, RecordFails, PollPending,
        PollDelivers, PollFails, Poll, PollBreaks, PollStops, SlotFails, PersistFails, AbandonLost,
        DeferToPoll, RecheckFailure, CloseFailed, ChargeFailure, RecheckDelivered, SaveTaskCompletion,
        SaveFails, DiscardResult, SettleSuccess, Heartbeat, HeartbeatFails
<1>2. ASSUME NEW c \in CancelRequest, (\E p \in Process : ReadForCancel(c, p)) \/ CancelStep(c)
      PROVE  job' = job \/ JobsEnd
    <2>1. CASE SendCancellation(c)
        <3>1. cancel[c].req \in DOMAIN job
            BY <2>1, KnownJobs DEF SendCancellation, TypeInv, CancelTyped, Known, None, JobTyped
        <3> QED
            BY <2>1, <3>1, JobEndTyped DEF SendCancellation
    <2>2. CASE ~SendCancellation(c)
        BY <1>2, <2>2 DEF ReadForCancel, CancelStep, CancelTaskIfStatus, CancelActiveTask, CloseCancelled,
            ClaimTaskProviderCancellation, CannotCancel, RefuseCancelled, ReviewCancelled
    <2> QED
        BY <2>1, <2>2
<1>3. CASE ReconStep
    BY <1>3 DEF ReconStep, ClaimNextTaskProviderCancellation, QueryProviderCancellation, QueryFails,
        ReconcileStopped, ReconcileDone, UpdateCancellation, GiveUpCancellation, ReviewGivenUp
<1>4. CASE CheckRetry \/ RetryTaskWithBilling \/ (\E r \in Run : ResolveBillingOrder(r)) \/ LeaseExpires
             \/ (\E p \in Process : Crash(p)) \/ UNCHANGED vars
    BY <1>4 DEF CheckRetry, RetryTaskWithBilling, ResolveBillingOrder, LeaseExpires, Crash, vars
<1>5. ASSUME NEW j \in DOMAIN job, JobEnds(j)
      PROVE  JobsEnd
    BY <1>5, JobEndTyped DEF JobEnds
<1> QED
    BY <1>1, <1>2, <1>3, <1>4, <1>5 DEF Next

LEMMA JobsKept ==
    ASSUME TypeInv, [Next]_vars
    PROVE  JobsStay
BY JobsChange, NewJobStays DEF JobsEnd, JobsStay

\* Job j, if there is one, was made for run r.
OwnJob(j, r) == j # None => job[j].run = r

OwnJobs ==
    /\ OwnJob(task.req, task.run)
    /\ \A w \in Worker : Drives(w) => OwnJob(worker[w].req, worker[w].run)
                                      /\ OwnJob(worker[w].job, worker[w].run)
    /\ recon.pc = "querying" => OwnJob(recon.req, recon.run)

LEMMA OwnOfOneRun ==
    ASSUME TypeInv, MaxRuns = 1
    PROVE  OwnJobs
<1>1. \A j \in Known : OwnJob(j, 1)
    BY OneRun, KnownJobs DEF OwnJob, Known, None, TypeInv, JobTyped
<1> QED
    BY <1>1, OneRun DEF OwnJobs, TypeInv, TaskTyped, WorkerTyped, ReconTyped

LEMMA OwnStays ==
    ASSUME TypeInv, JobsStay, NEW j \in Known, NEW r, OwnJob(j, r)
    PROVE  j = None \/ (j \in DOMAIN job' /\ job'[j].run = r)
BY KnownJobs DEF OwnJob, JobsStay, Known, None, TypeInv, JobTyped

\* The ids that a working worker takes up.
LEMMA WorkingIds ==
    ASSUME TypeInv, NEW w \in Worker, WorkerStep(w), ~Steering(w), ~HeartbeatFails(w)
    PROVE  /\ task'.req = task.req \/ (Drives(w) /\ task'.req = worker[w].job)
           /\ Drives(w)' => /\ Drives(w)
                            /\ worker'[w].req \in {worker[w].req, task.req, worker[w].job}
                            /\ \/ worker'[w].job \in {worker[w].job, worker[w].req}
                               \/ NewJob(w) /\ worker'[w].job = Len(job')
<1>0. Drives(w)' => Drives(w)
    BY WorkingRow
<1>1. CASE \/ RefundPreparation(w) \/ AbandonLost(w) \/ ChargeFailure(w) \/ DiscardResult(w)
           \/ SettleSuccess(w)
    <2>1. Finish(w) /\ task' = task
        BY <1>1 DEF RefundPreparation, AbandonLost, ChargeFailure, DiscardResult, SettleSuccess
    <2> QED
        BY <2>1, FinishedRow DEF Drives
<1>2. CASE SubmitAnswerLost(w) \/ SubmitRejected(w) \/ PollDelivers(w) \/ PollFails(w) \/ PollBreaks(w)
             \/ PollStops(w) \/ SlotFails(w)
    <2>1. \E result, latest : Returns(w, result, latest) /\ latest \in {task.req, worker[w].job}
        BY <1>2 DEF SubmitAnswerLost, SubmitRejected, PollDelivers, PollFails, Poll, PollBreaks,
            PollStops, SlotFails
    <2>2. Drives(w)
        BY <1>2 DEF SubmitAnswerLost, NewJob, SubmitRejected, PollDelivers, PollFails, Poll, PollBreaks,
            PollStops, SlotFails, Drives, At
    <2>3. \/ task' = task \/ LogIds(worker[w].run, None) \/ LogIds(worker[w].run, worker[w].job)
        BY <1>2 DEF SubmitAnswerLost, SubmitRejected, PollDelivers, PollFails, Poll, PollBreaks,
            PollStops, SlotFails, LogCreate, LogPoll
    <2>4. task'.req = task.req \/ task'.req = worker[w].job
        BY <2>3 DEF LogIds, TypeInv, TaskTyped, TaskRow
    <2> QED
        BY <2>1, <2>2, <2>4, ReturnedRow
<1>3. CASE RecordAccepted(w) \/ RecordFails(w) \/ PollPending(w) \/ Register(w) \/ RecheckFailure(w)
    <2>1. worker' = worker \/ Finish(w) \/ \E pc : Goto(w, pc)
        BY <1>3 DEF RecordAccepted, RecordFails, PollPending, Register, RecheckFailure
    <2>2. task' = task \/ (Drives(w) /\ LogIds(worker[w].run, worker[w].job))
        BY <1>3 DEF RecordAccepted, RecordFails, PollPending, Poll, Register, RecheckFailure, Drives, At,
            LogCreate, LogPoll
    <2>3. task'.req = task.req \/ (Drives(w) /\ task'.req = worker[w].job)
        BY <2>2 DEF LogIds, TypeInv, TaskTyped, TaskRow
    <2> QED
        BY <1>0, <2>1, <2>3, WentRow, FinishedRow DEF Drives
<1>4. CASE PrepareBilling(w) \/ PersistFails(w) \/ RecheckDelivered(w) \/ SaveFails(w)
    <2>1. task' = task
        BY <1>4 DEF PrepareBilling, PersistFails, RecheckDelivered, SaveFails
    <2>2. worker'[w].req = worker[w].req /\ worker'[w].job \in {worker[w].job, worker[w].req}
        BY <1>4 DEF PrepareBilling, PersistFails, RecheckDelivered, SaveFails, TypeInv, WorkerTyped, WorkerRow
    <2> QED
        BY <1>0, <2>1, <2>2
<1>5. CASE SubmitAccepted(w)
    <2>1. task' = task /\ NewJob(w)
        BY <1>5 DEF SubmitAccepted
    <2>2. worker'[w].req = worker[w].req /\ worker'[w].job = Len(job')
        BY <1>5 DEF SubmitAccepted, TypeInv, WorkerTyped, WorkerRow
    <2> QED
        BY <1>0, <2>1, <2>2
<1> QED
    BY <1>1, <1>2, <1>3, <1>4, <1>5 DEF WorkerStep, Steering

\* How an id that a row named before the step is still one of the run's own.
LEMMA OwnKept ==
    ASSUME TypeInv, JobsStay, NEW j \in Known, NEW r, OwnJob(j, r)
    PROVE  j # None => job'[j].run = r
BY OwnStays

LEMMA OwnByWorker ==
    ASSUME TypeInv, JobsStay, OneDriver, OwnJobs, recon.pc = "idle", NEW w \in Worker, WorkerStep(w)
    PROVE  OwnJobs'
<1>0. recon' = recon
    BY WorkerLeaves DEF others
<1>1. /\ task.req \in Known /\ \A x \in Worker : worker[x].req \in Known /\ worker[x].job \in Known
    BY DEF TypeInv, TaskTyped, WorkerTyped
<1>2. /\ task.req # None => job'[task.req].run = task.run
      /\ \A x \in Worker : Drives(x) =>
            /\ worker[x].run = task.run
            /\ worker[x].req # None => job'[worker[x].req].run = task.run
            /\ worker[x].job # None => job'[worker[x].job].run = task.run
    BY <1>1, OwnKept DEF OwnJobs, OneDriver, Drive
<1>3. CASE ClaimNextTask(w)
    <2>1. /\ worker'[w].run = task.run /\ worker'[w].req = task.req /\ worker'[w].job = None
          /\ \A x \in Worker : x # w => worker'[x] = worker[x]
        BY <1>3 DEF ClaimNextTask, IdleWorker, TypeInv, WorkerTyped
    <2>2. task'.req = task.req /\ task'.run = task.run
        BY <1>3 DEF ClaimNextTask, TypeInv, TaskTyped, TaskRow
    <2> QED
        BY <1>0, <1>2, <2>1, <2>2 DEF OwnJobs, OwnJob, Drives
<1>4. CASE PreparationFails(w) \/ CloseFailed(w) \/ DeferToPoll(w) \/ Heartbeat(w)
    <2>1. worker' = worker \/ Finish(w) \/ Goto(w, "refunding") \/ Goto(w, "charging")
        BY <1>4 DEF PreparationFails, CloseFailed, DeferToPoll, Heartbeat
    <2>2. \A x \in Worker : Drives(x)' => Drives(x) /\ worker'[x] = worker[x]
        BY <2>1, WentRow, FinishedRow DEF Drives
    <2>3. task'.req = task.req /\ task'.run = task.run
        BY <1>4 DEF PreparationFails, CloseFailed, DeferToPoll, Heartbeat, MarkTerminalState,
            TypeInv, TaskTyped, TaskRow
    <2> QED
        BY <1>0, <1>2, <2>2, <2>3 DEF OwnJobs, OwnJob
<1>5. CASE SaveTaskCompletion(w)
    <2>1. Drives(w) /\ Goto(w, "settling")
        BY <1>5 DEF SaveTaskCompletion, Drives, At
    <2>2. \A x \in Worker : Drives(x)' => Drives(x) /\ worker'[x] = worker[x]
        BY <2>1, WentRow DEF Drives
    <2>3. task'.req = worker[w].req /\ task'.run = worker[w].run
        BY <1>5 DEF SaveTaskCompletion, TypeInv, TaskTyped, TaskRow
    <2> QED
        BY <1>0, <1>2, <2>1, <2>2, <2>3 DEF OwnJobs, OwnJob
<1>6. CASE HeartbeatFails(w)
    <2>1. \A x \in Worker : /\ worker'[x].run = worker[x].run /\ worker'[x].req = worker[x].req
                            /\ worker'[x].job = worker[x].job /\ worker'[x].pc = worker[x].pc
        BY <1>6 DEF HeartbeatFails, TypeInv, WorkerTyped, WorkerRow
    <2>2. task' = task
        BY <1>6 DEF HeartbeatFails
    <2> QED
        BY <1>0, <1>2, <2>1, <2>2 DEF OwnJobs, OwnJob, Drives
<1>7. CASE ~Steering(w) /\ ~HeartbeatFails(w)
    <2>1. task'.run = task.run /\ (task'.req = task.req \/ (Drives(w) /\ task'.req = worker[w].job))
        BY <1>7, WorkingIds, WorksOn DEF SameTask
    <2>2. \A x \in Worker : x # w => worker'[x] = worker[x]
        BY <1>7, WorkingRow
    <2>3. Drives(w)' => /\ Drives(w) /\ worker'[w].run = worker[w].run
                        /\ worker'[w].req \in {worker[w].req, task.req, worker[w].job}
                        /\ \/ worker'[w].job \in {worker[w].job, worker[w].req}
                           \/ NewJob(w) /\ worker'[w].job = Len(job')
        BY <1>7, WorkingRow, WorkingIds
    <2>4. NewJob(w) => job'[Len(job')].run = worker[w].run
        BY NewJobStays
    <2>5. OwnJob(task.req, task.run)'
        BY <1>2, <2>1 DEF OwnJob
    <2>6. Drives(w)' => OwnJob(worker[w].req, worker[w].run)'
        BY <1>2, <2>3 DEF OwnJob
    <2>7. Drives(w)' => OwnJob(worker[w].job, worker[w].run)'
        BY <1>2, <2>3, <2>4 DEF OwnJob
    <2>8. \A x \in Worker : x # w /\ Drives(x)' =>
              OwnJob(worker[x].req, worker[x].run)' /\ OwnJob(worker[x].job, worker[x].run)'
        BY <1>2, <2>2 DEF OwnJob, Drives
    <2> QED
        BY <1>0, <2>5, <2>6, <2>7, <2>8 DEF OwnJobs
<1> QED
    BY <1>3, <1>4, <1>5, <1>6, <1>7 DEF Steering

LEMMA OwnStep ==
    ASSUME TypeInv, TypeInv', MaxRuns = 1 \/ (Orderly /\ OneDriver /\ CancelledOnce), OwnJobs, [Next]_vars
    PROVE  OwnJobs'
<1>1. CASE MaxRuns = 1
    <2>1. \A j \in Known' : j # None => j \in DOMAIN job'
        BY DEF TypeInv, JobTyped, Known, None
    <2>2. Run = {1}
        BY <1>1 DEF Run
    <2>3. \A j \in DOMAIN job' : job'[j].run = 1
        <3>1. \A j \in DOMAIN job' : job'[j] \in Job
            BY DEF TypeInv, JobTyped
        <3> QED
            BY <2>2, <3>1 DEF Job
    <2>4. task'.run = 1 /\ recon'.run = 1 /\ \A w \in Worker : worker'[w].run = 1
        <3>1. task'.run \in Run /\ recon'.run \in Run
            BY DEF TypeInv, TaskTyped, TaskRow, ReconTyped, ReconRow
        <3>2. \A w \in Worker : worker'[w].run \in Run
            BY DEF TypeInv, WorkerTyped, WorkerRow
        <3> QED
            BY <2>2, <3>1, <3>2
    <2>5. task'.req \in Known' /\ recon'.req \in Known'
          /\ \A w \in Worker : worker'[w].req \in Known' /\ worker'[w].job \in Known'
        BY DEF TypeInv, TaskTyped, ReconTyped, WorkerTyped
    <2> QED
        BY <2>1, <2>3, <2>4, <2>5 DEF OwnJobs, OwnJob
<1>2. CASE MaxRuns # 1 /\ CancelRequest = {} /\ OneDriver /\ CancelledOnce
    <2>1. JobsStay /\ recon.pc = "idle" /\ task.cancel = ""
        BY <1>2, JobsKept DEF CancelledOnce
    <2>2. CASE \E w \in Worker : WorkerStep(w)
        BY <1>2, <2>1, <2>2, OwnByWorker
    <2>3. CASE ~\E w \in Worker : WorkerStep(w)
        <3>1. ~ReconStep
            BY <1>2, <2>1, ReconLeaves DEF CancelIsRequested
        <3>2. recon'.pc = "idle"
            <4>1. ~\E c \in CancelRequest : (\E p \in Process : ReadForCancel(c, p)) \/ CancelStep(c)
                BY <1>2
            <4>2. recon' = recon \/ recon' = IdleRecon
                BY <2>3, <3>1, <4>1, SurroundingsLeave
            <4>3. IdleRecon.pc = "idle"
                BY DEF IdleRecon
            <4>4. recon.pc = "idle"
                BY <2>1
            <4> QED
                BY <4>2, <4>3, <4>4
        <3>3. \A x \in Worker : Drives(x)' => worker'[x] = worker[x] /\ Drives(x)
            <4>1. CASE \E p \in Process : Crash(p)
                <5>1. \A x \in Worker : worker'[x] = IdleWorker \/ worker'[x] = worker[x]
                    BY <4>1 DEF Crash
                <5>2. IdleWorker.pc = "idle"
                    BY DEF IdleWorker
                <5> QED
                    BY <5>1, <5>2 DEF Drives
            <4>2. CASE worker' = worker
                BY <4>2 DEF Drives
            <4>3. CASE \/ CheckRetry \/ RetryTaskWithBilling \/ (\E r \in Run : ResolveBillingOrder(r))
                       \/ (\E j \in DOMAIN job : JobEnds(j)) \/ LeaseExpires \/ UNCHANGED vars
                BY <4>2, <4>3 DEF CheckRetry, RetryTaskWithBilling, ResolveBillingOrder, JobEnds, LeaseExpires,
                    vars
            <4> QED
                BY <1>2, <2>3, <3>1, <4>1, <4>3 DEF Next
        <3>4. task'.req = None \/ (task'.req = task.req /\ task'.run = task.run)
            <4>1. CASE RetryTaskWithBilling
                BY <4>1 DEF RetryTaskWithBilling, TypeInv, TaskTyped, TaskRow
            <4>2. CASE LeaseExpires
                BY <4>2 DEF LeaseExpires, TypeInv, TaskTyped, TaskRow
            <4>3. CASE \/ CheckRetry \/ (\E r \in Run : ResolveBillingOrder(r))
                       \/ (\E j \in DOMAIN job : JobEnds(j)) \/ (\E p \in Process : Crash(p)) \/ UNCHANGED vars
                BY <4>3 DEF CheckRetry, ResolveBillingOrder, JobEnds, Crash, vars
            <4> QED
                BY <1>2, <2>3, <3>1, <4>1, <4>2, <4>3 DEF Next
        <3>5. OwnJob(task.req, task.run)'
            BY <2>1, <3>4, OwnKept DEF OwnJobs, OwnJob, TypeInv, TaskTyped
        <3>6. \A x \in Worker : Drives(x)' =>
                OwnJob(worker[x].req, worker[x].run)' /\ OwnJob(worker[x].job, worker[x].run)'
            <4>1. \A x \in Worker : worker[x].req \in Known /\ worker[x].job \in Known
                BY DEF TypeInv, WorkerTyped
            <4>2. \A x \in Worker : Drives(x) =>
                    /\ worker[x].req # None => job'[worker[x].req].run = worker[x].run
                    /\ worker[x].job # None => job'[worker[x].job].run = worker[x].run
                BY <2>1, <4>1, OwnKept DEF OwnJobs
            <4> QED
                BY <3>3, <4>2 DEF OwnJob
        <3> QED
            BY <3>2, <3>5, <3>6 DEF OwnJobs
    <2> QED
        BY <2>2, <2>3
<1> QED
    BY <1>1, <1>2 DEF Orderly

-----------------------------------------------------------------------------
(* Who moves the order of a run.                                           *)

Became(r, status) == bill[r].status \in OpenBill /\ bill'[r].status = status

MovedByWorker(w) ==
    LET r == worker[w].run IN
    \/ PrepareBilling(w) /\ bill[r].status = "reserved" /\ bill'[r].status = "running"
    \/ RefundPreparation(w) /\ Became(r, "refunded")
    \/ RecordFails(w) /\ Became(r, "uncertain")
    \/ ChargeFailure(w) /\ FailureIsFree(w) /\ Became(r, "refunded")
    \/ ChargeFailure(w) /\ Became(r, "uncertain")
    \/ DiscardResult(w) /\ Became(r, "uncertain")
    \/ SettleSuccess(w) /\ (Became(r, "settled") \/ Became(r, "uncertain"))

MovedByRequest(c) ==
    LET r == cancel[c].run IN
    \/ CloseCancelled(c) /\ cancel[c].status = "queued" /\ Became(r, "refunded")
    \/ CloseCancelled(c) /\ cancel[c].status # "queued" /\ Became(r, "uncertain")
    \/ ReviewCancelled(c) /\ Became(r, "uncertain")

MovedByRecon ==
    LET r == recon.run IN
    \/ ReconcileStopped /\ Became(r, "refunded")
    \/ ReconcileDone /\ (Became(r, "settled") \/ Became(r, "uncertain"))
    \/ ReviewGivenUp /\ Became(r, "uncertain")

LEMMA OrderSteps ==
    ASSUME TypeInv, NEW r \in Run
    PROVE  /\ MarkUncertain(r) => Became(r, "uncertain") \/ bill'[r].status = bill[r].status
           /\ RefundOrder(r) => Became(r, "refunded") \/ bill'[r].status = bill[r].status
           /\ SettleOrder(r) => Became(r, "settled") \/ bill'[r].status = bill[r].status
           /\ MarkUncertain(r) \/ RefundOrder(r) \/ SettleOrder(r) =>
                \A x \in Run : x # r => bill'[x] = bill[x]
BY DEF MarkUncertain, RefundOrder, SettleOrder, Became, OpenBill, TypeInv, BillTyped, BillRow

LEMMA WorkerMoves ==
    ASSUME TypeInv, NEW w \in Worker, WorkerStep(w), NEW r \in Run, bill'[r].status # bill[r].status
    PROVE  worker[w].run = r /\ MovedByWorker(w)
<1>0. worker[w].run \in Run /\ bill \in [Run -> BillRow]
    BY DEF TypeInv, WorkerTyped, WorkerRow, BillTyped
<1>1. CASE \/ ClaimNextTask(w) \/ Register(w) \/ PreparationFails(w) \/ SubmitAccepted(w) \/ PollStops(w)
           \/ PersistFails(w) \/ AbandonLost(w) \/ DeferToPoll(w) \/ RecheckFailure(w) \/ CloseFailed(w)
           \/ RecheckDelivered(w) \/ SaveTaskCompletion(w) \/ SaveFails(w) \/ Heartbeat(w)
           \/ HeartbeatFails(w)
    <2>1. bill' = bill
        BY <1>1 DEF ClaimNextTask, Register, PreparationFails, SubmitAccepted, PollStops, PersistFails,
            AbandonLost, DeferToPoll, RecheckFailure, CloseFailed, RecheckDelivered, SaveTaskCompletion,
            SaveFails, Heartbeat, HeartbeatFails
    <2> QED
        BY <2>1
<1>2. CASE \/ SubmitAnswerLost(w) \/ SubmitRejected(w) \/ RecordAccepted(w) \/ PollPending(w)
           \/ PollDelivers(w) \/ PollFails(w) \/ PollBreaks(w) \/ SlotFails(w)
    <2>1. \E j, ok : LogCreate(worker[w].run, j, ok) \/ LogPoll(worker[w].run, j, ok)
        BY <1>2 DEF SubmitAnswerLost, SubmitRejected, RecordAccepted, PollPending, PollDelivers, PollFails,
            Poll, PollBreaks, SlotFails
    <2> QED
        BY <2>1, LogsOnly
<1>3. CASE PrepareBilling(w)
    BY <1>0, <1>3 DEF PrepareBilling, MovedByWorker, BillRow
<1>4. CASE RefundPreparation(w)
    BY <1>0, <1>4, OrderSteps DEF RefundPreparation, MovedByWorker
<1>5. CASE RecordFails(w)
    BY <1>0, <1>5, OrderSteps DEF RecordFails, MovedByWorker
<1>6. CASE ChargeFailure(w)
    BY <1>0, <1>6, OrderSteps DEF ChargeFailure, MovedByWorker
<1>7. CASE DiscardResult(w)
    BY <1>0, <1>7, OrderSteps DEF DiscardResult, MovedByWorker
<1>8. CASE SettleSuccess(w)
    BY <1>0, <1>8, OrderSteps DEF SettleSuccess, MovedByWorker
<1> QED
    BY <1>1, <1>2, <1>3, <1>4, <1>5, <1>6, <1>7, <1>8 DEF WorkerStep

LEMMA RequestMoves ==
    ASSUME TypeInv, NEW c \in CancelRequest, (\E p \in Process : ReadForCancel(c, p)) \/ CancelStep(c),
           NEW r \in Run, bill'[r].status # bill[r].status
    PROVE  cancel[c].run = r /\ MovedByRequest(c)
<1>0. cancel[c].run \in Run
    BY DEF TypeInv, CancelTyped, CancelRow
<1>1. CASE CloseCancelled(c)
    BY <1>0, <1>1, OrderSteps DEF CloseCancelled, MovedByRequest
<1>2. CASE ReviewCancelled(c)
    BY <1>0, <1>2, OrderSteps DEF ReviewCancelled, MovedByRequest
<1>3. CASE SendCancellation(c)
    BY <1>3, LogsOnly DEF SendCancellation
<1>4. CASE ~(CloseCancelled(c) \/ ReviewCancelled(c) \/ SendCancellation(c))
    <2>1. bill' = bill
        BY <1>4 DEF ReadForCancel, CancelStep, CancelTaskIfStatus, CancelActiveTask,
            ClaimTaskProviderCancellation, CannotCancel, RefuseCancelled
    <2> QED
        BY <2>1
<1> QED
    BY <1>1, <1>2, <1>3, <1>4

LEMMA ReconBillMoves ==
    ASSUME TypeInv, ReconStep, NEW r \in Run, bill'[r].status # bill[r].status
    PROVE  recon.run = r /\ MovedByRecon
<1>0. recon.run \in Run
    BY DEF TypeInv, ReconTyped, ReconRow
<1>1. CASE ReconcileStopped
    BY <1>0, <1>1, OrderSteps DEF ReconcileStopped, MovedByRecon
<1>2. CASE ReconcileDone
    BY <1>0, <1>2, OrderSteps DEF ReconcileDone, MovedByRecon
<1>3. CASE ReviewGivenUp
    BY <1>0, <1>3, OrderSteps DEF ReviewGivenUp, MovedByRecon
<1>4. CASE QueryProviderCancellation \/ QueryFails
    <2>1. LogCancel(recon.run, recon.req) \/ bill' = bill
        BY <1>4 DEF QueryProviderCancellation, QueryFails
    <2> QED
        BY <2>1, LogsOnly
<1>5. CASE (\E p \in Process : ClaimNextTaskProviderCancellation(p)) \/ UpdateCancellation \/ GiveUpCancellation
    <2>1. bill' = bill
        BY <1>5 DEF ClaimNextTaskProviderCancellation, UpdateCancellation, GiveUpCancellation
    <2> QED
        BY <2>1
<1> QED
    BY <1>1, <1>2, <1>3, <1>4, <1>5 DEF ReconStep

LEMMA OrderMoves ==
    ASSUME TypeInv, [Next]_vars, NEW r \in Run, bill'[r].status # bill[r].status
    PROVE  \/ \E w \in Worker : WorkerStep(w) /\ worker[w].run = r /\ MovedByWorker(w)
           \/ \E c \in CancelRequest : CancelStep(c) /\ cancel[c].run = r /\ MovedByRequest(c)
           \/ ReconStep /\ recon.run = r /\ MovedByRecon
           \/ Retried /\ r = NewRun /\ bill[r].status = "none" /\ bill'[r].status = "reserved"
           \/ ResolveBillingOrder(r) /\ resolved' = resolved \cup {r}
<1>1. ASSUME NEW w \in Worker, WorkerStep(w)
      PROVE  worker[w].run = r /\ MovedByWorker(w)
    BY <1>1, WorkerMoves
<1>2. ASSUME NEW c \in CancelRequest, (\E p \in Process : ReadForCancel(c, p)) \/ CancelStep(c)
      PROVE  CancelStep(c) /\ cancel[c].run = r /\ MovedByRequest(c)
    BY <1>2, RequestMoves DEF MovedByRequest, CancelStep
<1>3. CASE ReconStep
    BY <1>3, ReconBillMoves
<1>4. CASE RetryTaskWithBilling
    <2>1. NewRun \in Run /\ bill[NewRun].status = "none" /\ Retried
        BY <1>4, NewRunIsNew DEF RetryTaskWithBilling, Retried
    <2>2. bill' = [bill EXCEPT ![NewRun].status = "reserved"]
        BY <1>4, <2>1 DEF RetryTaskWithBilling, Retried
    <2> QED
        BY <2>1, <2>2 DEF TypeInv, BillTyped, BillRow
<1>5. ASSUME NEW x \in Run, ResolveBillingOrder(x)
      PROVE  x = r /\ resolved' = resolved \cup {r}
    BY <1>5, OrderSteps DEF ResolveBillingOrder
<1>6. CASE CheckRetry \/ (\E j \in DOMAIN job : JobEnds(j)) \/ LeaseExpires \/ (\E p \in Process : Crash(p))
             \/ UNCHANGED vars
    BY <1>6 DEF CheckRetry, JobEnds, LeaseExpires, Crash, vars
<1> QED
    BY <1>1, <1>2, <1>3, <1>4, <1>5, <1>6 DEF Next

-----------------------------------------------------------------------------
(* The ways of a worker.                                                   *)

Way(w, from, to) == worker[w].pc \in from /\ worker'[w].pc \in to

Ways(w) ==
    \/ ClaimNextTask(w) /\ Way(w, {"idle"}, {"claimed"})
    \/ Register(w) /\ Way(w, {"claimed"}, {"idle", "preparing"})
    \/ PrepareBilling(w) /\ Way(w, {"preparing"}, {"dispatching", "polling"})
    \/ PreparationFails(w) /\ Way(w, {"preparing"}, {"refunding"})
    \/ RefundPreparation(w) /\ Way(w, {"refunding"}, {"idle"})
    \/ SubmitAccepted(w) /\ Way(w, {"dispatching"}, {"accepted"})
    \/ (SubmitAnswerLost(w) \/ SubmitRejected(w)) /\ Way(w, {"dispatching"}, {"failing"})
    \/ (RecordAccepted(w) \/ RecordFails(w)) /\ Way(w, {"accepted"}, {"polling"})
    \/ PollPending(w) /\ Way(w, {"polling"}, {"polling"})
    \/ PollDelivers(w) /\ Way(w, {"polling"}, {"delivered"})
    \/ (PollFails(w) \/ PollBreaks(w) \/ PollStops(w)) /\ Way(w, {"polling"}, {"failing"})
    \/ SlotFails(w) /\ Way(w, {"dispatching", "polling"}, {"failing"})
    \/ PersistFails(w) /\ Way(w, {"delivered"}, {"failing"})
    \/ AbandonLost(w) /\ Way(w, {"failing"}, {"idle"})
    \/ DeferToPoll(w) /\ Way(w, {"failing"}, {"idle"})
    \/ RecheckFailure(w) /\ Way(w, {"failing"}, {"idle", "closing"})
    \/ CloseFailed(w) /\ Way(w, {"closing"}, {"charging"})
    \/ ChargeFailure(w) /\ Way(w, {"charging"}, {"idle"})
    \/ RecheckDelivered(w) /\ Way(w, {"delivered"}, {"discarding", "saving"})
    \/ SaveTaskCompletion(w) /\ Way(w, {"saving"}, {"settling"})
    \/ SaveFails(w) /\ Way(w, {"saving"}, {"discarding", "closing"})
    \/ DiscardResult(w) /\ Way(w, {"discarding"}, {"idle"})
    \/ SettleSuccess(w) /\ Way(w, {"settling"}, {"idle"})
    \/ (Heartbeat(w) \/ HeartbeatFails(w)) /\ worker'[w].pc = worker[w].pc /\ worker[w].pc # "idle"

\* What a worker's step leaves of the rows.
KeepsRows(w) ==
    /\ \A x \in Worker : x # w => worker'[x] = worker[x]
    /\ worker'[w].pc \notin {"idle", "claimed", "discarding"} => worker'[w].run = worker[w].run

LEMMA WorkerWays ==
    ASSUME TypeInv, NEW w \in Worker, WorkerStep(w)
    PROVE  Ways(w) /\ KeepsRows(w)
<1>0. worker \in [Worker -> WorkerRow] /\ IdleWorker.pc = "idle"
    BY DEF TypeInv, WorkerTyped, IdleWorker
<1>1. CASE ClaimNextTask(w)
    BY <1>0, <1>1 DEF ClaimNextTask, IdleWorker, At, Way, Ways, KeepsRows
<1>2. CASE Register(w) \/ RecheckFailure(w)
    <2>1. Register(w) => Finish(w) \/ Goto(w, "preparing")
        BY DEF Register
    <2>2. RecheckFailure(w) => Finish(w) \/ Goto(w, "closing")
        BY DEF RecheckFailure
    <2> QED
        BY <1>2, <2>1, <2>2, FinishedRow, WentRow DEF Register, RecheckFailure, At, Way, Ways, KeepsRows
<1>3. CASE \/ RefundPreparation(w) \/ AbandonLost(w) \/ DeferToPoll(w) \/ ChargeFailure(w)
           \/ DiscardResult(w) \/ SettleSuccess(w)
    <2>1. Finish(w)
        BY <1>3 DEF RefundPreparation, AbandonLost, DeferToPoll, ChargeFailure, DiscardResult, SettleSuccess
    <2> QED
        BY <1>3, <2>1, FinishedRow DEF RefundPreparation, AbandonLost, DeferToPoll, ChargeFailure,
            DiscardResult, SettleSuccess, At, Way, Ways, KeepsRows
<1>4. CASE PreparationFails(w) \/ CloseFailed(w) \/ SaveTaskCompletion(w) \/ RecordAccepted(w) \/ RecordFails(w)
    <2>1. \E pc : Goto(w, pc)
        BY <1>4 DEF PreparationFails, CloseFailed, SaveTaskCompletion, RecordAccepted, RecordFails
    <2>2. KeepsRows(w)
        BY <2>1, WentRow DEF KeepsRows
    <2> QED
        BY <1>4, <2>2, WentRow DEF PreparationFails, CloseFailed, SaveTaskCompletion, RecordAccepted,
            RecordFails, At, Way, Ways
<1>5. CASE SubmitAnswerLost(w) \/ SubmitRejected(w)
    <2>1. \E result \in {"unclear", "failed"} : \E latest : Returns(w, Interrupted(w, result), latest)
        BY <1>5 DEF SubmitAnswerLost, SubmitRejected
    <2>2. worker[w].pc = "dispatching"
        BY <1>5 DEF SubmitAnswerLost, SubmitRejected, NewJob, At
    <2> QED
        BY <1>5, <2>1, <2>2, ReturnedRow DEF Interrupted, Way, Ways, KeepsRows
<1>6. CASE PollDelivers(w)
    <2>1. \E latest : Returns(w, "delivered", latest)
        BY <1>6 DEF PollDelivers
    <2> QED
        BY <1>6, <2>1, ReturnedRow DEF PollDelivers, Poll, At, Way, Ways, KeepsRows
<1>7. CASE PollFails(w) \/ PollBreaks(w) \/ PollStops(w)
    <2>1. \E result \in {"unclear", "failed", "deadline", "canceled"} : \E latest : Returns(w, result, latest)
        BY <1>7 DEF PollFails, PollBreaks, PollStops, Interrupted
    <2>2. worker[w].pc = "polling"
        BY <1>7 DEF PollFails, Poll, PollBreaks, PollStops, At
    <2> QED
        BY <1>7, <2>1, <2>2, ReturnedRow DEF Way, Ways, KeepsRows
<1>8. CASE SlotFails(w)
    <2>1. \E result \in NoSlot : \E latest : Returns(w, result, latest)
        BY <1>8 DEF SlotFails, NoSlot
    <2>2. worker[w].pc \in {"dispatching", "polling"}
        BY <1>8 DEF SlotFails, At
    <2> QED
        BY <1>8, <2>1, <2>2, ReturnedRow DEF NoSlot, Way, Ways, KeepsRows
<1>9. CASE PollPending(w) \/ Heartbeat(w)
    BY <1>9 DEF PollPending, Poll, Heartbeat, At, Way, Ways, KeepsRows
<1>10. CASE PrepareBilling(w) \/ SubmitAccepted(w)
    <2>1. KeepsRows(w)
        BY <1>0, <1>10 DEF PrepareBilling, SubmitAccepted, KeepsRows, WorkerRow
    <2>2. worker'[w].pc \in {"dispatching", "polling", "accepted"}
        BY <1>0, <1>10 DEF PrepareBilling, SubmitAccepted, WorkerRow
    <2>3. SubmitAccepted(w) => worker'[w].pc = "accepted"
        BY <1>0 DEF SubmitAccepted, WorkerRow
    <2>4. PrepareBilling(w) => worker'[w].pc \in {"dispatching", "polling"}
        BY <1>0 DEF PrepareBilling, WorkerRow
    <2> QED
        BY <1>10, <2>1, <2>3, <2>4 DEF PrepareBilling, SubmitAccepted, NewJob, At, Way, Ways
<1>11. CASE PersistFails(w) \/ HeartbeatFails(w)
    <2>1. KeepsRows(w)
        BY <1>0, <1>11 DEF PersistFails, HeartbeatFails, KeepsRows, WorkerRow
    <2>2. PersistFails(w) => worker'[w].pc = "failing"
        BY <1>0 DEF PersistFails, WorkerRow
    <2>3. HeartbeatFails(w) => worker'[w].pc = worker[w].pc
        BY <1>0 DEF HeartbeatFails, WorkerRow
    <2> QED
        BY <1>11, <2>1, <2>2, <2>3 DEF PersistFails, HeartbeatFails, At, Way, Ways
<1>12. CASE RecheckDelivered(w) \/ SaveFails(w)
    <2>1. KeepsRows(w)
        BY <1>0, <1>12 DEF RecheckDelivered, SaveFails, KeepsRows, WorkerRow
    <2>2. RecheckDelivered(w) => worker'[w].pc \in {"discarding", "saving"}
        BY <1>0 DEF RecheckDelivered, WorkerRow
    <2>3. SaveFails(w) => worker'[w].pc \in {"discarding", "closing"}
        BY <1>0 DEF SaveFails, WorkerRow
    <2> QED
        BY <1>12, <2>1, <2>2, <2>3 DEF RecheckDelivered, SaveFails, At, Way, Ways
<1> QED
    BY <1>1, <1>2, <1>3, <1>4, <1>5, <1>6, <1>7, <1>8, <1>9, <1>10, <1>11, <1>12 DEF WorkerStep

\* Steps of others leave the rows of the workers alone, all but their context.
SameRow(x) ==
    /\ worker'[x].pc = worker[x].pc /\ worker'[x].run = worker[x].run /\ worker'[x].req = worker[x].req
    /\ worker'[x].job = worker[x].job /\ worker'[x].lost = worker[x].lost
    /\ worker'[x].result = worker[x].result

LEMMA OtherWorkers ==
    ASSUME TypeInv, [Next]_vars, ~\E w \in Worker : WorkerStep(w)
    PROVE  /\ \A x \in Worker : worker'[x] = IdleWorker \/ SameRow(x)
           /\ (\A x \in Worker : SameRow(x)) \/ \E p \in Process : Crash(p)
<1>1. ASSUME NEW c \in CancelRequest, (\E p \in Process : ReadForCancel(c, p)) \/ CancelStep(c)
      PROVE  \A x \in Worker : SameRow(x)
    <2>1. CASE CancelActiveTask(c)
        <3>1. worker' = worker \/ \E w : worker' = [worker EXCEPT ![w].canceled = TRUE]
            BY <2>1 DEF CancelActiveTask
        <3>2. worker \in [Worker -> WorkerRow]
            BY DEF TypeInv, WorkerTyped
        <3> TAKE x \in Worker
        <3>3. worker'[x] = worker[x] \/ worker'[x] = [worker[x] EXCEPT !.canceled = TRUE]
            BY <3>1, <3>2
        <3>4. worker[x] \in WorkerRow
            BY <3>2
        <3> QED
            BY <3>3, <3>4 DEF SameRow, WorkerRow
    <2>2. CASE ~CancelActiveTask(c)
        <3>1. worker' = worker
            BY <1>1, <2>2 DEF ReadForCancel, CancelStep, CancelTaskIfStatus, CloseCancelled, CannotCancel,
                RefuseCancelled, ReviewCancelled, ClaimTaskProviderCancellation, SendCancellation
        <3> QED
            BY <3>1 DEF SameRow
    <2> QED
        BY <2>1, <2>2
<1>2. CASE \/ ReconStep \/ CheckRetry \/ RetryTaskWithBilling \/ (\E r \in Run : ResolveBillingOrder(r))
           \/ (\E j \in DOMAIN job : JobEnds(j)) \/ LeaseExpires \/ UNCHANGED vars
    <2>1. worker' = worker
        BY <1>2 DEF ReconStep, ClaimNextTaskProviderCancellation, QueryProviderCancellation, QueryFails,
            ReconcileStopped, ReconcileDone, UpdateCancellation, GiveUpCancellation, ReviewGivenUp,
            CheckRetry, RetryTaskWithBilling, ResolveBillingOrder, JobEnds, LeaseExpires, vars
    <2> QED
        BY <2>1 DEF SameRow
<1>3. ASSUME NEW p \in Process, Crash(p)
      PROVE  \A x \in Worker : worker'[x] = IdleWorker \/ SameRow(x)
    BY <1>3 DEF Crash, SameRow
<1> QED
    BY <1>1, <1>2, <1>3 DEF Next

-----------------------------------------------------------------------------
(* Paid for what was delivered.                                            *)

DeliveredFirst ==
    /\ \A w \in Worker : worker[w].pc \in {"delivered", "saving", "settling"} => Delivered(worker[w].run)
    /\ recon.pc = "done" => Delivered(recon.run)
    /\ ChargedForOwnJob

LEMMA DeliveredStays ==
    ASSUME JobsStay, NEW r, Delivered(r)
    PROVE  Delivered(r)'
BY DEF JobsStay, Delivered

LEMMA ResolvedStays ==
    ASSUME TypeInv, [Next]_vars
    PROVE  resolved \subseteq resolved'
<1>1. ASSUME NEW w \in Worker, WorkerStep(w)
      PROVE  resolved' = resolved
    BY <1>1, WorkerLeaves DEF others
<1>2. ASSUME NEW c \in CancelRequest, (\E p \in Process : ReadForCancel(c, p)) \/ CancelStep(c)
      PROVE  resolved' = resolved
    BY <1>2 DEF ReadForCancel, CancelStep, CancelTaskIfStatus, CancelActiveTask, CloseCancelled, CannotCancel,
        RefuseCancelled, ReviewCancelled, ClaimTaskProviderCancellation, SendCancellation
<1>3. CASE \/ ReconStep \/ CheckRetry \/ RetryTaskWithBilling \/ (\E r \in Run : ResolveBillingOrder(r))
           \/ (\E j \in DOMAIN job : JobEnds(j)) \/ LeaseExpires \/ (\E p \in Process : Crash(p))
           \/ UNCHANGED vars
    BY <1>3 DEF ReconStep, ClaimNextTaskProviderCancellation, QueryProviderCancellation, QueryFails,
        ReconcileStopped, ReconcileDone, UpdateCancellation, GiveUpCancellation, ReviewGivenUp,
        CheckRetry, RetryTaskWithBilling, ResolveBillingOrder, JobEnds, LeaseExpires, Crash, others, vars
<1> QED
    BY <1>1, <1>2, <1>3 DEF Next

\* The reconciler learns the end of a job only by a query.
LEMMA ReconLearns ==
    ASSUME TypeInv, [Next]_vars, recon'.pc \in {"done", "cancelled", "failed"}, recon' # recon
    PROVE  /\ QueryProviderCancellation /\ recon.pc = "querying" /\ job[recon.req].state = recon'.pc
           /\ recon'.run = recon.run
<1>0. IdleRecon.pc = "idle" /\ recon \in ReconRow
    BY DEF IdleRecon, TypeInv, ReconTyped
<1>1. ASSUME NEW w \in Worker, WorkerStep(w)
      PROVE  FALSE
    BY <1>1, WorkerLeaves DEF others
<1>2. ASSUME NEW c \in CancelRequest, (\E p \in Process : ReadForCancel(c, p)) \/ CancelStep(c)
      PROVE  FALSE
    BY <1>2 DEF ReadForCancel, CancelStep, CancelTaskIfStatus, CancelActiveTask, CloseCancelled, CannotCancel,
        RefuseCancelled, ReviewCancelled, ClaimTaskProviderCancellation, SendCancellation
<1>3. CASE ReconStep
    <2>1. CASE QueryProviderCancellation
        BY <1>0, <2>1 DEF QueryProviderCancellation, ReconRow
    <2>2. CASE QueryFails \/ ReconcileStopped \/ ReconcileDone
        BY <1>0, <2>2 DEF QueryFails, ReconcileStopped, ReconcileDone, ReconRow
    <2>3. CASE \E p \in Process : ClaimNextTaskProviderCancellation(p)
        BY <2>3 DEF ClaimNextTaskProviderCancellation
    <2>4. CASE UpdateCancellation \/ GiveUpCancellation \/ ReviewGivenUp
        BY <1>0, <2>4 DEF UpdateCancellation, GiveUpCancellation, ReviewGivenUp, ReconRow
    <2> QED
        BY <1>3, <2>1, <2>2, <2>3, <2>4 DEF ReconStep
<1>4. CASE /\ ~ReconStep /\ ~\E w \in Worker : WorkerStep(w)
           /\ ~\E c \in CancelRequest : (\E p \in Process : ReadForCancel(c, p)) \/ CancelStep(c)
    BY <1>0, <1>4, SurroundingsLeave
<1> QED
    BY <1>1, <1>2, <1>3, <1>4

LEMMA DeliveredInit == Init => OwnJobs /\ DeliveredFirst
BY Initially DEF OwnJobs, OwnJob, DeliveredFirst, ChargedForOwnJob, Drives

LEMMA DeliveredStep ==
    ASSUME TypeInv, OwnJobs, DeliveredFirst, [Next]_vars
    PROVE  DeliveredFirst'
<1>0. JobsStay /\ \A r \in Run : Delivered(r) => Delivered(r)'
    BY JobsKept, DeliveredStays
<1>1. \A x \in Worker : worker'[x].pc \in {"delivered", "saving", "settling"} => Delivered(worker[x].run)'
    <2>0. \A x \in Worker : worker[x].run \in Run
        BY DEF TypeInv, WorkerTyped, WorkerRow
    <2>1. ASSUME NEW w \in Worker, WorkerStep(w)
          PROVE  \A x \in Worker : worker'[x].pc \in {"delivered", "saving", "settling"} => Delivered(worker[x].run)'
        <3>0. Ways(w) /\ KeepsRows(w)
            BY <2>1, WorkerWays
        <3>1. ASSUME worker'[w].pc \in {"delivered", "saving", "settling"}
              PROVE  worker'[w].run = worker[w].run
                     /\ (worker[w].pc \in {"delivered", "saving", "settling"} \/ PollDelivers(w))
            BY <3>0, <3>1 DEF Ways, Way, KeepsRows
        <3>2. ASSUME PollDelivers(w)
              PROVE  Delivered(worker[w].run)
            <4>1. worker[w].pc = "polling" /\ job[worker[w].job].state = "done"
                BY <3>2 DEF PollDelivers, Poll, At
            <4>2. worker[w].job \in DOMAIN job
                BY <4>1 DEF TypeInv, WorkerTyped, Known, None, JobTyped
            <4>3. job[worker[w].job].run = worker[w].run
                BY <4>1, <4>2 DEF OwnJobs, OwnJob, Drives, TypeInv, WorkerTyped
            <4> QED
                BY <4>1, <4>2, <4>3 DEF Delivered
        <3>3. worker'[w].pc \in {"delivered", "saving", "settling"} => Delivered(worker[w].run)'
            <4>1. ASSUME worker'[w].pc \in {"delivered", "saving", "settling"}
                  PROVE  Delivered(worker[w].run) /\ worker'[w].run = worker[w].run
                BY <3>1, <3>2, <4>1 DEF DeliveredFirst
            <4> QED
                BY <1>0, <4>1 DEF JobsStay, Delivered
        <3>4. \A x \in Worker : x # w => worker'[x] = worker[x]
            BY <3>0 DEF KeepsRows
        <3> QED
            BY <1>0, <2>0, <3>3, <3>4 DEF DeliveredFirst, JobsStay, Delivered
    <2>2. CASE ~\E w \in Worker : WorkerStep(w)
        <3>1. \A x \in Worker : worker'[x].pc = "idle" \/ SameRow(x)
            <4>1. IdleWorker.pc = "idle"
                BY DEF IdleWorker
            <4> QED
                BY <2>2, <4>1, OtherWorkers
        <3> QED
            BY <1>0, <2>0, <3>1 DEF DeliveredFirst, SameRow, JobsStay, Delivered
    <2> QED
        BY <2>1, <2>2
<1>2. recon'.pc = "done" => Delivered(recon.run)'
    <2>1. ASSUME recon'.pc = "done"
          PROVE  Delivered(recon.run) /\ recon'.run = recon.run
        <3>1. CASE recon' = recon
            BY <2>1, <3>1 DEF DeliveredFirst
        <3>2. CASE recon' # recon
            <4>1. recon.pc = "querying" /\ job[recon.req].state = "done" /\ recon'.run = recon.run
                BY <2>1, <3>2, ReconLearns
            <4>2. recon.req \in DOMAIN job
                BY <4>1 DEF TypeInv, ReconTyped, Known, None, JobTyped
            <4>3. job[recon.req].run = recon.run
                BY <4>1 DEF OwnJobs, OwnJob, TypeInv, ReconTyped
            <4> QED
                BY <4>1, <4>2, <4>3 DEF Delivered
        <3> QED
            BY <3>1, <3>2
    <2> QED
        BY <1>0, <2>1 DEF JobsStay, Delivered
<1>3. ASSUME NEW r \in Run, r \notin resolved', bill'[r].status = "settled"
      PROVE  Delivered(r)
    <2>0. r \notin resolved
        BY <1>3, ResolvedStays
    <2>1. CASE bill[r].status = "settled"
        BY <2>0, <2>1 DEF DeliveredFirst, ChargedForOwnJob
    <2>2. CASE bill[r].status # "settled"
        <3>1. ASSUME NEW w \in Worker, MovedByWorker(w), worker[w].run = r
              PROVE  Delivered(r)
            BY <1>3, <3>1 DEF MovedByWorker, Became, SettleSuccess, At, DeliveredFirst
        <3>2. ASSUME NEW c \in CancelRequest, MovedByRequest(c), cancel[c].run = r
              PROVE  FALSE
            BY <1>3, <3>2 DEF MovedByRequest, Became
        <3>3. ASSUME MovedByRecon, recon.run = r
              PROVE  Delivered(r)
            BY <1>3, <3>3 DEF MovedByRecon, Became, ReconcileDone, DeliveredFirst
        <3>4. \/ \E w \in Worker : WorkerStep(w) /\ worker[w].run = r /\ MovedByWorker(w)
              \/ \E c \in CancelRequest : CancelStep(c) /\ cancel[c].run = r /\ MovedByRequest(c)
              \/ ReconStep /\ recon.run = r /\ MovedByRecon
            BY <1>3, <2>2, OrderMoves
        <3> QED
            BY <3>1, <3>2, <3>3, <3>4
    <2> QED
        BY <2>1, <2>2
<1>4. ChargedForOwnJob'
    BY <1>0, <1>3 DEF ChargedForOwnJob
<1> QED
    BY <1>1, <1>2, <1>4 DEF DeliveredFirst

\* Whichever of the worker and the reconciler settles the order, the user pays
\* for a run only if the provider delivered a job of that same run
\* (task_completion.go, provider_task_cancellation.go) - where a task has one
\* run, and also over retries where leases are kept up and nobody cancels.
THEOREM ChargesAreForOwnJobs ==
    ASSUME MaxRuns = 1 \/ (~LeaseMayLapse /\ CancelRequest = {})
    PROVE  Spec => []ChargedForOwnJob
<1> DEFINE Inv == /\ TypeInv /\ OwnJobs /\ DeliveredFirst
                  /\ MaxRuns = 1 \/ (OneDriver /\ CancelledOnce)
<1>1. Init => Inv
    BY InitTyped, DriverInit, OnceInit, DeliveredInit
<1>2. Inv /\ [Next]_vars => Inv'
    <2> SUFFICES ASSUME Inv, [Next]_vars PROVE Inv'
        OBVIOUS
    <2>1. TypeInv'
        BY StepTyped
    <2>2. MaxRuns = 1 \/ (Orderly /\ OneDriver /\ CancelledOnce)
        BY DEF Orderly
    <2>3. OwnJobs'
        BY <2>1, <2>2, OwnStep
    <2>4. DeliveredFirst'
        BY DeliveredStep
    <2>5. MaxRuns = 1 \/ (OneDriver' /\ CancelledOnce')
        BY <2>2, DriverStep, OnceStep DEF Orderly
    <2> QED
        BY <2>1, <2>3, <2>4, <2>5
<1>3. Inv => ChargedForOwnJob
    BY DEF DeliveredFirst
<1> QED
    BY <1>1, <1>2, <1>3, PTL DEF Spec

-----------------------------------------------------------------------------
(* What the user sees and what he pays.                                    *)

Ended == task.status \in {"succeeded", "failed", "cancelled"}

\* Only a retry takes an ended task up again, or gives the task another run.
LEMMA EndedStays ==
    ASSUME TypeInv, [Next]_vars, ~Retried, Ended
    PROVE  task'.status = task.status
<1>1. ASSUME NEW w \in Worker, WorkerStep(w)
      PROVE  task'.status = task.status
    <2>1. CASE Steering(w)
        BY <2>1 DEF Steering, ClaimNextTask, PreparationFails, CloseFailed, MarkTerminalState,
            DeferToPoll, SaveTaskCompletion, Heartbeat, Ended
    <2>2. CASE ~Steering(w)
        BY <1>1, <2>2, WorksOn DEF SameTask
    <2> QED
        BY <2>1, <2>2
<1>2. CASE ~\E w \in Worker : WorkerStep(w)
    <2>1. ASSUME NEW c \in CancelRequest, TaskCancelled(c)
          PROVE  FALSE
        BY <2>1 DEF TaskCancelled, Ended, TypeInv, CancelTyped, CancelRow
    <2>2. CASE LeaseExpires
        BY <2>2 DEF LeaseExpires, TypeInv, TaskTyped, TaskRow
    <2> QED
        BY <1>2, <2>1, <2>2, OthersTask DEF SameStatus
<1> QED
    BY <1>1, <1>2

LEMMA RunStays ==
    ASSUME TypeInv, [Next]_vars, ~Retried, OneDriver
    PROVE  task'.run = task.run
<1>1. ASSUME NEW w \in Worker, WorkerStep(w)
      PROVE  task'.run = task.run
    <2>1. CASE SaveTaskCompletion(w)
        <3>1. worker[w].run = task.run
            BY <2>1 DEF SaveTaskCompletion, At, Drives, OneDriver, Drive
        <3> QED
            BY <2>1, <3>1 DEF SaveTaskCompletion, TypeInv, TaskTyped, TaskRow
    <2>2. CASE ClaimNextTask(w) \/ PreparationFails(w) \/ CloseFailed(w) \/ DeferToPoll(w) \/ Heartbeat(w)
        BY <2>2 DEF ClaimNextTask, PreparationFails, CloseFailed, MarkTerminalState, DeferToPoll, Heartbeat,
            TypeInv, TaskTyped, TaskRow
    <2>3. CASE ~Steering(w)
        BY <1>1, <2>3, WorksOn DEF SameTask
    <2> QED
        BY <2>1, <2>2, <2>3 DEF Steering
<1>2. CASE ~\E w \in Worker : WorkerStep(w)
    <2>1. ASSUME NEW c \in CancelRequest, TaskCancelled(c)
          PROVE  task'.run = task.run
        BY <2>1 DEF TaskCancelled, TypeInv, TaskTyped, TaskRow
    <2>2. CASE LeaseExpires
        BY <2>2 DEF LeaseExpires, TypeInv, TaskTyped, TaskRow
    <2> QED
        BY <1>2, <2>1, <2>2, OthersTask DEF SameStatus
<1> QED
    BY <1>1, <1>2

\* A worker that closes an order has closed its task before.
ClosedFirst ==
    \A w \in Worker : worker[w].run = task.run =>
        /\ worker[w].pc \in {"refunding", "charging"} => task.status \in {"failed", "cancelled"}
        /\ worker[w].pc = "settling" => task.status = "succeeded"

BillMatches ==
    task.run \notin resolved =>
        /\ bill[task.run].status = "settled" => task.status \in {"succeeded", "cancelled"}
        /\ bill[task.run].status = "refunded" => task.status \in {"failed", "cancelled"}

Matches == ClosedFirst /\ BillMatches

Closing(x) == worker[x].pc \in {"refunding", "charging", "settling"}

LEMMA RetriedRun ==
    ASSUME TypeInv, Retried
    PROVE  /\ task'.run = NewRun /\ task'.status = "queued" /\ task'.cancel = "" /\ task'.req = None
           /\ NewRun \in Run /\ bill[NewRun].status = "none" /\ bill'[NewRun].status = "reserved"
           /\ bill' = [bill EXCEPT ![NewRun].status = "reserved"]
           /\ UNCHANGED <<calls, job, worker, active, cancel, recon, resolved, crashes>>
           /\ ~task'.lease /\ task'.owner = Nobody
           /\ task'.interface = task.interface
<1>1. NewRun \in Run /\ bill[NewRun].status = "none"
    BY NewRunIsNew DEF Retried, RetryTaskWithBilling
<1> DEFINE n == NewRun
<1>2. /\ bill' = [bill EXCEPT ![n].status = "reserved"]
      /\ UNCHANGED <<calls, job, worker, active, cancel, recon, resolved, crashes>>
    BY DEF Retried, RetryTaskWithBilling
<1>3. task' = [task EXCEPT !.status = "queued", !.owner = Nobody, !.lease = FALSE,
                           !.run = n, !.req = None, !.cancel = "", !.attempts = 0]
    BY DEF Retried, RetryTaskWithBilling
<1> HIDE DEF n
<1>4. n \in Run /\ bill[n].status = "none"
    BY <1>1 DEF n
<1>5. bill'[n].status = "reserved"
    BY <1>2, <1>4 DEF TypeInv, BillTyped, BillRow
<1>6. /\ task'.run = n /\ task'.status = "queued" /\ task'.cancel = "" /\ task'.req = None
      /\ ~task'.lease /\ task'.owner = Nobody /\ task'.interface = task.interface
    BY <1>3 DEF TypeInv, TaskTyped, TaskRow
<1> QED
    BY <1>2, <1>4, <1>5, <1>6 DEF n

LEMMA ClosedStep ==
    ASSUME TypeInv, Orderly, OneDriver, CancelledOnce, Matches, [Next]_vars
    PROVE  ClosedFirst'
<1>1. ASSUME NEW w \in Worker, WorkerStep(w)
      PROVE  ClosedFirst'
    <2>0. Ways(w) /\ KeepsRows(w) /\ task'.run = task.run
        <3>1. ~Retried \/ task'.run = task.run
            <4>1. CASE Retried
                <5>1. recon' = recon /\ retrying /\ ~retrying'
                    BY <4>1 DEF Retried, RetryTaskWithBilling
                <5>2. retrying' = retrying
                    BY <1>1, WorkerLeaves DEF others
                <5> QED
                    BY <5>1, <5>2
            <4> QED
                BY <4>1
        <3>2. [Next]_vars
            OBVIOUS
        <3> QED
            BY <1>1, <3>1, <3>2, RunStays, WorkerWays
    <2>1. \A x \in Worker : x # w => worker'[x] = worker[x]
        BY <2>0 DEF KeepsRows
    <2>2. CASE PreparationFails(w) \/ CloseFailed(w)
        <3>1. worker[w].run = task.run /\ worker'[w].run = worker[w].run
              /\ worker'[w].pc \in {"refunding", "charging"}
            <4>1. Goto(w, "refunding") \/ Goto(w, "charging")
                BY <2>2 DEF PreparationFails, CloseFailed
            <4>2. Drives(w)
                BY <2>2 DEF PreparationFails, CloseFailed, At, Drives
            <4> QED
                BY <4>1, <4>2, WentRow DEF OneDriver, Drive
        <3>2. task.status \in {"running", "cancelled"}
            BY <2>2 DEF PreparationFails, CloseFailed, At, Drives, OneDriver, Drive
        <3>4. task'.status \in {"failed", "cancelled"}
            BY <3>2, <2>2 DEF PreparationFails, CloseFailed, MarkTerminalState, TypeInv, TaskTyped, TaskRow
        <3>5. \A x \in Worker : worker[x].run = task.run => worker[x].pc # "settling"
            BY <3>2 DEF Matches, ClosedFirst
        <3> QED
            BY <2>0, <2>1, <3>1, <3>4, <3>5 DEF ClosedFirst
    <2>3. CASE SaveTaskCompletion(w)
        <3>1. task.status = "running" /\ worker'[w].pc = "settling"
            BY <2>3, WentRow DEF SaveTaskCompletion
        <3>2. task'.status = "succeeded"
            BY <2>3 DEF SaveTaskCompletion, TypeInv, TaskTyped, TaskRow
        <3>3. \A x \in Worker : worker[x].run = task.run => ~Closing(x)
            BY <3>1 DEF Matches, ClosedFirst, Closing
        <3> QED
            BY <2>0, <2>1, <3>1, <3>2, <3>3 DEF ClosedFirst, Closing
    <2>4. CASE ~(PreparationFails(w) \/ CloseFailed(w) \/ SaveTaskCompletion(w))
        <3>1. worker'[w].pc \in {"refunding", "charging", "settling"} =>
                worker[w].pc = worker'[w].pc /\ worker'[w].run = worker[w].run
            BY <2>0, <2>4 DEF Ways, Way, KeepsRows
        <3>2. Ended => task'.status = task.status
            <4>1. CASE Steering(w)
                BY <2>4, <4>1 DEF Steering, ClaimNextTask, DeferToPoll, Heartbeat, Ended, TypeInv, TaskTyped, TaskRow
            <4>2. CASE ~Steering(w)
                BY <1>1, <4>2, WorksOn DEF SameTask
            <4> QED
                BY <4>1, <4>2
        <3> QED
            BY <2>0, <2>1, <3>1, <3>2 DEF Matches, ClosedFirst, Ended
    <2> QED
        BY <2>2, <2>3, <2>4
<1>2. CASE ~\E w \in Worker : WorkerStep(w)
    <2>1. \A x \in Worker : worker'[x].pc = "idle" \/ SameRow(x)
        <3>1. IdleWorker.pc = "idle"
            BY DEF IdleWorker
        <3> QED
            BY <1>2, <3>1, OtherWorkers
    <2>2. CASE Retried
        BY <2>2, RetriedRun DEF ClosedFirst, TypeInv, WorkerTyped, Opened
    <2>3. CASE ~Retried
        BY <2>1, <2>3, EndedStays, RunStays DEF Matches, ClosedFirst, SameRow, Ended
    <2> QED
        BY <2>2, <2>3
<1> QED
    BY <1>1, <1>2

LEMMA BillMatchesStep ==
    ASSUME TypeInv, Orderly, OneDriver, CancelledOnce, Matches, [Next]_vars
    PROVE  BillMatches'
<1> DEFINE r == task.run
<1>0. r \in Run /\ resolved \subseteq resolved'
    BY ResolvedStays DEF TypeInv, TaskTyped, TaskRow
<1>1. CASE Retried
    BY <1>1, RetriedRun DEF BillMatches
<1>2. CASE ~Retried
    <2>1. task'.run = r /\ (Ended => task'.status = task.status)
        BY <1>2, RunStays, EndedStays
    <2>2. CASE bill'[r].status = bill[r].status
        BY <1>0, <2>1, <2>2 DEF Matches, BillMatches, Ended
    <2>3. CASE bill'[r].status # bill[r].status
        <3>1. ASSUME NEW w \in Worker, MovedByWorker(w), worker[w].run = r
              PROVE  /\ bill'[r].status = "settled" => task.status = "succeeded"
                     /\ bill'[r].status = "refunded" => task.status \in {"failed", "cancelled"}
            BY <3>1 DEF MovedByWorker, Became, RefundPreparation, ChargeFailure, SettleSuccess, At,
                Matches, ClosedFirst
        <3>2. ASSUME NEW c \in CancelRequest, MovedByRequest(c), cancel[c].run = r
              PROVE  task.status = "cancelled"
            BY <3>2 DEF MovedByRequest, CloseCancelled, ReviewCancelled, CancelledOnce
        <3>3. ASSUME MovedByRecon, recon.run = r
              PROVE  task.status = "cancelled"
            BY <3>3 DEF MovedByRecon, ReconcileStopped, ReconcileDone, ReviewGivenUp, CancelledOnce
        <3>4. CASE r \in resolved'
            BY <2>1, <3>4 DEF BillMatches
        <3>5. CASE r \notin resolved'
            <4>1. \/ \E w \in Worker : WorkerStep(w) /\ worker[w].run = r /\ MovedByWorker(w)
                  \/ \E c \in CancelRequest : CancelStep(c) /\ cancel[c].run = r /\ MovedByRequest(c)
                  \/ ReconStep /\ recon.run = r /\ MovedByRecon
                BY <1>0, <1>2, <2>3, <3>5, OrderMoves
            <4>2. /\ bill'[r].status = "settled" => task.status \in {"succeeded", "cancelled"}
                  /\ bill'[r].status = "refunded" => task.status \in {"failed", "cancelled"}
                BY <3>1, <3>2, <3>3, <4>1
            <4> QED
                BY <2>1, <4>2 DEF BillMatches, Ended
        <3> QED
            BY <3>4, <3>5
    <2> QED
        BY <2>2, <2>3
<1> QED
    BY <1>1, <1>2

LEMMA MatchesInit == Init => Matches
<1>1. 1 \in Run
    BY TaskAssumption DEF TaskAssumption, Run
<1>2. Init => ClosedFirst
    BY Initially DEF ClosedFirst
<1>3. Init => BillMatches
    BY <1>1, Initially DEF BillMatches
<1> QED
    BY <1>2, <1>3 DEF Matches

\* A task that failed is not paid for, and one that succeeded is not given
\* back, where leases are kept up and no run is given up while another follows
\* (task_terminal.go, task_completion.go, RetryTaskWithBilling).
THEOREM UserPaysForWhatHeSees ==
    ASSUME ~LeaseMayLapse, MaxRuns = 1 \/ CancelRequest = {}
    PROVE  Spec => []StatusMatchesBill
<1> DEFINE Inv == TypeInv /\ OneDriver /\ CancelledOnce /\ Matches
<1>0. Orderly
    BY DEF Orderly
<1>1. Init => Inv
    BY InitTyped, DriverInit, OnceInit, MatchesInit
<1>2. Inv /\ [Next]_vars => Inv'
    BY <1>0, StepTyped, DriverStep, OnceStep, ClosedStep, BillMatchesStep DEF Matches
<1>3. Inv => StatusMatchesBill
    BY DEF Matches, BillMatches, StatusMatchesBill
<1> QED
    BY <1>1, <1>2, <1>3, PTL DEF Spec

-----------------------------------------------------------------------------
(* Somebody decides on every order.                                        *)

Held(r) == bill[r].status \in {"reserved", "running"}

\* Worker w closes the order of run r.
Closes(w, r) ==
    worker[w].pc \in {"refunding", "charging", "settling", "discarding"} /\ worker[w].run = r

\* The cancellation of the task is still going on.
Cancelling ==
    /\ task.status = "cancelled" /\ MaxRuns = 1
    /\ \/ \E c \in CancelRequest : cancel[c].pc \in {"committed", "closing", "claiming", "reviewing"}
       \/ task.cancel = "requested"
       \/ recon.pc = "reviewing"

Pending(r) == task.run = r /\ task.status \in {"queued", "running"}

Decided ==
    /\ recon.pc \in {"confirmed", "uncertain"} => ~Held(recon.run)
    /\ \A r \in Run : Held(r) => Pending(r) \/ (\E w \in Worker : Closes(w, r)) \/ Cancelling

LEMMA NoCrash ==
    ASSUME TypeInv, MaxCrashes = 0, NEW p \in Process
    PROVE  ~Crash(p)
BY DEF Crash, TypeInv, RestTyped

LEMMA HeldBefore ==
    ASSUME TypeInv, [Next]_vars, NEW r \in Run, Held(r)'
    PROVE  Held(r) \/ (Retried /\ r = NewRun)
<1>1. CASE bill'[r].status = bill[r].status
    BY <1>1 DEF Held
<1>2. CASE bill'[r].status # bill[r].status
    <2>1. bill'[r].status \in {"reserved", "running"}
        BY DEF Held
    <2>2. ASSUME NEW w \in Worker, MovedByWorker(w), worker[w].run = r
          PROVE  Held(r)
        BY <2>1, <2>2 DEF MovedByWorker, Became, Held
    <2>3. ASSUME NEW c \in CancelRequest, MovedByRequest(c), cancel[c].run = r
          PROVE  Held(r)
        BY <2>1, <2>3 DEF MovedByRequest, Became, Held
    <2>4. ASSUME MovedByRecon, recon.run = r
          PROVE  Held(r)
        BY <2>1, <2>4 DEF MovedByRecon, Became, Held
    <2>5. ASSUME ResolveBillingOrder(r)
          PROVE  Held(r)
        BY <1>2, <2>1, <2>5, OrderSteps DEF ResolveBillingOrder, Became
    <2> QED
        BY <1>2, <2>2, <2>3, <2>4, <2>5, OrderMoves
<1> QED
    BY <1>1, <1>2

\* Statements that decide on an order.
LEMMA Decides ==
    ASSUME TypeInv, NEW r \in Run, MarkUncertain(r) \/ RefundOrder(r) \/ SettleOrder(r)
    PROVE  ~Held(r)'
BY DEF MarkUncertain, RefundOrder, SettleOrder, Held, OpenBill, TypeInv, BillTyped, BillRow

LEMMA PendingStep ==
    ASSUME TypeInv, Orderly, OneDriver, [Next]_vars, ~Retried, NEW r \in Run, Pending(r)
    PROVE  Pending(r)' \/ (\E w \in Worker : Closes(w, r)') \/ Cancelling'
<1>0. task'.run = r
    BY RunStays DEF Pending
<1>1. CASE task'.status \in {"queued", "running"}
    BY <1>0, <1>1 DEF Pending
<1>2. CASE task'.status \notin {"queued", "running"}
    <2>1. ASSUME NEW w \in Worker, WorkerStep(w)
          PROVE  Closes(w, r)'
        <3>1. PreparationFails(w) \/ CloseFailed(w) \/ SaveTaskCompletion(w)
            <4>1. CASE ClaimNextTask(w) \/ DeferToPoll(w) \/ Heartbeat(w)
                BY <1>2, <4>1 DEF ClaimNextTask, DeferToPoll, Heartbeat, Pending, TypeInv, TaskTyped, TaskRow
            <4>2. CASE ~Steering(w)
                BY <1>2, <2>1, <4>2, WorksOn DEF SameTask, Pending
            <4> QED
                BY <4>1, <4>2 DEF Steering
        <3>2. \E pc \in {"refunding", "charging", "settling"} : Goto(w, pc)
            BY <3>1 DEF PreparationFails, CloseFailed, SaveTaskCompletion
        <3>3. worker[w].run = task.run
            BY <3>1 DEF PreparationFails, CloseFailed, SaveTaskCompletion, At, Drives, OneDriver, Drive
        <3> QED
            BY <3>2, <3>3, WentRow DEF Closes, Pending
    <2>2. ASSUME NEW c \in CancelRequest, TaskCancelled(c)
          PROVE  Cancelling'
        <3>1. task'.status = "cancelled" /\ MaxRuns = 1
            BY <2>2 DEF TaskCancelled, Orderly, TypeInv, TaskTyped, TaskRow
        <3>2. cancel'[c].pc = "committed"
            BY <2>2 DEF TaskCancelled, CancelTaskIfStatus, TypeInv, CancelTyped, CancelRow
        <3> QED
            BY <3>1, <3>2 DEF Cancelling
    <2>3. CASE LeaseExpires
        BY <1>2, <2>3 DEF LeaseExpires, Pending, TypeInv, TaskTyped, TaskRow
    <2>4. CASE SameStatus
        BY <1>2, <2>4 DEF SameStatus, Pending
    <2> QED
        BY <2>1, <2>2, <2>3, <2>4, OthersTask
<1> QED
    BY <1>1, <1>2

LEMMA ClosesStep ==
    ASSUME TypeInv, MaxCrashes = 0, [Next]_vars, NEW r \in Run, NEW w \in Worker, Closes(w, r)
    PROVE  Closes(w, r)' \/ ~Held(r)'
<1>1. CASE WorkerStep(w)
    <2>1. Ways(w) /\ KeepsRows(w)
        BY <1>1, WorkerWays
    <2>2. CASE RefundPreparation(w) \/ ChargeFailure(w) \/ SettleSuccess(w) \/ DiscardResult(w)
        <3>1. MarkUncertain(r) \/ RefundOrder(r) \/ SettleOrder(r)
            BY <2>2 DEF RefundPreparation, ChargeFailure, SettleSuccess, DiscardResult, Closes
        <3> QED
            BY <3>1, Decides
    <2>3. CASE Heartbeat(w) \/ HeartbeatFails(w)
        BY <2>3 DEF Heartbeat, HeartbeatFails, Closes, TypeInv, WorkerTyped, WorkerRow
    <2>4. Closes(w, r) /\ Ways(w) =>
            \/ RefundPreparation(w) \/ ChargeFailure(w) \/ SettleSuccess(w) \/ DiscardResult(w)
            \/ Heartbeat(w) \/ HeartbeatFails(w)
        BY DEF Closes, Ways, Way
    <2> QED
        BY <2>1, <2>2, <2>3, <2>4
<1>2. ASSUME NEW x \in Worker, x # w, WorkerStep(x)
      PROVE  Closes(w, r)'
    BY <1>2, WorkerWays DEF KeepsRows, Closes
<1>3. CASE ~\E x \in Worker : WorkerStep(x)
    <2>1. SameRow(w)
        BY <1>3, OtherWorkers, NoCrash
    <2> QED
        BY <2>1 DEF SameRow, Closes
<1> QED
    BY <1>1, <1>2, <1>3

LEMMA CancellingStep ==
    ASSUME TypeInv, MaxCrashes = 0, CancelledOnce, Decided, [Next]_vars, Cancelling,
           NEW r \in Run, Held(r), Held(r)'
    PROVE  Cancelling'
<1>0. MaxRuns = 1 /\ task.status = "cancelled" /\ task'.status = "cancelled"
    BY CancelledStays DEF Cancelling
<1>1. r = 1 /\ recon.run = 1 /\ \A c \in CancelRequest : cancel[c].run = 1
    BY <1>0, OneRun
<1>2. ASSUME NEW c \in CancelRequest, (\E p \in Process : ReadForCancel(c, p)) \/ CancelStep(c)
      PROVE  Cancelling'
    <2>1. \A d \in CancelRequest : d # c => cancel'[d] = cancel[d]
        BY <1>2, RequestLegs
    <2>2. recon' = recon
        BY <1>2 DEF ReadForCancel, CancelStep, CancelTaskIfStatus, CancelActiveTask, CloseCancelled,
            ClaimTaskProviderCancellation, SendCancellation, CannotCancel, RefuseCancelled, ReviewCancelled
    <2>3. ~(CloseCancelled(c) \/ ReviewCancelled(c))
        <3>1. CloseCancelled(c) \/ ReviewCancelled(c) => MarkUncertain(r) \/ RefundOrder(r)
            BY <1>1 DEF CloseCancelled, ReviewCancelled
        <3> QED
            BY <3>1, Decides
    <2>4. CASE CancelActiveTask(c)
        BY <1>0, <1>2, <2>4, RequestLegs DEF Leg, CancelActiveTask, Cancelling, TypeInv, CancelTyped, CancelRow
    <2>5. CASE ClaimTaskProviderCancellation(c)
        <3>1. task.cancel = ""
            BY <2>5 DEF ClaimTaskProviderCancellation, CancelledOnce
        <3>2. task'.cancel = "requested"
            BY <1>0, <2>5, <3>1 DEF ClaimTaskProviderCancellation, TypeInv, TaskTyped, TaskRow
        <3> QED
            BY <1>0, <3>2 DEF Cancelling
    <2>6. CASE RefuseCancelled(c)
        <3>1. CASE CancelIsRequested
            BY <1>0, <2>6, <3>1 DEF RefuseCancelled, Cancelling, TypeInv, CancelTyped, CancelRow
        <3>2. CASE ~CancelIsRequested
            <4>1. task' = task /\ cancel[c].pc = "refused"
                BY <2>6, <3>2 DEF RefuseCancelled
            <4> QED
                BY <1>0, <2>1, <2>2, <4>1 DEF Cancelling
        <3> QED
            BY <3>1, <3>2
    <2>7. CASE SendCancellation(c) \/ CannotCancel(c)
        <3>1. task'.cancel = task.cancel /\ cancel[c].pc = "sending"
            BY <2>7, LogsOnly DEF SendCancellation, CannotCancel, SameTask
        <3> QED
            BY <1>0, <2>1, <2>2, <3>1 DEF Cancelling
    <2>8. CASE (\E p \in Process : ReadForCancel(c, p)) \/ CancelTaskIfStatus(c)
        <3>1. cancel[c].pc \in {"idle", "read"} /\ task'.cancel = task.cancel
            BY <2>8 DEF ReadForCancel, CancelTaskIfStatus, TypeInv, TaskTyped, TaskRow
        <3> QED
            BY <1>0, <2>1, <2>2, <3>1 DEF Cancelling
    <2> QED
        BY <1>2, <2>3, <2>4, <2>5, <2>6, <2>7, <2>8 DEF CancelStep
<1>3. ASSUME NEW w \in Worker, WorkerStep(w)
      PROVE  Cancelling'
    BY <1>0, <1>3, WorkerLeaves DEF others, Cancelling
<1>4. CASE ReconStep
    <2>1. cancel' = cancel
        BY <1>4, ReconLeaves
    <2>2. CASE ReviewGivenUp
        <3>1. MarkUncertain(r)
            BY <1>1, <2>2 DEF ReviewGivenUp
        <3> QED
            BY <3>1, Decides
    <2>3. CASE GiveUpCancellation
        <3>1. CASE CancelIsRequested
            BY <1>0, <2>3, <3>1 DEF GiveUpCancellation, Cancelling, TypeInv, ReconTyped, ReconRow
        <3>2. CASE ~CancelIsRequested
            BY <1>0, <2>1, <2>3, <3>2 DEF GiveUpCancellation, Cancelling
        <3> QED
            BY <3>1, <3>2
    <2>4. CASE UpdateCancellation
        <3>1. recon.pc = "deferring"
            BY <1>1, <2>4 DEF UpdateCancellation, Decided
        <3>2. task'.cancel = task.cancel
            BY <2>4, <3>1 DEF UpdateCancellation, CancelIsRequested, CancelMovesTo, TypeInv, TaskTyped, TaskRow
        <3> QED
            BY <1>0, <2>1, <3>1, <3>2 DEF Cancelling
    <2>5. CASE \/ (\E p \in Process : ClaimNextTaskProviderCancellation(p))
               \/ QueryProviderCancellation \/ QueryFails \/ ReconcileStopped \/ ReconcileDone
        <3>1. recon.pc # "reviewing"
            BY <2>5 DEF ClaimNextTaskProviderCancellation, QueryProviderCancellation, QueryFails,
                ReconcileStopped, ReconcileDone
        <3>2. task'.cancel = task.cancel
            <4>1. CASE \E p \in Process : ClaimNextTaskProviderCancellation(p)
                BY <4>1 DEF ClaimNextTaskProviderCancellation, TypeInv, TaskTyped, TaskRow
            <4>2. LogCancel(recon.run, recon.req) \/ task' = task \/
                    (\E p \in Process : ClaimNextTaskProviderCancellation(p))
                BY <2>5 DEF QueryProviderCancellation, QueryFails, ReconcileStopped, ReconcileDone
            <4> QED
                BY <4>1, <4>2, LogsOnly DEF SameTask
        <3> QED
            BY <1>0, <2>1, <3>1, <3>2 DEF Cancelling
    <2> QED
        BY <1>4, <2>2, <2>3, <2>4, <2>5 DEF ReconStep
<1>5. CASE /\ ~ReconStep /\ ~\E w \in Worker : WorkerStep(w)
           /\ ~\E c \in CancelRequest : (\E p \in Process : ReadForCancel(c, p)) \/ CancelStep(c)
    <2>1. task'.cancel = task.cancel /\ UNCHANGED <<cancel, recon>>
        BY <1>0, <1>5, SurroundingsLeave, NoRetry, NoCrash DEF Retried
    <2> QED
        BY <1>0, <2>1 DEF Cancelling
<1> QED
    BY <1>2, <1>3, <1>4, <1>5

\* What the reconciler has decided stays decided.
LEMMA ReconDecided ==
    ASSUME TypeInv, CancelledOnce, Decided, [Next]_vars, recon'.pc \in {"confirmed", "uncertain"}
    PROVE  ~Held(recon.run)'
<1>0. recon.run \in Run /\ recon \in ReconRow /\ IdleRecon.pc = "idle"
    BY DEF TypeInv, ReconTyped, ReconRow, IdleRecon
<1>1. CASE recon' = recon
    <2>1. ~Held(recon.run) /\ MaxRuns = 1
        BY <1>1 DEF Decided, CancelledOnce
    <2>2. ~Retried \/ bill' = bill
        BY <2>1, NoRetry DEF Retried
    <2>3. bill'[recon.run].status \notin {"reserved", "running"}
        BY <1>0, <2>1, <2>2, HeldBefore DEF Held
    <2> QED
        BY <1>1, <2>3 DEF Held
<1>2. CASE recon' # recon
    <2>1. ReconStep
        <3>1. ASSUME NEW w \in Worker, WorkerStep(w)
              PROVE  FALSE
            BY <1>2, <3>1, WorkerLeaves DEF others
        <3>2. ASSUME NEW c \in CancelRequest, (\E p \in Process : ReadForCancel(c, p)) \/ CancelStep(c)
              PROVE  FALSE
            BY <1>2, <3>2 DEF ReadForCancel, CancelStep, CancelTaskIfStatus, CancelActiveTask, CloseCancelled,
                CannotCancel, RefuseCancelled, ReviewCancelled, ClaimTaskProviderCancellation, SendCancellation
        <3> QED
            BY <1>0, <1>2, <3>1, <3>2, SurroundingsLeave
    <2>2. CASE ReconcileStopped \/ ReconcileDone
        <3>1. recon'.run = recon.run
            BY <1>0, <2>2 DEF ReconcileStopped, ReconcileDone, ReconRow
        <3>2. RefundOrder(recon.run) \/ SettleOrder(recon.run) \/ MarkUncertain(recon.run)
            <4>1. CASE recon'.pc = "deferring"
                BY <4>1
            <4>2. CASE recon'.pc # "deferring"
                BY <1>0, <2>2, <4>2 DEF ReconcileStopped, ReconcileDone, ReconRow
            <4> QED
                BY <4>1, <4>2
        <3>3. bill'[recon.run].status \notin {"reserved", "running"}
            BY <1>0, <3>2 DEF MarkUncertain, RefundOrder, SettleOrder, OpenBill, TypeInv, BillTyped, BillRow
        <3> QED
            BY <3>1, <3>3 DEF Held
    <2>3. CASE \/ (\E p \in Process : ClaimNextTaskProviderCancellation(p)) \/ QueryProviderCancellation
               \/ QueryFails \/ UpdateCancellation \/ GiveUpCancellation \/ ReviewGivenUp
        <3>1. CASE \E p \in Process : ClaimNextTaskProviderCancellation(p)
            BY <3>1 DEF ClaimNextTaskProviderCancellation
        <3>2. CASE QueryProviderCancellation
            <4>1. recon.req \in DOMAIN job
                BY <3>2 DEF QueryProviderCancellation, TypeInv, ReconTyped, Known, None, JobTyped
            <4>2. \A j \in DOMAIN job : job[j] \in Job
                BY DEF TypeInv, JobTyped
            <4>3. job[recon.req].state \in {"working", "done", "failed", "cancelled"}
                BY <4>1, <4>2 DEF Job
            <4> QED
                BY <1>0, <3>2, <4>3 DEF QueryProviderCancellation, ReconRow
        <3>3. CASE QueryFails
            BY <1>0, <3>3 DEF QueryFails, ReconRow
        <3>4. CASE UpdateCancellation \/ ReviewGivenUp
            BY <1>0, <3>4 DEF UpdateCancellation, ReviewGivenUp
        <3>5. CASE GiveUpCancellation
            BY <1>0, <3>5 DEF GiveUpCancellation, ReconRow
        <3> QED
            BY <2>3, <3>1, <3>2, <3>3, <3>4, <3>5
    <2> QED
        BY <2>1, <2>2, <2>3 DEF ReconStep
<1> QED
    BY <1>1, <1>2

LEMMA DecidedStep ==
    ASSUME TypeInv, MaxCrashes = 0, Orderly, OneDriver, CancelledOnce, Decided, [Next]_vars
    PROVE  Decided'
<1>1. recon'.pc \in {"confirmed", "uncertain"} => ~Held(recon.run)'
    BY ReconDecided
<1>2. ASSUME NEW r \in Run, Held(r)'
      PROVE  Pending(r)' \/ (\E w \in Worker : Closes(w, r)') \/ Cancelling'
    <2>1. CASE Retried /\ r = NewRun
        BY <2>1, RetriedRun DEF Pending
    <2>2. CASE Held(r) /\ Retried
        <3>1. MaxRuns # 1
            <4>1. CASE MaxRuns = 1
                <5>1. task' = task
                    BY <2>2, <4>1, NoRetry DEF Retried
                <5>2. task'.status = "queued" /\ task.status \in {"failed", "cancelled"}
                    BY <2>2, RetriedRun DEF Retried
                <5> QED
                    BY <5>1, <5>2
            <4> QED
                BY <4>1
        <3>2. ~Pending(r) /\ ~Cancelling
            BY <2>2, <3>1 DEF Retried, Pending, Cancelling
        <3>3. PICK w \in Worker : Closes(w, r)
            BY <2>2, <3>2 DEF Decided
        <3>4. Closes(w, r)'
            BY <1>2, <3>3, ClosesStep
        <3> QED
            BY <3>4
    <2>3. CASE Held(r) /\ ~Retried
        <3>1. CASE Pending(r)
            BY <2>3, <3>1, PendingStep
        <3>2. ASSUME NEW w \in Worker, Closes(w, r)
              PROVE  Closes(w, r)'
            BY <1>2, <3>2, ClosesStep
        <3>3. CASE Cancelling
            BY <1>2, <2>3, <3>3, CancellingStep
        <3> QED
            BY <2>3, <3>1, <3>2, <3>3 DEF Decided
    <2> QED
        BY <1>2, <2>1, <2>2, <2>3, HeldBefore
<1> QED
    BY <1>1, <1>2 DEF Decided

LEMMA DecidedInit == Init => Decided
BY Initially DEF Decided, Held, Pending

\* Every run is paid for only if the provider delivered it, and when a task has
\* ended and nobody works on it any more, none of its orders still holds
\* credits (task_terminal.go, task_lifecycle.go,
\* provider_task_cancellation.go) - where leases are kept up, no process
\* crashes, and no run is given up while another one follows.
THEOREM EveryBillIsDecided ==
    ASSUME ~LeaseMayLapse, MaxCrashes = 0, MaxRuns = 1 \/ CancelRequest = {}
    PROVE  Spec => []BillIsRight
<1> DEFINE Inv == TypeInv /\ OneDriver /\ CancelledOnce /\ Decided
<1>0. Orderly
    BY DEF Orderly
<1>1. Init => Inv
    BY InitTyped, DriverInit, OnceInit, DecidedInit
<1>2. Inv /\ [Next]_vars => Inv'
    BY <1>0, StepTyped, DriverStep, OnceStep, DecidedStep
<1>3. Inv => NoForgottenHold
    <2>1. ASSUME Quiet, task.status \in {"succeeded", "failed", "cancelled"}, task.cancel # "requested",
                 Decided, NEW r \in Run, Held(r)
          PROVE  FALSE
        <3>1. ~Pending(r)
            BY <2>1 DEF Pending
        <3>2. \A w \in Worker : ~Closes(w, r)
            BY <2>1 DEF Quiet, At, Closes
        <3>3. ~Cancelling
            BY <2>1 DEF Quiet, Cancelling
        <3> QED
            BY <2>1, <3>1, <3>2, <3>3 DEF Decided
    <2> QED
        BY <2>1 DEF NoForgottenHold, Held
<1>4. Spec => []NoForgottenHold
    BY <1>1, <1>2, <1>3, PTL DEF Spec
<1>5. Spec => []ChargedForOwnJob
    BY ChargesAreForOwnJobs
<1> QED
    BY <1>4, <1>5, PTL DEF BillIsRight

-----------------------------------------------------------------------------
(* A run is sent to the provider once.                                     *)

MaySend(w) == \/ worker[w].pc = "dispatching"
              \/ worker[w].pc \in {"claimed", "preparing"} /\ worker[w].req = None

\* The worker that looks after the running task.
Holds(w) == Drives(w) /\ worker[w].run = task.run /\ ~worker[w].lost /\ task.owner = ProcessOf[w]

\* A run that may yet be sent has not been sent, and one worker may send it.
Unsent ==
    /\ task.status = "queued" => ~Submitted(task.run)
    /\ \A w \in Worker : MaySend(w) =>
        /\ ~Submitted(worker[w].run)
        /\ task.status = "queued" => task.run # worker[w].run
        /\ \A x \in Worker : MaySend(x) /\ worker[x].run = worker[w].run => x = w

\* A running task has a worker, or waits for one that goes on polling.
Attended ==
    task.status = "running" =>
        \/ task.lease /\ \E w \in Worker : Holds(w)
        \/ ~task.lease /\ task.owner = Nobody /\ task.req # None

\* What a worker knows of the job of its task, the task row knows too.
ReqKnown ==
    \A w \in Worker :
        Drives(w) /\ worker[w].run = task.run /\ worker[w].req # None
          /\ task.status \in {"queued", "running"} => task.req # None

SentOnce == OneJobPerRun /\ Unsent /\ Attended /\ ReqKnown

LEMMA SubmittedBefore ==
    ASSUME TypeInv, [Next]_vars, NEW r, Submitted(r)'
    PROVE  Submitted(r) \/ \E w \in Worker : WorkerStep(w) /\ NewJob(w) /\ worker[w].run = r
<1>1. CASE job' = job \/ JobsEnd
    BY <1>1 DEF Submitted, JobsEnd
<1>2. ASSUME NEW w \in Worker, WorkerStep(w), NewJob(w)
      PROVE  Submitted(r) \/ worker[w].run = r
    BY <1>2, NewJobStays DEF Submitted, JobsStay
<1> QED
    BY <1>1, <1>2, JobsChange

LEMMA OneJobStep ==
    ASSUME TypeInv, SentOnce, [Next]_vars
    PROVE  OneJobPerRun'
<1>1. CASE job' = job \/ JobsEnd
    BY <1>1 DEF SentOnce, OneJobPerRun, JobsEnd
<1>2. ASSUME NEW w \in Worker, WorkerStep(w), NewJob(w)
      PROVE  OneJobPerRun'
    <2>1. ~Submitted(worker[w].run)
        BY <1>2 DEF NewJob, At, MaySend, SentOnce, Unsent
    <2> QED
        BY <1>2, <2>1, NewJobStays DEF Submitted, JobsStay, SentOnce, OneJobPerRun
<1> QED
    BY <1>1, <1>2, JobsChange

\* The upstream id of the task row is not lost while its run goes on.
LEMMA ReqStays ==
    ASSUME TypeInv, [Next]_vars, ~Retried, ~\E w \in Worker : SaveTaskCompletion(w)
    PROVE  task'.run = task.run /\ (task.req # None => task'.req # None)
<1>1. ASSUME NEW w \in Worker, WorkerStep(w)
      PROVE  task'.run = task.run /\ (task.req # None => task'.req # None)
    <2>1. CASE Steering(w)
        <3>1. CASE PreparationFails(w) \/ CloseFailed(w)
            <4>1. \E status : MarkTerminalState(status)
                BY <3>1 DEF PreparationFails, CloseFailed
            <4> QED
                BY <4>1 DEF MarkTerminalState, TypeInv, TaskTyped, TaskRow
        <3>2. CASE ClaimNextTask(w) \/ DeferToPoll(w) \/ Heartbeat(w)
            BY <3>2 DEF ClaimNextTask, DeferToPoll, Heartbeat, TypeInv, TaskTyped, TaskRow
        <3> QED
            BY <2>1, <3>1, <3>2 DEF Steering
    <2>2. CASE ~Steering(w)
        <3>1. task' = task \/ \E j : LogIds(worker[w].run, j)
            BY <1>1, <2>2, WorkerLogs DEF LogCreate, LogPoll
        <3> QED
            BY <3>1 DEF LogIds, TypeInv, TaskTyped, TaskRow
    <2> QED
        BY <2>1, <2>2
<1>2. ASSUME NEW c \in CancelRequest, (\E p \in Process : ReadForCancel(c, p)) \/ CancelStep(c)
      PROVE  task'.run = task.run /\ (task.req # None => task'.req # None)
    <2>1. CASE SendCancellation(c)
        BY <2>1 DEF SendCancellation, LogCancel, LogIds, TypeInv, TaskTyped, TaskRow
    <2>2. CASE ClaimTaskProviderCancellation(c)
        BY <2>2 DEF ClaimTaskProviderCancellation, TypeInv, TaskTyped, TaskRow, CancelTyped
    <2>3. CASE ~SendCancellation(c) /\ ~ClaimTaskProviderCancellation(c)
        BY <1>2, <2>3 DEF ReadForCancel, CancelStep, CancelTaskIfStatus, CancelActiveTask, CloseCancelled,
            CannotCancel, RefuseCancelled, CancelMovesTo, ReviewCancelled, TypeInv, TaskTyped, TaskRow
    <2> QED
        BY <2>1, <2>2, <2>3
<1>3. CASE ReconStep
    <2>1. CASE QueryProviderCancellation \/ QueryFails
        <3>1. LogIds(recon.run, recon.req) \/ task' = task
            BY <2>1 DEF QueryProviderCancellation, QueryFails, LogCancel
        <3> QED
            BY <3>1 DEF LogIds, TypeInv, TaskTyped, TaskRow
    <2>2. CASE ~QueryProviderCancellation /\ ~QueryFails
        BY <1>3, <2>2 DEF ReconStep, ClaimNextTaskProviderCancellation, ReconcileStopped, ReconcileDone,
            UpdateCancellation, GiveUpCancellation, CancelMovesTo, ReviewGivenUp, TypeInv, TaskTyped, TaskRow
    <2> QED
        BY <2>1, <2>2
<1>4. CASE RetryTaskWithBilling
    BY <1>4 DEF RetryTaskWithBilling, Retried
<1>5. CASE LeaseExpires
    BY <1>5 DEF LeaseExpires, TypeInv, TaskTyped, TaskRow
<1>6. CASE CheckRetry \/ (\E r \in Run : ResolveBillingOrder(r)) \/ (\E j \in DOMAIN job : JobEnds(j))
             \/ (\E p \in Process : Crash(p)) \/ UNCHANGED vars
    BY <1>6 DEF CheckRetry, ResolveBillingOrder, JobEnds, Crash, vars
<1> QED
    BY <1>1, <1>2, <1>3, <1>4, <1>5, <1>6 DEF Next

\* Who may send a run could do so before, or has just claimed it.
LEMMA MaySendBefore ==
    ASSUME TypeInv, [Next]_vars, NEW w \in Worker, MaySend(w)'
    PROVE  \/ MaySend(w) /\ worker'[w].run = worker[w].run
           \/ ClaimNextTask(w) /\ worker'[w].run = task.run /\ task.req = None
<1>1. CASE WorkerStep(w)
    <2>1. Ways(w) /\ KeepsRows(w)
        BY <1>1, WorkerWays
    <2>2. CASE ClaimNextTask(w)
        <3>1. worker'[w].run = task.run /\ worker'[w].req = task.req /\ worker'[w].pc = "claimed"
            BY <2>2 DEF ClaimNextTask, IdleWorker, TypeInv, WorkerTyped
        <3> QED
            BY <2>2, <3>1 DEF MaySend
    <2>3. CASE PrepareBilling(w)
        BY <2>3 DEF PrepareBilling, At, MaySend, TypeInv, WorkerTyped, WorkerRow
    <2>4. CASE Register(w)
        <3>1. worker[w].pc = "claimed" /\ (Finish(w) \/ Goto(w, "preparing"))
            BY <2>4 DEF Register, At
        <3> QED
            BY <3>1, WentRow, FinishedRow DEF MaySend
    <2>5. CASE Heartbeat(w) \/ HeartbeatFails(w)
        BY <2>5 DEF Heartbeat, HeartbeatFails, MaySend, TypeInv, WorkerTyped, WorkerRow
    <2>6. CASE ~(ClaimNextTask(w) \/ PrepareBilling(w) \/ Register(w) \/ Heartbeat(w) \/ HeartbeatFails(w))
        <3>1. worker'[w].pc \in {"claimed", "preparing", "dispatching"}
            BY DEF MaySend
        <3> QED
            BY <2>1, <2>6, <3>1 DEF Ways, Way
    <2> QED
        BY <2>2, <2>3, <2>4, <2>5, <2>6
<1>2. ASSUME NEW x \in Worker, x # w, WorkerStep(x)
      PROVE  worker'[w] = worker[w]
    BY <1>2, WorkerWays DEF KeepsRows
<1>3. CASE ~\E x \in Worker : WorkerStep(x)
    <2>1. SameRow(w)
        <3>1. IdleWorker.pc = "idle"
            BY DEF IdleWorker
        <3> QED
            BY <1>3, <3>1, OtherWorkers DEF MaySend
    <2> QED
        BY <2>1 DEF SameRow, MaySend
<1>4. worker'[w] = worker[w] => MaySend(w) /\ worker'[w].run = worker[w].run
    BY DEF MaySend
<1> QED
    BY <1>1, <1>2, <1>3, <1>4

LEMMA QueuedBefore ==
    ASSUME TypeInv, [Next]_vars, task'.status \in {"queued", "running"}
    PROVE  \/ Retried
           \/ task.status = "queued" /\ task'.run = task.run
           \/ task.status = "running" /\ task'.status = "running" /\ task'.run = task.run
<1>1. CASE Retried
    BY <1>1
<1>2. CASE ~Retried
    <2>1. ~Ended
        BY <1>2, EndedStays DEF Ended
    <2>2. ~\E w \in Worker : SaveTaskCompletion(w)
        BY DEF SaveTaskCompletion, TypeInv, TaskTyped, TaskRow
    <2>3. task'.run = task.run
        BY <1>2, <2>2, ReqStays
    <2>4. task.status = "running" => task'.status # "queued"
        <3>1. ASSUME NEW w \in Worker, WorkerStep(w), task.status = "running"
              PROVE  task'.status # "queued"
            <4>1. CASE Steering(w)
                BY <3>1, <4>1 DEF Steering, ClaimNextTask, PreparationFails, CloseFailed, MarkTerminalState,
                    DeferToPoll, SaveTaskCompletion, Heartbeat, TypeInv, TaskTyped, TaskRow
            <4>2. CASE ~Steering(w)
                BY <3>1, <4>2, WorksOn DEF SameTask
            <4> QED
                BY <4>1, <4>2
        <3>2. CASE ~\E w \in Worker : WorkerStep(w)
            BY <1>2, <3>2, OthersTask DEF SameStatus, TaskCancelled, LeaseExpires, TypeInv, TaskTyped, TaskRow
        <3> QED
            BY <3>1, <3>2
    <2> QED
        BY <2>1, <2>3, <2>4 DEF Ended, TypeInv, TaskTyped, TaskRow
<1> QED
    BY <1>1, <1>2

LEMMA UnsentStep ==
    ASSUME TypeInv, SentOnce, [Next]_vars
    PROVE  Unsent'
<1>1. ASSUME task'.status = "queued"
      PROVE  ~Submitted(task.run)'
    <2>1. CASE Retried
        <3>1. \A j \in DOMAIN job : job[j].run # NewRun
            BY <2>1, RetriedRun DEF TypeInv, JobTyped, Opened
        <3> QED
            BY <2>1, <3>1, RetriedRun DEF Submitted
    <2>2. CASE task.status = "queued" /\ task'.run = task.run
        <3>1. ~Submitted(task.run)
            BY <2>2 DEF SentOnce, Unsent
        <3>2. ASSUME NEW w \in Worker, NewJob(w), worker[w].run = task.run
              PROVE  FALSE
            BY <2>2, <3>2 DEF NewJob, At, MaySend, SentOnce, Unsent
        <3>3. \A j \in DOMAIN job' : job'[j].run # task.run
            BY <3>1, <3>2, SubmittedBefore DEF Submitted
        <3> QED
            BY <2>2, <3>3 DEF Submitted
    <2> QED
        BY <1>1, <2>1, <2>2, QueuedBefore
<1>2. ASSUME NEW w \in Worker, MaySend(w)'
      PROVE  /\ \A j \in DOMAIN job' : job'[j].run # worker'[w].run
             /\ task'.status = "queued" => task'.run # worker'[w].run
    <2>1. CASE ClaimNextTask(w) /\ worker'[w].run = task.run /\ task.req = None
        <3>1. task.status = "queued" \/ (task.status = "running" /\ ~task.lease)
            BY <2>1 DEF ClaimNextTask
        <3>2. task.status = "queued"
            BY <2>1, <3>1 DEF SentOnce, Attended
        <3>3. job' = job /\ task'.status = "running"
            BY <2>1 DEF ClaimNextTask, TypeInv, TaskTyped, TaskRow
        <3> QED
            BY <2>1, <3>2, <3>3 DEF SentOnce, Unsent, Submitted
    <2>2. CASE MaySend(w) /\ worker'[w].run = worker[w].run
        <3>1. ~Submitted(worker[w].run)
            BY <2>2 DEF SentOnce, Unsent
        <3>2. ASSUME NEW x \in Worker, WorkerStep(x), NewJob(x), worker[x].run = worker[w].run
              PROVE  FALSE
            <4>1. x = w
                BY <2>2, <3>2 DEF NewJob, At, MaySend, SentOnce, Unsent
            <4>2. worker'[w].pc \notin {"claimed", "preparing", "dispatching"}
                <5>1. job' # job
                    BY <3>2, NewJobStays
                <5>2. ~Heartbeat(w) /\ ~HeartbeatFails(w)
                    BY <5>1 DEF Heartbeat, HeartbeatFails
                <5>3. Ways(w) /\ worker[w].pc = "dispatching"
                    BY <3>2, <4>1, WorkerWays DEF NewJob, At
                <5> QED
                    BY <5>2, <5>3 DEF Ways, Way
            <4> QED
                BY <1>2, <4>2 DEF MaySend
        <3>3. \A j \in DOMAIN job' : job'[j].run # worker[w].run
            BY <3>1, <3>2, SubmittedBefore DEF Submitted
        <3>4. task'.status = "queued" => task'.run # worker[w].run
            <4>1. CASE Retried
                BY <4>1, RetriedRun DEF TypeInv, WorkerTyped, Opened
            <4>2. CASE task.status = "queued" /\ task'.run = task.run
                BY <2>2, <4>2 DEF SentOnce, Unsent
            <4> QED
                BY <4>1, <4>2, QueuedBefore
        <3> QED
            BY <2>2, <3>3, <3>4
    <2> QED
        BY <1>2, <2>1, <2>2, MaySendBefore
<1>3. ASSUME NEW w \in Worker, NEW x \in Worker, MaySend(w)', MaySend(x)', worker'[x].run = worker'[w].run
      PROVE  x = w
    <2>1. CASE MaySend(w) /\ worker'[w].run = worker[w].run /\ MaySend(x) /\ worker'[x].run = worker[x].run
        BY <1>3, <2>1 DEF SentOnce, Unsent
    <2>2. ASSUME NEW y \in Worker, NEW z \in Worker, y # z,
                 ClaimNextTask(y), worker'[y].run = task.run, task.req = None,
                 MaySend(z), worker'[z].run = worker[z].run
          PROVE  worker'[y].run # worker'[z].run
        <3>1. task.status = "queued"
            BY <2>2 DEF ClaimNextTask, SentOnce, Attended
        <3> QED
            BY <2>2, <3>1 DEF SentOnce, Unsent
    <2>3. CASE ClaimNextTask(w) /\ ClaimNextTask(x)
        <3>1. worker'[x].pc = "claimed" /\ worker[x].pc = "idle"
            BY <2>3, ClaimedRow
        <3>2. x # w => worker'[x] = worker[x]
            BY <2>3, WorkerWays DEF WorkerStep, KeepsRows
        <3> QED
            BY <3>1, <3>2
    <2> QED
        BY <1>3, <2>1, <2>2, <2>3, MaySendBefore
<1> QED
    BY <1>1, <1>2, <1>3 DEF Unsent, Submitted

\* A step that changes the id a worker knows also tells the task row.
LEMMA ReqKnownStep ==
    ASSUME TypeInv, SentOnce, [Next]_vars
    PROVE  ReqKnown'
<1> SUFFICES ASSUME NEW x \in Worker, Drives(x)', worker'[x].run = task'.run, worker'[x].req # None,
                    task'.status \in {"queued", "running"}, task'.req = None
             PROVE  FALSE
    BY DEF ReqKnown
<1>1. CASE Retried
    BY <1>1, RetriedRun DEF TypeInv, WorkerTyped, Opened
<1>2. CASE ~Retried
    <2>1. task.status \in {"queued", "running"} /\ task'.run = task.run
        BY <1>2, QueuedBefore
    <2>2. task.req = None
        <3>1. ~\E w \in Worker : SaveTaskCompletion(w)
            BY DEF SaveTaskCompletion, TypeInv, TaskTyped, TaskRow
        <3> QED
            BY <1>2, <3>1, ReqStays
    <2>3. ASSUME Drives(x), worker'[x].run = worker[x].run
          PROVE  worker[x].req = None
        BY <2>1, <2>2, <2>3 DEF SentOnce, ReqKnown
    <2>4. CASE WorkerStep(x)
        <3>1. CASE ClaimNextTask(x)
            <4>1. worker'[x].req = task.req
                BY <3>1 DEF ClaimNextTask, IdleWorker, TypeInv, WorkerTyped
            <4> QED
                BY <2>2, <4>1
        <3>2. CASE HeartbeatFails(x) \/ Heartbeat(x)
            <4>1. worker'[x].req = worker[x].req /\ worker'[x].run = worker[x].run /\ worker'[x].pc = worker[x].pc
                BY <3>2 DEF HeartbeatFails, Heartbeat, TypeInv, WorkerTyped, WorkerRow
            <4> QED
                BY <2>3, <4>1 DEF Drives
        <3>3. CASE Steering(x) /\ ~ClaimNextTask(x) /\ ~Heartbeat(x)
            <4>1. \/ Finish(x) \/ \E pc \in {"refunding", "charging", "settling"} : Goto(x, pc)
                BY <3>3 DEF Steering, PreparationFails, CloseFailed, SaveTaskCompletion, DeferToPoll
            <4> QED
                BY <4>1, WentRow, FinishedRow DEF Drives
        <3>4. CASE ~Steering(x) /\ ~HeartbeatFails(x)
            <4>1. Drives(x) /\ worker'[x].run = worker[x].run
                BY <2>4, <3>4, WorkingRow
            <4>2. worker[x].req = None
                BY <2>3, <4>1
            <4>3. worker'[x].req = worker[x].job /\ worker[x].job # None
                BY <2>2, <2>4, <3>4, <4>2, WorkingIds
            <4>4. CASE SubmitAnswerLost(x) \/ SubmitRejected(x) \/ PollStops(x)
                <5>1. \E result : Returns(x, result, task.req)
                    BY <4>4 DEF SubmitAnswerLost, SubmitRejected, PollStops
                <5> QED
                    BY <2>2, <4>2, <5>1, ReturnedRow
            <4>5. CASE PollDelivers(x) \/ PollFails(x) \/ PollBreaks(x)
                <5>1. LogIds(worker[x].run, worker[x].job)
                    BY <4>5 DEF PollDelivers, PollFails, Poll, PollBreaks, LogPoll
                <5> QED
                    BY <4>3, <5>1 DEF LogIds, TypeInv, TaskTyped, TaskRow
            <4>6. CASE SlotFails(x)
                <5>1. \/ \E result : Returns(x, result, task.req)
                      \/ LogIds(worker[x].run, worker[x].job)
                    BY <4>6 DEF SlotFails, LogPoll
                <5>2. CASE \E result : Returns(x, result, task.req)
                    BY <2>2, <4>2, <5>2, ReturnedRow
                <5>3. CASE LogIds(worker[x].run, worker[x].job)
                    BY <4>3, <5>3 DEF LogIds, TypeInv, TaskTyped, TaskRow
                <5> QED
                    BY <5>1, <5>2, <5>3
            <4>7. CASE RecordAccepted(x) \/ RecordFails(x) \/ PollPending(x) \/ Register(x) \/ RecheckFailure(x)
                <5>1. worker' = worker \/ Finish(x) \/ \E pc : Goto(x, pc)
                    BY <4>7 DEF RecordAccepted, RecordFails, PollPending, Register, RecheckFailure
                <5> QED
                    BY <4>2, <5>1, WentRow, FinishedRow DEF Drives
            <4>8. CASE \/ PrepareBilling(x) \/ PersistFails(x) \/ RecheckDelivered(x) \/ SaveFails(x)
                       \/ SubmitAccepted(x)
                <5>1. worker'[x].req = worker[x].req
                    BY <4>8 DEF PrepareBilling, PersistFails, RecheckDelivered, SaveFails, SubmitAccepted,
                        TypeInv, WorkerTyped, WorkerRow
                <5> QED
                    BY <4>2, <5>1
            <4>9. CASE \/ RefundPreparation(x) \/ AbandonLost(x) \/ ChargeFailure(x) \/ DiscardResult(x)
                       \/ SettleSuccess(x)
                <5>1. Finish(x)
                    BY <4>9 DEF RefundPreparation, AbandonLost, ChargeFailure, DiscardResult, SettleSuccess
                <5> QED
                    BY <5>1, FinishedRow DEF Drives
            <4> QED
                BY <2>4, <3>4, <4>4, <4>5, <4>6, <4>7, <4>8, <4>9 DEF WorkerStep, Steering
        <3> QED
            BY <3>1, <3>2, <3>3, <3>4
    <2>5. ASSUME NEW w \in Worker, w # x, WorkerStep(w)
          PROVE  FALSE
        <3>1. worker'[x] = worker[x]
            BY <2>5, WorkerWays DEF KeepsRows
        <3> QED
            BY <2>3, <3>1 DEF Drives
    <2>6. CASE ~\E w \in Worker : WorkerStep(w)
        <3>1. SameRow(x)
            <4>1. IdleWorker.pc = "idle"
                BY DEF IdleWorker
            <4> QED
                BY <2>6, <4>1, OtherWorkers DEF Drives
        <3> QED
            BY <2>3, <3>1 DEF SameRow, Drives
    <2> QED
        BY <2>4, <2>5, <2>6
<1> QED
    BY <1>1, <1>2

LEMMA AttendedStep ==
    ASSUME TypeInv, SentOnce, [Next]_vars, ~LeaseMayLapse, MaxCrashes = 0,
           Interface \subseteq {"cancellable"} \/ OneDriver
    PROVE  Attended'
<1> SUFFICES ASSUME task'.status = "running"
             PROVE  \/ task'.lease /\ \E w \in Worker : Holds(w)'
                    \/ ~task'.lease /\ task'.owner = Nobody /\ task'.req # None
    BY DEF Attended
<1>1. ~Retried
    BY RetriedRun
<1>2. /\ task'.run = task.run /\ task.status \in {"queued", "running"}
      /\ task.req # None => task'.req # None
    <2>1. ~\E w \in Worker : SaveTaskCompletion(w)
        BY DEF SaveTaskCompletion, TypeInv, TaskTyped, TaskRow
    <2> QED
        BY <1>1, <2>1, QueuedBefore, ReqStays
<1>3. ASSUME NEW y \in Worker, ClaimNextTask(y)
      PROVE  task'.lease /\ Holds(y)'
    <2>1. task'.lease /\ task'.owner = ProcessOf[y]
        BY <1>3 DEF ClaimNextTask, TypeInv, TaskTyped, TaskRow
    <2>2. worker'[y].pc = "claimed" /\ worker'[y].run = task.run /\ ~worker'[y].lost
        BY <1>3 DEF ClaimNextTask, IdleWorker, TypeInv, WorkerTyped
    <2> QED
        BY <1>2, <2>1, <2>2 DEF Holds, Drives
<1>4. CASE ~\E y \in Worker : ClaimNextTask(y)
    <2>1. task.status = "running"
        <3>1. ASSUME NEW w \in Worker, WorkerStep(w), task.status # "running"
              PROVE  FALSE
            <4>1. CASE Steering(w)
                BY <1>4, <3>1, <4>1 DEF Steering, PreparationFails, CloseFailed, MarkTerminalState,
                    DeferToPoll, SaveTaskCompletion, Heartbeat, TypeInv, TaskTyped, TaskRow
            <4>2. CASE ~Steering(w)
                BY <3>1, <4>2, WorksOn DEF SameTask
            <4> QED
                BY <4>1, <4>2
        <3>2. CASE ~\E w \in Worker : WorkerStep(w)
            BY <1>1, <3>2, OthersTask DEF SameStatus, TaskCancelled, LeaseExpires, TypeInv, TaskTyped, TaskRow
        <3> QED
            BY <3>1, <3>2
    <2>2. ASSUME NEW w \in Worker
          PROVE  ~PreparationFails(w) /\ ~CloseFailed(w) /\ ~SaveTaskCompletion(w)
        <3>1. ASSUME PreparationFails(w) \/ CloseFailed(w)
              PROVE  FALSE
            <4>1. MarkTerminalState("failed") \/ MarkTerminalState("cancelled")
                BY <3>1 DEF PreparationFails, CloseFailed
            <4> QED
                BY <2>1, <4>1 DEF MarkTerminalState, TypeInv, TaskTyped, TaskRow
        <3>2. ~SaveTaskCompletion(w)
            BY DEF SaveTaskCompletion, TypeInv, TaskTyped, TaskRow
        <3> QED
            BY <3>1, <3>2
    <2>3. ASSUME ~task.lease, task.owner = Nobody, task.req # None
          PROVE  ~task'.lease /\ task'.owner = Nobody /\ task'.req # None
        <3>1. ASSUME NEW w \in Worker, WorkerStep(w)
              PROVE  task'.owner = task.owner /\ task'.lease = task.lease
            <4>1. ProcessOf[w] # Nobody
                BY TaskAssumption DEF TaskAssumption
            <4>2. CASE Steering(w)
                BY <1>4, <2>1, <2>3, <4>1, <4>2 DEF Steering, PreparationFails, CloseFailed, MarkTerminalState,
                    DeferToPoll, SaveTaskCompletion, Heartbeat, TypeInv, TaskTyped, TaskRow
            <4>3. CASE ~Steering(w)
                BY <3>1, <4>3, WorksOn DEF SameTask
            <4> QED
                BY <4>2, <4>3
        <3>2. CASE ~\E w \in Worker : WorkerStep(w)
            <4>1. ~LeaseExpires
                BY <2>3 DEF LeaseExpires
            <4>2. task'.owner = task.owner /\ task'.lease = task.lease
                BY <1>1, <2>1, <3>2, <4>1, OthersTask DEF SameStatus, TaskCancelled, TypeInv, TaskTyped, TaskRow
            <4> QED
                BY <1>2, <2>3, <4>2
        <3> QED
            BY <1>2, <2>3, <3>1, <3>2
    <2>4. ASSUME task.lease, NEW h \in Worker, Holds(h)
          PROVE  \/ task'.lease /\ Holds(h)'
                 \/ ~task'.lease /\ task'.owner = Nobody /\ task'.req # None
        <3>1. ASSUME NEW w \in Worker, WorkerStep(w), ~DeferToPoll(w)
              PROVE  task'.owner = task.owner /\ task'.lease = task.lease
            <4>1. CASE Steering(w)
                BY <1>4, <2>2, <2>4, <3>1, <4>1 DEF Steering, Heartbeat
            <4>2. CASE ~Steering(w)
                BY <3>1, <4>2, WorksOn DEF SameTask
            <4> QED
                BY <4>1, <4>2
        <3>2. CASE WorkerStep(h) /\ ~DeferToPoll(h)
            <4>1. worker'[h].lost = worker[h].lost /\ worker'[h].run = worker[h].run /\ Drives(h)'
                <5>1. CASE Steering(h)
                    <6>1. worker' = worker
                        BY <1>4, <2>2, <3>2, <5>1 DEF Steering, Heartbeat
                    <6> QED
                        BY <2>4, <6>1 DEF Holds, Drives
                <5>2. ~HeartbeatFails(h)
                    BY <2>1, <2>4 DEF HeartbeatFails, Holds
                <5>3. CASE ~Steering(h)
                    <6>1. worker'[h].pc # "idle" /\ worker'[h].pc # "discarding"
                        <7>1. ~AbandonLost(h)
                            BY <2>4 DEF AbandonLost, Holds
                        <7>2. Register(h) => worker'[h].pc = "preparing"
                            BY <2>1, WentRow DEF Register
                        <7>3. RecheckFailure(h) => worker'[h].pc = "closing"
                            BY <2>1, WentRow DEF RecheckFailure
                        <7>4. RecheckDelivered(h) => worker'[h].pc = "saving"
                            BY <2>1 DEF RecheckDelivered, TypeInv, WorkerTyped, WorkerRow
                        <7>5. SaveFails(h) => worker'[h].pc = "closing"
                            BY <2>1 DEF SaveFails, TypeInv, WorkerTyped, WorkerRow
                        <7>6. Ways(h) /\ Drives(h)
                            BY <2>4, <3>2, WorkerWays DEF Holds
                        <7> QED
                            BY <3>2, <5>3, <7>1, <7>2, <7>3, <7>4, <7>5, <7>6 DEF Ways, Way, Drives, Steering
                    <6>2. Drives(h)'
                        <7>1. Ways(h) /\ Drives(h)
                            BY <2>4, <3>2, WorkerWays DEF Holds
                        <7> QED
                            BY <5>2, <5>3, <6>1, <7>1 DEF Ways, Way, Drives, Steering
                    <6> QED
                        BY <3>2, <5>2, <5>3, <6>2, WorkingRow
                <5> QED
                    BY <5>1, <5>3
            <4> QED
                BY <1>2, <2>4, <3>1, <3>2, <4>1 DEF Holds
        <3>3. CASE DeferToPoll(h)
            <4>1. task.interface = "deferrable" /\ worker[h].req # None
                BY <3>3 DEF DeferToPoll, MayDefer
            <4>2. task.req # None
                BY <2>1, <2>4, <4>1 DEF Holds, SentOnce, ReqKnown
            <4>3. ~task'.lease /\ task'.owner = Nobody
                BY <2>1, <2>4, <3>3 DEF DeferToPoll, Holds, TypeInv, TaskTyped, TaskRow
            <4> QED
                BY <1>2, <4>2, <4>3
        <3>4. ASSUME NEW w \in Worker, w # h, WorkerStep(w)
              PROVE  task'.lease /\ Holds(h)'
            <4>1. worker'[h] = worker[h]
                BY <3>4, WorkerWays DEF KeepsRows
            <4>2. CASE DeferToPoll(w)
                <5>1. task.interface = "deferrable"
                    BY <4>2 DEF DeferToPoll, MayDefer
                <5>2. OneDriver
                    BY <5>1 DEF TypeInv, TaskTyped, TaskRow
                <5>3. Drives(w)
                    BY <4>2 DEF DeferToPoll, At, Drives
                <5> QED
                    BY <2>4, <3>4, <5>2, <5>3 DEF OneDriver, Drive, Holds
            <4>3. CASE ~DeferToPoll(w)
                BY <1>2, <2>4, <3>1, <3>4, <4>1, <4>3 DEF Holds, Drives
            <4> QED
                BY <4>2, <4>3
        <3>5. CASE ~\E w \in Worker : WorkerStep(w)
            <4>1. SameRow(h)
                BY <3>5, OtherWorkers, NoCrash
            <4>2. task'.owner = task.owner /\ task'.lease = task.lease
                <5>1. ~LeaseExpires
                    BY <2>1, <2>4 DEF LeaseExpires, Holds, Drives, At
                <5> QED
                    BY <1>1, <2>1, <3>5, <5>1, OthersTask DEF SameStatus, TaskCancelled, TypeInv, TaskTyped, TaskRow
            <4> QED
                BY <1>2, <2>4, <4>1, <4>2 DEF Holds, Drives, SameRow
        <3> QED
            BY <3>2, <3>3, <3>4, <3>5 DEF WorkerStep
    <2> QED
        BY <2>1, <2>3, <2>4 DEF SentOnce, Attended
<1> QED
    BY <1>3, <1>4

LEMMA SentInit == Init => SentOnce
<1> SUFFICES ASSUME Init PROVE SentOnce
    OBVIOUS
<1>1. DOMAIN job = {}
    <2>1. job = <<>>
        BY Initially
    <2> QED
        BY <2>1
<1>2. task.status = "queued" /\ \A w \in Worker : worker[w].pc = "idle"
    BY Initially
<1> QED
    BY <1>1, <1>2 DEF SentOnce, OneJobPerRun, Unsent, Attended, ReqKnown, Submitted, MaySend, Drives

\* Workers never send a run to the provider twice (task_worker.go,
\* ClaimNextTask, MarkBillingRunning, DeferTaskPoll), where leases are kept up and
\* no process crashes - and, if a job is polled over several claims, no run is
\* given up while another one follows.
THEOREM NeverSentTwice ==
    ASSUME ~LeaseMayLapse, MaxCrashes = 0,
           Interface \subseteq {"cancellable"} \/ MaxRuns = 1 \/ CancelRequest = {}
    PROVE  Spec => []OneJobPerRun
<1> DEFINE Inv == TypeInv /\ SentOnce /\ (Interface \subseteq {"cancellable"} \/ OneDriver)
<1>1. Init => Inv
    BY InitTyped, DriverInit, SentInit
<1>2. Inv /\ [Next]_vars => Inv'
    <2> SUFFICES ASSUME Inv, [Next]_vars PROVE Inv'
        OBVIOUS
    <2>1. SentOnce'
        BY OneJobStep, UnsentStep, AttendedStep, ReqKnownStep DEF SentOnce
    <2>2. Interface \subseteq {"cancellable"} \/ OneDriver'
        BY DriverStep DEF Orderly
    <2> QED
        BY <2>1, <2>2, StepTyped
<1>3. Inv => OneJobPerRun
    BY DEF SentOnce
<1> QED
    BY <1>1, <1>2, <1>3, PTL DEF Spec

-----------------------------------------------------------------------------
(* A task cancelled in the queue.                                          *)

\* No worker has seen the task.
Untouched == job = <<>> /\ (\A w \in Worker : At(w, "idle")) /\ ~calls.ok /\ ~calls.okBefore

\* Request c has cancelled the task, and has not yet closed its order.
Committed(c) == cancel[c].pc \in {"committed", "closing", "claiming"}

QueueIsUntouched ==
    /\ task.status = "queued" => Untouched
    /\ \A c \in CancelRequest : Committed(c) /\ cancel[c].status = "queued"
            => task.status = "cancelled" /\ Untouched

\* What only workers, the cancellation calls and the provider change.
LEMMA LogsKept ==
    ASSUME TypeInv, [Next]_vars, ~\E w \in Worker : WorkerStep(w)
    PROVE  calls'.ok = calls.ok /\ calls'.okBefore = calls.okBefore
<1>1. ASSUME NEW c \in CancelRequest, (\E p \in Process : ReadForCancel(c, p)) \/ CancelStep(c)
      PROVE  calls' = calls \/ \E j : calls' = [calls EXCEPT !.latest = j]
    BY <1>1 DEF ReadForCancel, CancelStep, CancelTaskIfStatus, CancelActiveTask, CloseCancelled,
        ClaimTaskProviderCancellation, SendCancellation, LogCancel, CannotCancel, RefuseCancelled,
        ReviewCancelled
<1>2. CASE ReconStep
    <2>1. calls' = calls \/ \E j : calls' = [calls EXCEPT !.latest = j]
        BY <1>2 DEF ReconStep, ClaimNextTaskProviderCancellation, QueryProviderCancellation, QueryFails,
            LogCancel, ReconcileStopped, ReconcileDone, UpdateCancellation, GiveUpCancellation, ReviewGivenUp
    <2> QED
        BY <2>1 DEF TypeInv, CallsTyped, CallLog
<1>3. CASE \/ CheckRetry \/ RetryTaskWithBilling \/ (\E r \in Run : ResolveBillingOrder(r))
           \/ (\E j \in DOMAIN job : JobEnds(j)) \/ LeaseExpires \/ (\E p \in Process : Crash(p))
           \/ UNCHANGED vars
    BY <1>3 DEF CheckRetry, RetryTaskWithBilling, ResolveBillingOrder, JobEnds, LeaseExpires, Crash, vars
<1>4. ASSUME NEW c \in CancelRequest, (\E p \in Process : ReadForCancel(c, p)) \/ CancelStep(c)
      PROVE  calls'.ok = calls.ok /\ calls'.okBefore = calls.okBefore
    BY <1>1, <1>4 DEF TypeInv, CallsTyped, CallLog
<1> QED
    BY <1>2, <1>3, <1>4 DEF Next

LEMMA UntouchedStays ==
    ASSUME TypeInv, [Next]_vars, Untouched, ~\E w \in Worker : ClaimNextTask(w)
    PROVE  Untouched'
<1>1. ~\E w \in Worker : WorkerStep(w)
    <2>1. ASSUME NEW w \in Worker, WorkerStep(w)
          PROVE  FALSE
        <3>1. worker[w].pc = "idle" /\ Ways(w)
            BY <2>1, WorkerWays DEF Untouched, At
        <3> QED
            BY <2>1, <3>1 DEF Untouched, Ways, Way
    <2> QED
        BY <2>1
<1>2. job' = <<>>
    <2>1. CASE job' = job
        BY <2>1 DEF Untouched
    <2>2. CASE JobsEnd
        <3>1. Len(job') = 0 /\ job' \in Seq(Job)
            BY <2>2 DEF JobsEnd, Untouched
        <3> QED
            BY <3>1
    <2> QED
        BY <1>1, <2>1, <2>2, JobsChange
<1>3. \A x \in Worker : worker'[x].pc = "idle"
    <2>1. IdleWorker.pc = "idle"
        BY DEF IdleWorker
    <2> QED
        BY <1>1, <2>1, OtherWorkers DEF SameRow, Untouched, At
<1>4. calls'.ok = calls.ok /\ calls'.okBefore = calls.okBefore
    BY <1>1, LogsKept
<1> QED
    BY <1>2, <1>3, <1>4 DEF Untouched, At

\* How a request comes to have committed.
LEMMA CommittedBefore ==
    ASSUME TypeInv, [Next]_vars, NEW c \in CancelRequest, Committed(c)'
    PROVE  cancel'[c].status = cancel[c].status /\ (Committed(c) \/ TaskCancelled(c))
<1>1. CASE (\E p \in Process : ReadForCancel(c, p)) \/ CancelStep(c)
    <2>1. (Committed(c) /\ CancelActiveTask(c)) \/ TaskCancelled(c)
        BY <1>1, RequestLegs DEF Leg, Committed
    <2>2. cancel'[c].status = cancel[c].status
        BY <2>1 DEF CancelActiveTask, TaskCancelled, CancelTaskIfStatus, TypeInv, CancelTyped, CancelRow
    <2> QED
        BY <2>1, <2>2
<1>2. CASE ~((\E p \in Process : ReadForCancel(c, p)) \/ CancelStep(c))
    <2>1. cancel'[c] = cancel[c] \/ cancel'[c] = IdleCancel
        <3>1. ASSUME NEW d \in CancelRequest, d # c, (\E p \in Process : ReadForCancel(d, p)) \/ CancelStep(d)
              PROVE  cancel'[c] = cancel[c]
            BY <3>1, RequestLegs
        <3>2. ASSUME NEW w \in Worker, WorkerStep(w)
              PROVE  cancel' = cancel
            BY <3>2, WorkerLeaves DEF others
        <3>3. CASE ReconStep
            BY <3>3, ReconLeaves
        <3>4. CASE /\ ~ReconStep /\ ~\E w \in Worker : WorkerStep(w)
                   /\ ~\E d \in CancelRequest : (\E p \in Process : ReadForCancel(d, p)) \/ CancelStep(d)
            BY <3>4, SurroundingsLeave
        <3> QED
            BY <1>2, <3>1, <3>2, <3>3, <3>4
    <2>2. IdleCancel.pc = "idle"
        BY DEF IdleCancel
    <2> QED
        BY <2>1, <2>2 DEF Committed
<1> QED
    BY <1>1, <1>2

LEMMA UntouchedStep ==
    ASSUME TypeInv, MaxRuns = 1, QueueIsUntouched, [Next]_vars
    PROVE  QueueIsUntouched'
<1>0. ~Retried
    <2>1. Retried => task' = task /\ task'.status = "queued" /\ task.status # "queued"
        BY NoRetry, RetriedRun DEF Retried
    <2> QED
        BY <2>1
<1>1. ASSUME task'.status = "queued"
      PROVE  Untouched'
    <2>1. task.status = "queued"
        BY <1>0, <1>1, QueuedBefore
    <2>2. ~\E w \in Worker : ClaimNextTask(w)
        BY <1>1 DEF ClaimNextTask, TypeInv, TaskTyped, TaskRow
    <2> QED
        BY <2>1, <2>2, UntouchedStays DEF QueueIsUntouched
<1>2. ASSUME NEW c \in CancelRequest, Committed(c)', cancel'[c].status = "queued"
      PROVE  task'.status = "cancelled" /\ Untouched'
    <2>1. CASE TaskCancelled(c)
        <3>1. task.status = "queued" /\ task'.status = "cancelled"
            BY <1>2, <2>1, CommittedBefore DEF TaskCancelled, TypeInv, TaskTyped, TaskRow
        <3>2. ~\E w \in Worker : ClaimNextTask(w)
            BY <3>1 DEF ClaimNextTask, TypeInv, TaskTyped, TaskRow
        <3> QED
            BY <3>1, <3>2, UntouchedStays DEF QueueIsUntouched
    <2>2. CASE Committed(c)
        <3>1. task.status = "cancelled" /\ Untouched
            BY <1>2, <2>2, CommittedBefore DEF QueueIsUntouched
        <3>2. ~\E w \in Worker : ClaimNextTask(w)
            BY <3>1 DEF ClaimNextTask
        <3> QED
            BY <3>1, <3>2, UntouchedStays, CancelledStays
    <2> QED
        BY <1>2, <2>1, <2>2, CommittedBefore
<1> QED
    BY <1>1, <1>2 DEF QueueIsUntouched

LEMMA UntouchedInit == Init => QueueIsUntouched
<1> SUFFICES ASSUME Init PROVE QueueIsUntouched
    OBVIOUS
<1>1. Untouched
    BY Initially DEF Untouched, At
<1>2. \A c \in CancelRequest : cancel[c].pc = "idle"
    BY Initially
<1> QED
    BY <1>1, <1>2 DEF QueueIsUntouched, Committed

\* A cancel request that found the task in the queue gives the credits back for
\* a run that the provider never saw (CancelTask, task_lifecycle.go), where the
\* task has one run - and then also if leases lapse and processes crash.
THEOREM QueuedCancelsAreFree ==
    ASSUME MaxRuns = 1
    PROVE  Spec => []QueuedCancelIsFree
<1> DEFINE Inv == TypeInv /\ QueueIsUntouched
<1>1. Init => Inv
    BY InitTyped, UntouchedInit
<1>2. Inv /\ [Next]_vars => Inv'
    BY StepTyped, UntouchedStep
<1>3. Inv => QueuedCancelIsFree
    <2>1. ASSUME QueueIsUntouched, NEW c \in CancelRequest, Committed(c), cancel[c].status = "queued"
          PROVE  ~Submitted(cancel[c].run)
        <3>1. job = <<>>
            BY <2>1 DEF QueueIsUntouched, Untouched
        <3>2. DOMAIN job = {}
            BY <3>1
        <3> QED
            BY <3>2 DEF Submitted
    <2> QED
        BY <2>1 DEF QueuedCancelIsFree, Committed
<1> QED
    BY <1>1, <1>2, <1>3, PTL DEF Spec
=============================================================================
