------------------------ MODULE DreaminaJournalProofs ------------------------
(***************************************************************************)
(* Proofs about DreaminaJournal, for any processes, tasks, slots and       *)
(* bounds, whatever leases lapse, processes crash and writes fail: a task  *)
(* is submitted once, the official slots are not oversold, and the outcome *)
(* of a task is the provider's.                                            *)
(***************************************************************************)
EXTENDS DreaminaJournal, FiniteSetTheorems, TLAPS

Submission ==
    [pc : {"idle", "starting", "waiting", "reserved", "invoked", "permitted", "sent",
           "accepted", "scheduling", "failing", "closing"},
     spawned : BOOLEAN, fenced : BOOLEAN, account : AccountSession \cup {"none"}]
Poll == [pc : {"off", "idle", "observing", "observed", "erring"}, task : Task \cup {"none"},
         status : {"none", "pending", "completed", "failed", "cancelled"}, outputs : BOOLEAN]
Status == {"none", "pending", "completed", "failed", "cancelled"}

\* A record x is one that validRecord accepts, and more: a reservation has a
\* phase, a receipt leaves only the states that the provider decides, and only
\* what has a receipt is polled.
Valid(x) ==
    /\ WellFormed(x)
    /\ x.state = "pending" => x.phase # "none"
    /\ x.receipt => x.state \in {"accepted", "succeeded", "failed", "cancelled"}
    /\ x.pollLease # "none" => x.receipt

\* The process may or did start the command for x: nobody may take x away.
Permitted(x) == (x.state = "pending" /\ x.phase = "spawn_permitted") \/ x.state = "unknown"

\* Process r drives x by the submission s, of which n jobs have been made: the
\* record is r's as long as it is open, and there is no job before the fence.
Drives(r, s, x, n) ==
    /\ s.pc # "idle" => /\ x.state # "absent"
                        /\ x.state \in {"queued", "pending"} => x.owner = r
    /\ s.pc \in {"starting", "waiting", "reserved", "invoked"} /\ x.state = "pending"
         => x.phase = "reserved"
    /\ s.pc = "permitted" => n = 0 /\ Permitted(x)
    /\ s.pc = "sent" => n = 1 /\ Permitted(x)
    /\ s.pc \in {"sent", "accepted"} => s.spawned
    /\ s.pc \in {"idle", "starting", "waiting", "reserved", "invoked", "permitted"} => ~s.spawned
    /\ s.pc \in {"failing", "closing"} /\ ~s.spawned /\ x.phase = "spawn_permitted" => n = 0

\* The jobs that were made for x are known to it.
Accounted(x, n, status) ==
    /\ n <= 1
    /\ n = 1 => x.receipt \/ Permitted(x)
    /\ x.receipt => n = 1
    /\ (n = 0) = (status = "none")

\* A poll q of x has seen the status of a job that exists; an end is final.
Polls(q, x, status) ==
    /\ q.pc \in {"observing", "observed", "erring"} => x.receipt
    /\ q.pc = "observed" => /\ q.status # "none"
                            /\ q.status # "pending" => q.status = status
                            /\ q.outputs => q.status = "completed"

\* At most one process drives t.
DrivenOnce(t) ==
    \A q, r \in Runtime : submission[q][t].pc # "idle" /\ submission[r][t].pc # "idle" => q = r

TaskInv(t) ==
    /\ DrivenOnce(t)
    /\ Valid(journal[t])
    /\ Accounted(journal[t], jobs[t], official[t])
    /\ \A r \in Runtime : Drives(r, submission[r][t], journal[t], jobs[t])
    /\ \A r \in Runtime : poller[r].task = t => Polls(poller[r], journal[t], official[t])

PollsATask ==
    \A r \in Runtime : poller[r].pc \in {"observing", "observed", "erring"} => poller[r].task \in Task

JournalInv == JournalTypeOK /\ PollsATask /\ \A t \in Task : TaskInv(t)

-----------------------------------------------------------------------------
(* What happens to a record, as values.                                    *)

\* From x to y nothing changes that the submissions, jobs and polls of x rely on.
Keeps(x, y) ==
    /\ y \in Record /\ Valid(y)
    /\ \A r \in Runtime, s \in Submission, n \in Nat : Drives(r, s, x, n) => Drives(r, s, y, n)
    /\ \A n \in Nat, o \in Status : Accounted(x, n, o) => Accounted(y, n, o)
    /\ x.receipt => y.receipt

LEMMA KeepsAll ==
    ASSUME NEW x \in Record, NEW y \in Record, NEW z \in Record, Keeps(x, y), Keeps(y, z)
    PROVE Keeps(x, z)
  BY DEF Keeps

LEMMA KeepsItself == ASSUME NEW x \in Record, Valid(x) PROVE Keeps(x, x)
  BY DEF Keeps

\* Unqueued: the entry is given up, and the rest of the record is what it was.
LEMMA UnqueuedFields ==
    ASSUME NEW x \in Record, NEW state \in State
    PROVE LET y == [Unqueued(x) EXCEPT !.state = state] IN
          /\ y \in Record /\ y.state = state /\ y.owner = "none"
          /\ y.phase = x.phase /\ y.receipt = x.receipt /\ y.account = x.account
          /\ y.outputs = x.outputs /\ y.hidden = x.hidden /\ y.due = x.due
          /\ y.pollLease = x.pollLease /\ y.pollLapsed = x.pollLapsed
<1>1. Unqueued(x) \in Record
  <2>1. [x EXCEPT !.owner = "none"] \in Record
    BY DEF Record
  <2>2. QED
    BY <2>1 DEF Unqueued, Record
<1>2. [Unqueued(x) EXCEPT !.state = state] \in Record
  BY <1>1 DEF Record
<1>3. QED
  BY <1>2 DEF Unqueued, Record

\* Closed: what it leaves alone, and that a closed record is what it was or at
\* an end.
LEMMA ClosedFields ==
    ASSUME NEW x \in Record
    PROVE LET y == Closed(x) IN
          /\ y \in Record
          /\ y.receipt = x.receipt /\ y.account = x.account /\ y.outputs = x.outputs
          /\ y.hidden = x.hidden /\ y.due = x.due
          /\ y.pollLease = x.pollLease /\ y.pollLapsed = x.pollLapsed
          /\ \/ y = x /\ (x.state \in {"queued", "pending"} => ~x.lapsed)
             \/ /\ x.state = "pending" /\ x.lapsed /\ x.phase = "reserved" /\ y.state = "failed"
                /\ y.phase = "none" /\ y.owner = "none"
             \/ /\ x.state = "pending" /\ x.lapsed /\ x.phase # "reserved" /\ y.state = "unknown"
                /\ y.phase = "none" /\ y.owner = "none"
             \/ /\ x.state = "queued" /\ x.lapsed /\ y.state = "failed"
                /\ y.phase = x.phase /\ y.owner = "none"
<1> DEFINE y == Closed(x)
<1>1. CASE x.state = "pending" /\ x.lapsed
  <2>1. y = [Unreserved(x) EXCEPT !.state = IF x.phase = "reserved" THEN "failed" ELSE "unknown"]
    BY <1>1 DEF Closed
  <2>2. y \in Record
    BY <2>1 DEF Unreserved, Record, State
  <2>3. QED
    BY <1>1, <2>1, <2>2 DEF Unreserved, Record
<1>2. CASE x.state = "queued" /\ x.lapsed
  <2>1. y = [Unqueued(x) EXCEPT !.state = "failed"]
    BY <1>2 DEF Closed
  <2>2. "failed" \in State
    BY DEF State
  <2>3. QED
    BY ONLY <1>2, <2>1, <2>2, UnqueuedFields, x \in Record
<1>3. CASE ~(x.state \in {"queued", "pending"} /\ x.lapsed)
  <2>1. y = x
    BY <1>3 DEF Closed
  <2>2. QED
    BY <1>3, <2>1
<1>4. QED
  BY <1>1, <1>2, <1>3

LEMMA ClosedKeeps == ASSUME NEW x \in Record, Valid(x) PROVE Keeps(x, Closed(x))
<1> DEFINE y == Closed(x)
<1>1. /\ y \in Record
      /\ y.receipt = x.receipt /\ y.outputs = x.outputs /\ y.pollLease = x.pollLease
      /\ \/ y = x /\ (x.state \in {"queued", "pending"} => ~x.lapsed)
         \/ /\ x.state = "pending" /\ x.phase = "reserved" /\ y.state = "failed"
            /\ y.phase = "none" /\ y.owner = "none"
         \/ /\ x.state = "pending" /\ x.phase # "reserved" /\ y.state = "unknown"
            /\ y.phase = "none" /\ y.owner = "none"
         \/ /\ x.state = "queued" /\ y.state = "failed" /\ y.phase = x.phase /\ y.owner = "none"
  BY ClosedFields
<1> HIDE DEF y
<1>2. Valid(y)
  BY <1>1 DEF Valid, WellFormed
<1>3. ASSUME NEW r \in Runtime, NEW s \in Submission, NEW n \in Nat, Drives(r, s, x, n)
      PROVE Drives(r, s, y, n)
  BY <1>1, <1>3 DEF Drives, Permitted, Valid, WellFormed, Record
<1>4. ASSUME NEW n \in Nat, NEW o \in Status, Accounted(x, n, o) PROVE Accounted(y, n, o)
  BY <1>1, <1>4 DEF Accounted, Permitted, Record
<1>5. Keeps(x, y)
  BY <1>1, <1>2, <1>3, <1>4 DEF Keeps
<1>6. QED
  BY <1>5 DEF y

\* The marks of the polling, of the user and of the lease change nothing.
LEMMA MarksKeep ==
    ASSUME NEW x \in Record, NEW y \in Record, Valid(x),
           y.state = x.state, y.phase = x.phase, y.receipt = x.receipt, y.outputs = x.outputs,
           y.owner = x.owner, y.pollLease # "none" => y.receipt
    PROVE Keeps(x, y)
  BY DEF Keeps, Valid, WellFormed, Drives, Accounted, Permitted

\* A queue entry ends without a job, and one that is reserved is still its owner's.
LEMMA EntryEnds ==
    ASSUME NEW x \in Record, NEW y \in Record, Valid(x), x.state = "queued",
           y.state \in {"failed", "cancelled", "deleted"},
           y.phase = x.phase, y.receipt = x.receipt, y.outputs = x.outputs, y.pollLease = x.pollLease
    PROVE Keeps(x, y)
  BY DEF Keeps, Valid, WellFormed, Drives, Accounted, Permitted, Record

LEMMA EntryIsReserved ==
    ASSUME NEW x \in Record, NEW y \in Record, Valid(x), x.state = "queued",
           y.state = "pending", y.phase = "reserved", y.owner = x.owner,
           y.receipt = x.receipt, y.outputs = x.outputs, y.pollLease = x.pollLease
    PROVE Keeps(x, y)
  BY DEF Keeps, Valid, WellFormed, Drives, Accounted, Permitted, Record

\* What the process was allowed to start may end unknown.
LEMMA PermittedEnds ==
    ASSUME NEW x \in Record, NEW y \in Record, Valid(x), x.state = "pending", 
           y.state = "unknown", y.phase = "none",
           y.receipt = x.receipt, y.outputs = x.outputs, y.pollLease = x.pollLease
    PROVE Keeps(x, y)
  BY DEF Keeps, Valid, WellFormed, Drives, Accounted, Permitted, Record

\* With a receipt only the provider decides.
LEMMA ReceiptKeeps ==
    ASSUME NEW x \in Record, NEW y \in Record, Valid(x), x.receipt, y.receipt, Valid(y)
    PROVE Keeps(x, y)
  BY DEF Keeps, Valid, WellFormed, Drives, Accounted, Permitted, Record

\* An open record has one driver, its owner.
LEMMA OneDriver ==
    ASSUME NEW x \in Record, x.state \in {"queued", "pending", "absent"},
           NEW q \in Runtime, NEW s \in Submission, NEW n \in Nat, Drives(q, s, x, n),
           x.state # "absent" => x.owner # q
    PROVE s.pc = "idle" /\ ~s.spawned
  BY DEF Drives

LEMMA NobodyDrives ==
    ASSUME NEW x \in Record, NEW q \in Runtime, NEW s \in Submission, NEW n \in Nat,
           s.pc = "idle", ~s.spawned
    PROVE Drives(q, s, x, n)
  BY DEF Drives

LEMMA NoSubmissionIsOne == NoSubmission \in Submission /\ NoSubmission.pc = "idle" /\ ~NoSubmission.spawned
  BY DEF NoSubmission, Submission

-----------------------------------------------------------------------------
(* What a step does to the tasks it is not about, and to its own.          *)

\* The submission of t by r moves on, alone.
MovesAlone(r, t) ==
    /\ submission' \in [Runtime -> [Task -> Submission]]
    /\ \A q \in Runtime, u \in Task : q # r \/ u # t => submission'[q][u] = submission[q][u]

LEMMA Going ==
    ASSUME JournalTypeOK, NEW r \in Runtime, NEW t \in Task,
           NEW pc \in {"idle", "starting", "waiting", "reserved", "invoked", "permitted", "sent",
                       "accepted", "scheduling", "failing", "closing"}, Goto(r, t, pc)
    PROVE /\ MovesAlone(r, t)
          /\ submission'[r][t].pc = pc
          /\ submission'[r][t].spawned = submission[r][t].spawned
          /\ submission'[r][t].fenced = submission[r][t].fenced
          /\ submission'[r][t].account = submission[r][t].account
<1>1. submission \in [Runtime -> [Task -> Submission]]
  BY DEF JournalTypeOK, Submission
<1>2. submission' = [submission EXCEPT ![r] = [submission[r] EXCEPT ![t] = [submission[r][t] EXCEPT !.pc = pc]]]
  BY DEF Goto
<1>3. [submission[r][t] EXCEPT !.pc = pc] \in Submission
  <2>1. submission[r][t] \in Submission
    BY <1>1
  <2>2. QED
    BY <2>1 DEF Submission
<1>4. QED
  BY <1>1, <1>2, <1>3 DEF MovesAlone, Submission

LEMMA Finishing ==
    ASSUME JournalTypeOK, NEW r \in Runtime, NEW t \in Task, Finish(r, t)
    PROVE MovesAlone(r, t) /\ submission'[r][t] = NoSubmission
<1>1. submission \in [Runtime -> [Task -> Submission]]
  BY DEF JournalTypeOK, Submission
<1>2. submission' = [submission EXCEPT ![r] = [submission[r] EXCEPT ![t] = NoSubmission]]
  BY DEF Finish
<1>3. QED
  BY <1>1, <1>2, NoSubmissionIsOne DEF MovesAlone

LEMMA RecoveredType == JournalInv => Recovered \in [Task -> Record]
<1>1. ASSUME JournalInv, NEW t \in Task PROVE Closed(journal[t]) \in Record
  BY <1>1, ClosedFields DEF JournalInv, JournalTypeOK
<1>2. QED
  BY <1>1 DEF Recovered

LEMMA StatesType == ASSUME NEW j \in [Task -> Record] PROVE States(j) \in [Task -> State]
  BY DEF States, Record

\* Persist and FailToPersist: the file has the new records or the recovered
\* ones, and the types hold.
LEMMA Persisting ==
    ASSUME JournalInv, NEW r \in Runtime, NEW j \in [Task -> Record],
           Persist(r, j) \/ FailToPersist(r, j)
    PROVE /\ journal' \in [Task -> Record]
          /\ journal' = j \/ journal' = Recovered
          /\ memory' \in [Runtime -> [Task -> State]]
          /\ faults' \in Nat
<1>1. memory \in [Runtime -> [Task -> State]] /\ faults \in Nat /\ Recovered \in [Task -> Record]
  BY RecoveredType DEF JournalInv, JournalTypeOK
<1>2. memory' = [memory EXCEPT ![r] = States(j)]
  BY DEF Persist, FailToPersist
<1>3. memory' \in [Runtime -> [Task -> State]]
  BY <1>1, <1>2, StatesType
<1>4. QED
  BY <1>1, <1>3 DEF Persist, FailToPersist

LEMMA TaskIsTyped ==
    ASSUME JournalInv, NEW t \in Task
    PROVE /\ journal[t] \in Record /\ Valid(journal[t]) /\ jobs[t] \in Nat /\ official[t] \in Status
          /\ Accounted(journal[t], jobs[t], official[t])
          /\ Recovered[t] = Closed(journal[t]) /\ Recovered[t] \in Record
          /\ Keeps(journal[t], Recovered[t]) /\ Valid(Recovered[t])
          /\ Accounted(Recovered[t], jobs[t], official[t])
          /\ \A r \in Runtime : /\ submission[r][t] \in Submission /\ poller[r] \in Poll
                                /\ Drives(r, submission[r][t], journal[t], jobs[t])
                                /\ Drives(r, submission[r][t], Recovered[t], jobs[t])
<1>1. /\ journal[t] \in Record /\ Valid(journal[t]) /\ jobs[t] \in Nat /\ official[t] \in Status
      /\ Accounted(journal[t], jobs[t], official[t])
  BY DEF JournalInv, JournalTypeOK, TaskInv, Status
<1>2. \A r \in Runtime : /\ submission[r][t] \in Submission /\ poller[r] \in Poll
                         /\ Drives(r, submission[r][t], journal[t], jobs[t])
  BY DEF JournalInv, JournalTypeOK, TaskInv, Submission, Poll
<1>3. Recovered[t] = Closed(journal[t])
  BY DEF Recovered
<1>4. Keeps(journal[t], Recovered[t])
  BY <1>1, <1>3, ClosedKeeps
<1>5. QED
  BY <1>1, <1>2, <1>3, <1>4 DEF Keeps

\* A task keeps its invariant when its record is kept and its submissions stay
\* or are over.
LEMMA TaskKept ==
    ASSUME JournalInv, NEW t \in Task, Keeps(journal[t], journal'[t]),
           jobs'[t] = jobs[t], official'[t] = official[t],
           \A r \in Runtime : submission'[r][t] = submission[r][t] \/ submission'[r][t] = NoSubmission,
           \A r \in Runtime : \/ poller'[r] = poller[r]
                              \/ poller'[r].pc \notin {"observing", "observed", "erring"}
    PROVE TaskInv(t)'
<1>1. /\ journal[t] \in Record /\ journal'[t] \in Record /\ Valid(journal'[t])
      /\ Accounted(journal'[t], jobs'[t], official'[t])
      /\ journal[t].receipt => journal'[t].receipt
  BY TaskIsTyped DEF Keeps
<1>2. ASSUME NEW r \in Runtime PROVE Drives(r, submission'[r][t], journal'[t], jobs'[t])
  <2>1. CASE submission'[r][t] = submission[r][t]
    BY <2>1, TaskIsTyped DEF Keeps
  <2>2. CASE submission'[r][t] = NoSubmission
    BY <1>1, <2>2, NoSubmissionIsOne, NobodyDrives, TaskIsTyped
  <2>3. QED
    BY <2>1, <2>2
<1>3. ASSUME NEW r \in Runtime, poller'[r].task = t PROVE Polls(poller'[r], journal'[t], official'[t])
  BY <1>1, <1>3 DEF Polls, JournalInv, TaskInv
<1>4. DrivenOnce(t)'
  BY NoSubmissionIsOne DEF DrivenOnce, JournalInv, TaskInv
<1>5. QED
  BY <1>1, <1>2, <1>3, <1>4 DEF TaskInv

\* A step of the submission of t by r, and of no poll.
LEMMA SubmissionStep ==
    ASSUME JournalInv, NEW r \in Runtime, NEW t \in Task, MovesAlone(r, t),
           journal' \in [Task -> Record],
           \A u \in Task \ {t} : /\ journal'[u] = journal[u] \/ journal'[u] = Recovered[u]
                                 /\ jobs'[u] = jobs[u] /\ official'[u] = official[u],
           UNCHANGED poller,
           \/ submission[r][t].pc # "idle" \/ submission'[r][t].pc = "idle"
           \/ \A q \in Runtime \ {r} : submission[q][t].pc = "idle",
           Valid(journal'[t]), Accounted(journal'[t], jobs'[t], official'[t]),
           Drives(r, submission'[r][t], journal'[t], jobs'[t]),
           \A q \in Runtime \ {r} : Drives(q, submission[q][t], journal'[t], jobs'[t]),
           journal[t].receipt => journal'[t].receipt /\ official'[t] = official[t]
    PROVE PollsATask' /\ \A u \in Task : TaskInv(u)'
<1>1. PollsATask'
  BY DEF JournalInv, PollsATask
<1>2. ASSUME NEW u \in Task, u # t PROVE TaskInv(u)'
  <2>1. Keeps(journal[u], journal'[u])
    BY <1>2, TaskIsTyped, KeepsItself
  <2>2. \A q \in Runtime : submission'[q][u] = submission[q][u] \/ submission'[q][u] = NoSubmission
    BY <1>2 DEF MovesAlone
  <2>3. QED
    BY <1>2, <2>1, <2>2, TaskKept
<1>3. TaskInv(t)'
  <2>1. \A q \in Runtime : Drives(q, submission'[q][t], journal'[t], jobs'[t])
    BY DEF MovesAlone
  <2>2. ASSUME NEW q \in Runtime, poller'[q].task = t PROVE Polls(poller'[q], journal'[t], official'[t])
    BY <2>2 DEF Polls, JournalInv, TaskInv
  <2>3. DrivenOnce(t)'
    BY DEF DrivenOnce, JournalInv, TaskInv, MovesAlone
  <2>4. QED
    BY <2>1, <2>2, <2>3 DEF TaskInv
<1>4. QED
  BY <1>1, <1>2, <1>3

\* ... when the record of t is kept.
LEMMA KeptStep ==
    ASSUME JournalInv, NEW r \in Runtime, NEW t \in Task, MovesAlone(r, t),
           journal' \in [Task -> Record],
           \A u \in Task \ {t} : journal'[u] = journal[u] \/ journal'[u] = Recovered[u],
           Keeps(journal[t], journal'[t]), UNCHANGED <<poller, jobs, official>>,
           \/ submission'[r][t] = NoSubmission
           \/ submission[r][t].pc # "idle" /\ Drives(r, submission'[r][t], journal'[t], jobs[t])
    PROVE PollsATask' /\ \A u \in Task : TaskInv(u)'
<1>1. Valid(journal'[t]) /\ Accounted(journal'[t], jobs'[t], official'[t])
  BY TaskIsTyped DEF Keeps
<1>2. Drives(r, submission'[r][t], journal'[t], jobs'[t])
  BY NobodyDrives, NoSubmissionIsOne, TaskIsTyped
<1>3. \A q \in Runtime \ {r} : Drives(q, submission[q][t], journal'[t], jobs'[t])
  BY TaskIsTyped DEF Keeps
<1>4. journal[t].receipt => journal'[t].receipt
  BY DEF Keeps
<1>5. QED
  BY <1>1, <1>2, <1>3, <1>4, SubmissionStep, NoSubmissionIsOne

\* A step that keeps every record, whatever submissions and polls end.
LEMMA KeptByAll ==
    ASSUME JournalInv, UNCHANGED <<jobs, official>>,
           \A u \in Task : Keeps(journal[u], journal'[u]),
           \A q \in Runtime, u \in Task :
              submission'[q][u] = submission[q][u] \/ submission'[q][u] = NoSubmission,
           \A q \in Runtime : \/ poller'[q] = poller[q]
                              \/ poller'[q].pc \notin {"observing", "observed", "erring"}
    PROVE PollsATask' /\ \A u \in Task : TaskInv(u)'
<1>1. PollsATask'
  BY DEF JournalInv, PollsATask
<1>2. ASSUME NEW u \in Task PROVE TaskInv(u)'
  BY TaskKept
<1>3. QED
  BY <1>1, <1>2

\* Reloading, and writing the record y of t.
LEMMA Reloading ==
    ASSUME JournalInv, NEW r \in Runtime, Reload(r)
    PROVE /\ journal' = Recovered /\ journal' \in [Task -> Record]
          /\ memory' \in [Runtime -> [Task -> State]] /\ faults' \in Nat
  BY RecoveredType, Persisting DEF Reload, Persist

LEMMA Writing ==
    ASSUME JournalInv, NEW r \in Runtime, NEW t \in Task, NEW y \in Record,
           Persist(r, With(t, y)) \/ FailToPersist(r, With(t, y))
    PROVE /\ journal' \in [Task -> Record]
          /\ memory' \in [Runtime -> [Task -> State]] /\ faults' \in Nat
          /\ \A u \in Task \ {t} : journal'[u] = Recovered[u]
          /\ Persist(r, With(t, y)) => journal'[t] = y
          /\ FailToPersist(r, With(t, y)) => journal'[t] = Recovered[t]
<1>1. /\ With(t, y) \in [Task -> Record] /\ With(t, y)[t] = y
      /\ \A u \in Task \ {t} : With(t, y)[u] = Recovered[u]
  BY RecoveredType DEF With
<1>2. QED
  BY <1>1, Persisting DEF Persist, FailToPersist

LEMMA TypesKept ==
    ASSUME JournalInv,
           journal' \in [Task -> Record], nextTicket' \in Nat \ {0},
           memory' \in [Runtime -> [Task -> State]],
           submission' \in [Runtime -> [Task -> Submission]], poller' \in [Runtime -> Poll],
           accountNow' \in AccountSession, jobs' \in [Task -> Nat], official' \in [Task -> Status],
           faults' \in Nat, restarts' \in Nat, switches' \in Nat
    PROVE JournalTypeOK'
  BY DEF JournalTypeOK, Submission, Poll, Status

LEMMA TypesNow ==
    ASSUME JournalInv
    PROVE /\ journal \in [Task -> Record] /\ nextTicket \in Nat \ {0}
          /\ memory \in [Runtime -> [Task -> State]]
          /\ submission \in [Runtime -> [Task -> Submission]] /\ poller \in [Runtime -> Poll]
          /\ accountNow \in AccountSession /\ jobs \in [Task -> Nat] /\ official \in [Task -> Status]
          /\ faults \in Nat /\ restarts \in Nat /\ switches \in Nat
          /\ JournalTypeOK
  BY DEF JournalInv, JournalTypeOK, Submission, Poll, Status

-----------------------------------------------------------------------------
(* Each action keeps the invariant.                                        *)

LEMMA LoadKeeps == ASSUME JournalInv, NEW r \in Runtime, Load(r) PROVE JournalInv'
<1>1. /\ journal' = Recovered /\ journal' \in [Task -> Record]
      /\ memory' \in [Runtime -> [Task -> State]] /\ faults' \in Nat
      /\ UNCHANGED <<nextTicket, submission, poller, restarts>> /\ UNCHANGED providerVars
  BY Reloading DEF Load
<1>2. JournalTypeOK'
  BY <1>1, TypesNow, TypesKept DEF providerVars
<1>3. PollsATask' /\ \A u \in Task : TaskInv(u)'
  BY <1>1, TaskIsTyped, KeptByAll DEF providerVars
<1>4. QED
  BY <1>2, <1>3 DEF JournalInv

LEMMA EnqueueKeeps ==
    ASSUME JournalInv, NEW r \in Runtime, NEW t \in Task, Enqueue(r, t) PROVE JournalInv'
<1> DEFINE x == Recovered[t]
           entry == [NoRecord EXCEPT !.state = "queued", !.owner = r, !.ticket = nextTicket]
<1>1. /\ submission[r][t].pc = "idle" /\ x.state = "absent"
      /\ UNCHANGED <<poller, restarts>> /\ UNCHANGED providerVars
  BY DEF Enqueue, Driven
<1>2. /\ entry \in Record /\ entry.state = "queued" /\ entry.owner = r /\ entry.phase = "none"
      /\ ~entry.receipt /\ entry.pollLease = "none" /\ ~entry.outputs
  <2>1. nextTicket \in Nat
    BY TypesNow
  <2>2. QED
    BY <2>1 DEF NoRecord, Record, State
<1>3. CASE Persist(r, With(t, entry)) /\ nextTicket' = nextTicket + 1 /\ Goto(r, t, "starting")
  <2>1. /\ journal' \in [Task -> Record] /\ journal'[t] = entry
        /\ memory' \in [Runtime -> [Task -> State]] /\ faults' \in Nat
        /\ \A u \in Task \ {t} : journal'[u] = Recovered[u]
    BY <1>2, <1>3, Writing
  <2>2. /\ MovesAlone(r, t) /\ submission'[r][t].pc = "starting"
        /\ submission'[r][t].spawned = submission[r][t].spawned
    BY <1>3, Going, TypesNow
  <2>3. JournalTypeOK'
    BY <1>1, <1>3, <2>1, <2>2, TypesNow, TypesKept DEF providerVars, MovesAlone
  <2>4. /\ x \in Record /\ Valid(x) /\ Accounted(x, jobs[t], official[t]) /\ jobs[t] \in Nat
        /\ x.receipt = journal[t].receipt
        /\ \A q \in Runtime : submission[q][t] \in Submission /\ Drives(q, submission[q][t], x, jobs[t])
    BY TaskIsTyped, ClosedFields
  <2> HIDE DEF x, entry
  <2>5. ~journal[t].receipt /\ Valid(entry) /\ Accounted(entry, jobs[t], official[t])
    BY <1>1, <1>2, <2>4 DEF Valid, WellFormed, Accounted, Permitted
  <2>6. Drives(r, submission'[r][t], entry, jobs[t])
    BY <1>1, <1>2, <2>2, <2>4 DEF Drives
  <2>7. \A q \in Runtime \ {r} : Drives(q, submission[q][t], entry, jobs[t])
    BY <1>1, <1>2, <2>4, OneDriver, NobodyDrives
  <2>8. \A q \in Runtime \ {r} : submission[q][t].pc = "idle"
    BY <1>1, <2>4, OneDriver
  <2>9. PollsATask' /\ \A u \in Task : TaskInv(u)'
    BY <1>1, <2>1, <2>2, <2>5, <2>6, <2>7, <2>8, SubmissionStep DEF providerVars
  <2>10. QED
    BY <2>3, <2>9 DEF JournalInv
<1>4. CASE /\ faults' = faults + 1 /\ journal' = Recovered
           /\ memory' = [memory EXCEPT ![r] = States(Recovered)]
           /\ UNCHANGED <<nextTicket, submission>>
  <2>1. memory' \in [Runtime -> [Task -> State]] /\ journal' \in [Task -> Record]
    BY <1>4, TypesNow, RecoveredType, StatesType
  <2>2. JournalTypeOK'
    BY <1>1, <1>4, <2>1, TypesNow, TypesKept DEF providerVars
  <2>3. PollsATask' /\ \A u \in Task : TaskInv(u)'
    BY <1>1, <1>4, TaskIsTyped, KeptByAll DEF providerVars
  <2>4. QED
    BY <2>2, <2>3 DEF JournalInv
<1>5. QED
  BY <1>3, <1>4 DEF Enqueue

\* The file is left alone or reloaded.
StaysOrReloads(r) ==
    \/ UNCHANGED <<journal, memory, faults>>
    \/ UNCHANGED <<journal, memory>> /\ faults' = faults + 1
    \/ Reload(r)

\* A submission of a record that stays as it is.
LEMMA SubmissionStays ==
    ASSUME JournalInv, NEW r \in Runtime, NEW t \in Task, MovesAlone(r, t),
           StaysOrReloads(r), UNCHANGED <<nextTicket, poller, restarts>>, UNCHANGED providerVars,
           \/ submission'[r][t] = NoSubmission
           \/ submission[r][t].pc # "idle" /\ Drives(r, submission'[r][t], journal'[t], jobs[t])
    PROVE JournalInv'
<1>1. /\ journal' \in [Task -> Record]
      /\ memory' \in [Runtime -> [Task -> State]] /\ faults' \in Nat
  BY Reloading, TypesNow DEF StaysOrReloads
<1>2. \A u \in Task : journal'[u] = journal[u] \/ journal'[u] = Recovered[u]
  BY Reloading DEF StaysOrReloads
<1>3. JournalTypeOK'
  BY <1>1, TypesNow, TypesKept DEF providerVars, MovesAlone
<1>4. Keeps(journal[t], journal'[t])
  BY <1>2, TaskIsTyped, KeepsItself
<1>5. PollsATask' /\ \A u \in Task : TaskInv(u)'
  BY <1>1, <1>2, <1>4, KeptStep DEF providerVars
<1>6. QED
  BY <1>3, <1>5 DEF JournalInv

\* A submission whose record is written as y, which keeps what it was, or whose
\* writing fails.
LEMMA SubmissionWrites ==
    ASSUME JournalInv, NEW r \in Runtime, NEW t \in Task, MovesAlone(r, t), NEW y \in Record,
           Persist(r, With(t, y)) \/ FailToPersist(r, With(t, y)),
           Persist(r, With(t, y)) => Keeps(Recovered[t], y),
           UNCHANGED <<nextTicket, poller, restarts>>, UNCHANGED providerVars,
           \/ submission'[r][t] = NoSubmission
           \/ submission[r][t].pc # "idle" /\ Drives(r, submission'[r][t], journal'[t], jobs[t])
    PROVE JournalInv'
<1>1. /\ journal' \in [Task -> Record]
      /\ memory' \in [Runtime -> [Task -> State]] /\ faults' \in Nat
      /\ \A u \in Task \ {t} : journal'[u] = Recovered[u]
      /\ Persist(r, With(t, y)) => journal'[t] = y
      /\ FailToPersist(r, With(t, y)) => journal'[t] = Recovered[t]
  BY Writing
<1>2. JournalTypeOK'
  BY <1>1, TypesNow, TypesKept DEF providerVars, MovesAlone
<1>3. Keeps(journal[t], journal'[t])
  BY <1>1, TaskIsTyped, KeepsAll
<1>4. PollsATask' /\ \A u \in Task : TaskInv(u)'
  BY <1>1, <1>3, KeptStep DEF providerVars
<1>5. QED
  BY <1>2, <1>4 DEF JournalInv

LEMMA ReserveKeeps ==
    ASSUME JournalInv, NEW r \in Runtime, NEW t \in Task, Reserve(r, t) PROVE JournalInv'
<1> DEFINE x == Recovered[t]
           s == submission[r][t]
           reserved == [Unqueued(x) EXCEPT !.state = "pending", !.phase = "reserved", !.owner = r]
<1>1. /\ s.pc \in {"starting", "waiting"}
      /\ UNCHANGED <<nextTicket, poller, restarts>> /\ UNCHANGED providerVars
  BY DEF Reserve
<1>2. /\ x \in Record /\ Valid(x) /\ Drives(r, s, x, jobs[t]) /\ s \in Submission
  BY TaskIsTyped
<1>3. CASE ~Accepts(r) /\ Finish(r, t) /\ UNCHANGED <<journal, memory, faults>>
  BY <1>1, <1>3, Finishing, TypesNow, SubmissionStays DEF StaysOrReloads
<1>4. CASE Reload(r) /\ Finish(r, t)
  BY <1>1, <1>4, Finishing, TypesNow, SubmissionStays DEF StaysOrReloads
<1>5. CASE Reload(r) /\ Goto(r, t, "waiting")
  <2>1. /\ MovesAlone(r, t) /\ submission'[r][t].pc = "waiting"
        /\ submission'[r][t].spawned = s.spawned
    BY <1>5, Going, TypesNow
  <2>2. journal'[t] = x
    BY <1>5, Reloading
  <2>3. Drives(r, submission'[r][t], x, jobs[t])
    BY <1>1, <1>2, <2>1 DEF Drives
  <2>4. QED
    BY <1>1, <1>5, <2>1, <2>2, <2>3, SubmissionStays DEF StaysOrReloads
<1>6. CASE /\ x.state = "queued"
           /\ \/ Persist(r, With(t, reserved)) /\ Goto(r, t, "reserved")
              \/ FailToPersist(r, With(t, reserved)) /\ Finish(r, t)
  <2>1. /\ reserved \in Record /\ reserved.state = "pending" /\ reserved.phase = "reserved"
        /\ reserved.owner = r /\ reserved.receipt = x.receipt /\ reserved.outputs = x.outputs
        /\ reserved.pollLease = x.pollLease
    <3>1. "pending" \in State
      BY DEF State
    <3> DEFINE y == [Unqueued(x) EXCEPT !.state = "pending"]
    <3>2. /\ y \in Record /\ y.state = "pending" /\ y.receipt = x.receipt /\ y.outputs = x.outputs
          /\ y.pollLease = x.pollLease
      BY <1>2, <3>1, UnqueuedFields
    <3>3. reserved = [y EXCEPT !.phase = "reserved", !.owner = r]
      OBVIOUS
    <3> HIDE DEF y, reserved
    <3>4. QED
      BY <3>2, <3>3 DEF Record
  <2>2. x.owner = r
    BY <1>1, <1>2, <1>6 DEF Drives
  <2>3. Keeps(x, reserved)
    BY <1>2, <1>6, <2>1, <2>2, EntryIsReserved
  <2> HIDE DEF x, reserved
  <2>4. CASE Persist(r, With(t, reserved)) /\ Goto(r, t, "reserved")
    <3>1. /\ MovesAlone(r, t) /\ submission'[r][t].pc = "reserved"
          /\ submission'[r][t].spawned = s.spawned
      BY <2>4, Going, TypesNow
    <3>2. journal'[t] = reserved
      BY <2>1, <2>4, Writing
    <3>3. Drives(r, submission'[r][t], reserved, jobs[t])
      BY <1>1, <1>2, <2>1, <3>1 DEF Drives
    <3>4. QED
      BY <1>1, <2>1, <2>3, <2>4, <3>1, <3>2, <3>3, SubmissionWrites DEF x
  <2>5. CASE FailToPersist(r, With(t, reserved)) /\ Finish(r, t)
    BY <1>1, <2>1, <2>3, <2>5, Finishing, TypesNow, SubmissionWrites DEF x
  <2>6. QED
    BY <1>6, <2>4, <2>5
<1>7. QED
  BY <1>3, <1>4, <1>5, <1>6 DEF Reserve

LEMMA PrepareKeeps ==
    ASSUME JournalInv, NEW r \in Runtime, NEW t \in Task, Prepare(r, t) PROVE JournalInv'
<1> DEFINE s == submission[r][t]
           invoked == [pc |-> "invoked", spawned |-> FALSE, fenced |-> TRUE, account |-> accountNow]
<1>1. /\ s.pc = "reserved" /\ UNCHANGED <<journal, memory, faults>>
      /\ UNCHANGED <<nextTicket, poller, restarts>> /\ UNCHANGED providerVars
  BY DEF Prepare
<1>2. /\ journal[t] \in Record /\ Valid(journal[t]) /\ Drives(r, s, journal[t], jobs[t])
      /\ s \in Submission
  BY TaskIsTyped
<1>3. CASE submission' = [submission EXCEPT ![r][t] = invoked]
  <2>1. submission' = [submission EXCEPT ![r] = [submission[r] EXCEPT ![t] = invoked]]
    BY <1>3
  <2>2. invoked \in Submission
    BY TypesNow DEF Submission
  <2>3. MovesAlone(r, t) /\ submission'[r][t] = invoked
    BY <2>1, <2>2, TypesNow DEF MovesAlone
  <2>4. Drives(r, submission'[r][t], journal'[t], jobs[t])
    BY <1>1, <1>2, <2>3 DEF Drives
  <2>5. QED
    BY <1>1, <2>3, <2>4, SubmissionStays DEF StaysOrReloads
<1>4. CASE Goto(r, t, "failing")
  <2>1. /\ MovesAlone(r, t) /\ submission'[r][t].pc = "failing"
        /\ submission'[r][t].spawned = s.spawned
    BY <1>4, Going, TypesNow
  <2>2. Drives(r, submission'[r][t], journal'[t], jobs[t])
    BY <1>1, <1>2, <2>1 DEF Drives, Valid, WellFormed
  <2>3. QED
    BY <1>1, <2>1, <2>2, SubmissionStays DEF StaysOrReloads
<1>5. CASE Finish(r, t)
  BY <1>1, <1>5, Finishing, TypesNow, SubmissionStays DEF StaysOrReloads
<1>6. QED
  BY <1>3, <1>4, <1>5 DEF Prepare

LEMMA FenceKeeps ==
    ASSUME JournalInv, NEW r \in Runtime, NEW t \in Task, CommitInvocationFence(r, t)
    PROVE JournalInv'
<1> DEFINE x == Recovered[t]
           s == submission[r][t]
           permitted == [x EXCEPT !.phase = "spawn_permitted", !.account = s.account]
<1>1. /\ s.pc = "invoked"
      /\ UNCHANGED <<nextTicket, poller, restarts>> /\ UNCHANGED providerVars
  BY DEF CommitInvocationFence
<1>2. /\ x \in Record /\ Valid(x) /\ Drives(r, s, x, jobs[t]) /\ s \in Submission
      /\ Valid(journal[t]) /\ journal[t] \in Record /\ Drives(r, s, journal[t], jobs[t])
      /\ jobs[t] \in Nat /\ official[t] \in Status /\ Accounted(x, jobs[t], official[t])
      /\ x.receipt = journal[t].receipt
      /\ \A q \in Runtime : submission[q][t] \in Submission /\ Drives(q, submission[q][t], x, jobs[t])
  BY TaskIsTyped, ClosedFields
<1>3. CASE Goto(r, t, "failing") /\ UNCHANGED <<journal, memory, faults>>
  <2>1. /\ MovesAlone(r, t) /\ submission'[r][t].pc = "failing"
        /\ submission'[r][t].spawned = s.spawned
    BY <1>3, Going, TypesNow
  <2>2. Drives(r, submission'[r][t], journal'[t], jobs[t])
    BY <1>1, <1>2, <1>3, <2>1 DEF Drives, Valid, WellFormed
  <2>3. QED
    BY <1>1, <1>3, <2>1, <2>2, SubmissionStays DEF StaysOrReloads
<1>4. CASE Reload(r) /\ Finish(r, t)
  BY <1>1, <1>4, Finishing, TypesNow, SubmissionStays DEF StaysOrReloads
<1>5. CASE Reserves(r, t, x) /\ Persist(r, With(t, permitted)) /\ Goto(r, t, "permitted")
  <2>1. /\ permitted \in Record /\ permitted.phase = "spawn_permitted"
        /\ permitted.state = "pending" /\ permitted.owner = r /\ permitted.receipt = x.receipt
        /\ permitted.outputs = x.outputs /\ permitted.pollLease = x.pollLease
    <3>1. s.account \in AccountSession \cup {"none"}
      BY <1>2 DEF Submission
    <3>2. x.state = "pending" /\ x.owner = r
      BY <1>5 DEF Reserves
    <3> HIDE DEF x, s
    <3>3. QED
      BY <1>2, <3>1, <3>2 DEF Record
  <2>2. /\ MovesAlone(r, t) /\ submission'[r][t].pc = "permitted"
        /\ submission'[r][t].spawned = s.spawned
    BY <1>5, Going, TypesNow
  <2>3. /\ journal' \in [Task -> Record] /\ journal'[t] = permitted
        /\ memory' \in [Runtime -> [Task -> State]] /\ faults' \in Nat
        /\ \A u \in Task \ {t} : journal'[u] = Recovered[u]
    BY <1>5, <2>1, Writing
  <2>4. JournalTypeOK'
    BY <1>1, <2>2, <2>3, TypesNow, TypesKept DEF providerVars, MovesAlone
  <2>5. x.state = "pending" /\ x.owner = r /\ x.phase = "reserved"
    BY <1>1, <1>2, <1>5 DEF Reserves, Drives
  <2> HIDE DEF x, permitted
  <2>6. jobs[t] = 0 /\ ~x.receipt
    BY <1>2, <2>5 DEF Accounted, Permitted, Valid, WellFormed
  <2>7. Valid(permitted) /\ Accounted(permitted, jobs[t], official[t])
    BY <1>2, <2>1, <2>5, <2>6 DEF Valid, WellFormed, Accounted, Permitted
  <2>8. Drives(r, submission'[r][t], permitted, jobs[t])
    BY <1>1, <1>2, <2>1, <2>2, <2>6 DEF Drives, Permitted
  <2>9. \A q \in Runtime \ {r} : Drives(q, submission[q][t], permitted, jobs[t])
    BY <1>2, <2>1, <2>5, OneDriver, NobodyDrives
  <2>10. PollsATask' /\ \A u \in Task : TaskInv(u)'
    BY <1>1, <1>2, <2>2, <2>3, <2>6, <2>7, <2>8, <2>9, SubmissionStep DEF providerVars
  <2>11. QED
    BY <2>4, <2>10 DEF JournalInv
<1>6. CASE FailToPersist(r, With(t, permitted)) /\ Goto(r, t, "failing")
  <2>1. /\ MovesAlone(r, t) /\ submission'[r][t].pc = "failing"
        /\ submission'[r][t].spawned = s.spawned
    BY <1>6, Going, TypesNow
  <2>2. journal' = Recovered /\ faults' = faults + 1 /\ journal' \in [Task -> Record]
        /\ memory' = [memory EXCEPT ![r] = States(With(t, permitted))]
    BY <1>6, RecoveredType DEF FailToPersist
  <2>3. permitted \in Record
    <3>1. s.account \in AccountSession \cup {"none"}
      BY <1>2 DEF Submission
    <3> HIDE DEF x, s
    <3>2. QED
      BY <1>2, <3>1 DEF Record
  <2>4. Drives(r, submission'[r][t], journal'[t], jobs[t])
    BY <1>1, <1>2, <2>1, <2>2 DEF Drives, Valid, WellFormed
  <2> HIDE DEF x, permitted
  <2>5. Persist(r, With(t, permitted)) => Keeps(Recovered[t], permitted)
    BY <2>2, TypesNow DEF Persist
  <2>6. QED
    BY <1>1, <1>6, <2>1, <2>3, <2>4, <2>5, SubmissionWrites
<1>7. QED
  BY <1>3, <1>4, <1>5, <1>6 DEF CommitInvocationFence

LEMMA SpawnKeeps ==
    ASSUME JournalInv, NEW r \in Runtime, NEW t \in Task, Spawn(r, t) PROVE JournalInv'
<1> DEFINE x == journal[t]
           s == submission[r][t]
<1>1. /\ s.pc = "permitted"
      /\ UNCHANGED <<journal, nextTicket, memory, poller, accountNow, faults, restarts, switches>>
  BY DEF Spawn
<1>2. /\ s \in Submission /\ x \in Record /\ Valid(x) /\ Drives(r, s, x, jobs[t])
      /\ jobs[t] \in Nat /\ Accounted(x, jobs[t], official[t])
      /\ \A q \in Runtime : submission[q][t] \in Submission /\ Drives(q, submission[q][t], x, jobs[t])
  BY TaskIsTyped
<1>3. jobs[t] = 0 /\ Permitted(x) /\ ~s.spawned /\ ~x.receipt
  BY <1>1, <1>2 DEF Drives, Accounted
<1>4. CASE Goto(r, t, "failing") /\ UNCHANGED <<jobs, official>>
  <2>1. /\ MovesAlone(r, t) /\ submission'[r][t].pc = "failing"
        /\ submission'[r][t].spawned = s.spawned
    BY <1>4, Going, TypesNow
  <2>2. Drives(r, submission'[r][t], journal'[t], jobs[t])
    BY <1>1, <1>2, <1>3, <2>1 DEF Drives
  <2>3. QED
    BY <1>1, <1>4, <2>1, <2>2, SubmissionStays DEF StaysOrReloads, providerVars
<1>5. ASSUME NEW made \in BOOLEAN, NEW receipt \in BOOLEAN, receipt => made,
             submission' = [submission EXCEPT ![r][t].pc = IF receipt THEN "sent" ELSE "failing",
                                              ![r][t].spawned = TRUE],
             jobs' = [jobs EXCEPT ![t] = IF made THEN @ + 1 ELSE @],
             official' = [official EXCEPT ![t] = IF made THEN "pending" ELSE @]
      PROVE JournalInv'
  <2> DEFINE pc == IF receipt THEN "sent" ELSE "failing"
             after == [[s EXCEPT !.pc = pc] EXCEPT !.spawned = TRUE]
  <2>1. after \in Submission /\ after.pc = pc /\ after.spawned
    BY <1>2 DEF Submission
  <2>2. submission' = [submission EXCEPT ![r] = [submission[r] EXCEPT ![t] = after]]
    BY <1>5, TypesNow
  <2> HIDE DEF after
  <2>3. MovesAlone(r, t) /\ submission'[r][t] = after
    BY <2>1, <2>2, TypesNow DEF MovesAlone
  <2>4. /\ jobs'[t] = (IF made THEN 1 ELSE 0) /\ official'[t] = (IF made THEN "pending" ELSE official[t])
        /\ \A u \in Task \ {t} : jobs'[u] = jobs[u] /\ official'[u] = official[u]
        /\ jobs' \in [Task -> Nat] /\ official' \in [Task -> Status]
    BY <1>3, <1>5, TypesNow DEF Status
  <2>5. JournalTypeOK'
    BY <1>1, <2>3, <2>4, TypesNow, TypesKept DEF MovesAlone
  <2>6. Accounted(x, jobs'[t], official'[t])
    BY <1>2, <1>3, <2>4 DEF Accounted
  <2>7. Drives(r, submission'[r][t], x, jobs'[t])
    BY <1>1, <1>2, <1>3, <1>5, <2>1, <2>3, <2>4 DEF Drives
  <2>8. ASSUME NEW q \in Runtime, q # r PROVE Drives(q, submission[q][t], x, jobs'[t])
    <3>1. submission[q][t].pc = "idle"
      BY <1>1, <2>8 DEF JournalInv, TaskInv, DrivenOnce
    <3>2. ~submission[q][t].spawned
      BY <1>2, <3>1 DEF Drives
    <3>3. QED
      BY <3>1, <3>2 DEF Drives
  <2>9. PollsATask' /\ \A u \in Task : TaskInv(u)'
    BY <1>1, <1>2, <1>3, <2>3, <2>4, <2>6, <2>7, <2>8, TypesNow, SubmissionStep
  <2>10. QED
    BY <2>5, <2>9 DEF JournalInv
<1>6. QED
  BY <1>4, <1>5 DEF Spawn

LEMMA AcceptedKeeps ==
    ASSUME JournalInv, NEW r \in Runtime, NEW t \in Task, CommitAcceptedReceipt(r, t)
    PROVE JournalInv'
<1> DEFINE x == Recovered[t]
           s == submission[r][t]
           accepted == [Unreserved(x) EXCEPT !.state = "accepted", !.receipt = TRUE]
<1>1. /\ s.pc = "sent"
      /\ UNCHANGED <<nextTicket, poller, restarts>> /\ UNCHANGED providerVars
  BY DEF CommitAcceptedReceipt
<1>2. /\ x \in Record /\ Valid(x) /\ Drives(r, s, x, jobs[t]) /\ s \in Submission
      /\ Valid(journal[t]) /\ journal[t] \in Record /\ Drives(r, s, journal[t], jobs[t])
      /\ jobs[t] \in Nat /\ official[t] \in Status /\ Accounted(x, jobs[t], official[t])
      /\ x.receipt = journal[t].receipt
      /\ \A q \in Runtime : submission[q][t] \in Submission /\ Drives(q, submission[q][t], x, jobs[t])
  BY TaskIsTyped, ClosedFields
<1>3. CASE Finish(r, t) /\ UNCHANGED <<journal, memory, faults>>
  BY <1>1, <1>3, Finishing, TypesNow, SubmissionStays DEF StaysOrReloads
<1>4. CASE Goto(r, t, "failing") /\ UNCHANGED <<journal, memory, faults>>
  <2>1. /\ MovesAlone(r, t) /\ submission'[r][t].pc = "failing"
        /\ submission'[r][t].spawned = s.spawned
    BY <1>4, Going, TypesNow
  <2>2. Drives(r, submission'[r][t], journal'[t], jobs[t])
    BY <1>1, <1>2, <1>4, <2>1 DEF Drives
  <2>3. QED
    BY <1>1, <1>4, <2>1, <2>2, SubmissionStays DEF StaysOrReloads
<1>5. CASE Reload(r) /\ Finish(r, t)
  BY <1>1, <1>5, Finishing, TypesNow, SubmissionStays DEF StaysOrReloads
<1>6. accepted \in Record /\ accepted.state = "accepted" /\ accepted.receipt
      /\ accepted.phase = "none" /\ accepted.outputs = x.outputs
  <2>1. Unreserved(x) \in Record
    BY <1>2 DEF Unreserved, Record
  <2>2. accepted \in Record
    BY <2>1 DEF Record, State
  <2>3. QED
    BY <1>2, <2>2 DEF Record, Unreserved
<1>7. CASE Reserves(r, t, x) /\ Persist(r, With(t, accepted)) /\ Goto(r, t, "accepted")
  <2>1. /\ MovesAlone(r, t) /\ submission'[r][t].pc = "accepted"
        /\ submission'[r][t].spawned = s.spawned
    BY <1>7, Going, TypesNow
  <2>2. /\ journal' \in [Task -> Record] /\ journal'[t] = accepted
        /\ memory' \in [Runtime -> [Task -> State]] /\ faults' \in Nat
        /\ \A u \in Task \ {t} : journal'[u] = Recovered[u]
    BY <1>6, <1>7, Writing
  <2>3. JournalTypeOK'
    BY <1>1, <2>1, <2>2, TypesNow, TypesKept DEF providerVars, MovesAlone
  <2>4. x.state = "pending" /\ x.owner = r /\ jobs[t] = 1 /\ s.spawned
    BY <1>1, <1>2, <1>7 DEF Reserves, Drives
  <2> HIDE DEF x, accepted
  <2>5. Valid(accepted) /\ Accounted(accepted, jobs[t], official[t])
    BY <1>2, <1>6, <2>4 DEF Valid, WellFormed, Accounted
  <2>6. Drives(r, submission'[r][t], accepted, jobs[t])
    BY <1>6, <2>1, <2>4 DEF Drives
  <2>7. \A q \in Runtime \ {r} : Drives(q, submission[q][t], accepted, jobs[t])
    BY <1>2, <1>6, <2>4, OneDriver, NobodyDrives
  <2>8. ~journal[t].receipt
    BY <1>2, <2>4 DEF Valid, WellFormed
  <2>9. PollsATask' /\ \A u \in Task : TaskInv(u)'
    BY <1>1, <2>1, <2>2, <2>5, <2>6, <2>7, <2>8, SubmissionStep DEF providerVars
  <2>10. QED
    BY <2>3, <2>9 DEF JournalInv
<1>8. CASE FailToPersist(r, With(t, accepted)) /\ Goto(r, t, "failing")
  <2>1. /\ MovesAlone(r, t) /\ submission'[r][t].pc = "failing"
        /\ submission'[r][t].spawned = s.spawned
    BY <1>8, Going, TypesNow
  <2>2. journal' = Recovered /\ faults' = faults + 1
    BY <1>8 DEF FailToPersist
  <2>3. Drives(r, submission'[r][t], journal'[t], jobs[t])
    BY <1>1, <1>2, <2>1, <2>2 DEF Drives
  <2> HIDE DEF x, accepted
  <2>4. Persist(r, With(t, accepted)) => Keeps(Recovered[t], accepted)
    BY <2>2, TypesNow DEF Persist
  <2>5. QED
    BY <1>1, <1>6, <1>8, <2>1, <2>3, <2>4, SubmissionWrites
<1>9. QED
  BY <1>3, <1>4, <1>5, <1>7, <1>8 DEF CommitAcceptedReceipt

LEMMA ReleaseKeeps ==
    ASSUME JournalInv, NEW r \in Runtime, NEW t \in Task, ReleaseInvocation(r, t)
    PROVE JournalInv'
<1> DEFINE s == submission[r][t]
<1>1. /\ s.pc = "accepted"
      /\ UNCHANGED <<journal, nextTicket, memory, poller, restarts>> /\ UNCHANGED providerVars
      /\ UNCHANGED faults \/ faults' = faults + 1
      /\ \E pc \in {"scheduling", "failing"} : Goto(r, t, pc)
  BY DEF ReleaseInvocation
<1>2. PICK pc \in {"scheduling", "failing"} : Goto(r, t, pc)
  BY <1>1
<1>3. /\ MovesAlone(r, t) /\ submission'[r][t].pc = pc /\ submission'[r][t].spawned = s.spawned
  BY <1>2, Going, TypesNow
<1>4. Drives(r, s, journal[t], jobs[t])
  BY TaskIsTyped
<1>5. Drives(r, submission'[r][t], journal'[t], jobs[t])
  BY <1>1, <1>2, <1>3, <1>4 DEF Drives
<1>6. QED
  BY <1>1, <1>3, <1>5, SubmissionStays DEF StaysOrReloads

LEMMA FailureKeeps ==
    ASSUME JournalInv, NEW r \in Runtime, NEW t \in Task, CommitSubmissionFailure(r, t)
    PROVE JournalInv'
<1> DEFINE x == Recovered[t]
           s == submission[r][t]
           unknown == [Unreserved(x) EXCEPT !.state = "unknown"]
<1>1. /\ s.pc = "failing"
      /\ UNCHANGED <<nextTicket, poller, restarts>> /\ UNCHANGED providerVars
  BY DEF CommitSubmissionFailure
<1>2. /\ x \in Record /\ Valid(x) /\ Drives(r, s, x, jobs[t]) /\ s \in Submission
      /\ Drives(r, s, journal[t], jobs[t])
      /\ jobs[t] \in Nat /\ official[t] \in Status /\ Accounted(x, jobs[t], official[t])
      /\ x.receipt = journal[t].receipt
      /\ \A q \in Runtime : submission[q][t] \in Submission /\ Drives(q, submission[q][t], x, jobs[t])
  BY TaskIsTyped, ClosedFields
<1>3. CASE /\ Goto(r, t, "closing") /\ UNCHANGED <<journal, memory>>
           /\ faults' = faults + 1 \/ UNCHANGED faults
  <2>1. /\ MovesAlone(r, t) /\ submission'[r][t].pc = "closing"
        /\ submission'[r][t].spawned = s.spawned
    BY <1>3, Going, TypesNow
  <2>2. Drives(r, submission'[r][t], journal'[t], jobs[t])
    BY <1>1, <1>2, <1>3, <2>1 DEF Drives
  <2>3. QED
    BY <1>1, <1>3, <2>1, <2>2, SubmissionStays DEF StaysOrReloads
<1>4. CASE Reload(r) /\ Finish(r, t)
  BY <1>1, <1>4, Finishing, TypesNow, SubmissionStays DEF StaysOrReloads
<1>5. CASE Reserves(r, t, x) /\ s.spawned /\ Persist(r, With(t, unknown)) /\ Finish(r, t)
  <2>1. unknown \in Record /\ unknown.state = "unknown" /\ unknown.phase = "none"
        /\ unknown.receipt = x.receipt /\ unknown.outputs = x.outputs
        /\ unknown.pollLease = x.pollLease
    <3>1. Unreserved(x) \in Record
      BY <1>2 DEF Unreserved, Record
    <3>2. unknown \in Record
      BY <3>1 DEF Record, State
    <3>3. QED
      BY <1>2, <3>2 DEF Record, Unreserved
  <2>2. x.state = "pending"
    BY <1>5 DEF Reserves
  <2> HIDE DEF x, unknown
  <2>3. Keeps(x, unknown)
    BY <1>2, <2>1, <2>2, PermittedEnds
  <2>4. QED
    BY <1>1, <1>5, <2>1, <2>3, Finishing, TypesNow, SubmissionWrites DEF x
<1>6. CASE Reserves(r, t, x) /\ ~s.spawned /\ Persist(r, With(t, NoRecord)) /\ Finish(r, t)
  <2>1. NoRecord \in Record /\ NoRecord.state = "absent" /\ ~NoRecord.receipt
        /\ NoRecord.phase = "none" /\ ~NoRecord.outputs /\ NoRecord.pollLease = "none"
    BY DEF NoRecord, Record, State
  <2>2. MovesAlone(r, t) /\ submission'[r][t] = NoSubmission
    BY <1>6, Finishing, TypesNow
  <2>3. /\ journal' \in [Task -> Record] /\ journal'[t] = NoRecord
        /\ memory' \in [Runtime -> [Task -> State]] /\ faults' \in Nat
        /\ \A u \in Task \ {t} : journal'[u] = Recovered[u]
    BY <1>6, <2>1, Writing
  <2>4. JournalTypeOK'
    BY <1>1, <2>2, <2>3, TypesNow, TypesKept DEF providerVars, MovesAlone
  <2>5. x.state = "pending" /\ x.owner = r
    BY <1>6 DEF Reserves
  <2> HIDE DEF x
  <2>6. ~x.receipt /\ jobs[t] = 0
    BY <1>1, <1>2, <1>6, <2>5 DEF Valid, WellFormed, Accounted, Permitted, Drives
  <2>7. Valid(NoRecord) /\ Accounted(NoRecord, jobs[t], official[t])
    BY <1>2, <2>1, <2>6 DEF Valid, WellFormed, Accounted
  <2>8. Drives(r, submission'[r][t], NoRecord, jobs[t])
    BY <1>2, <2>1, <2>2, NoSubmissionIsOne, NobodyDrives
  <2>9. \A q \in Runtime \ {r} : Drives(q, submission[q][t], NoRecord, jobs[t])
    BY <1>2, <2>1, <2>5, OneDriver, NobodyDrives
  <2>10. PollsATask' /\ \A u \in Task : TaskInv(u)'
    BY <1>1, <1>2, <2>2, <2>3, <2>6, <2>7, <2>8, <2>9, SubmissionStep DEF providerVars
  <2>11. QED
    BY <2>4, <2>10 DEF JournalInv
<1>7. QED
  BY <1>3, <1>4, <1>5, <1>6 DEF CommitSubmissionFailure

LEMMA ScheduleKeeps ==
    ASSUME JournalInv, NEW r \in Runtime, NEW t \in Task, Schedule(r, t) PROVE JournalInv'
<1> DEFINE due == [journal[t] EXCEPT !.due = @ \/ Eligible(journal[t])]
<1>1. /\ Finish(r, t) /\ UNCHANGED <<nextTicket, memory, poller, restarts>> /\ UNCHANGED providerVars
  BY DEF Schedule
<1>2. MovesAlone(r, t) /\ submission'[r][t] = NoSubmission
  BY <1>1, Finishing, TypesNow
<1>3. CASE UNCHANGED journal /\ faults' = faults + 1
  BY <1>1, <1>2, <1>3, SubmissionStays DEF StaysOrReloads
<1>4. CASE journal' = [journal EXCEPT ![t].due = @ \/ Eligible(journal[t])] /\ UNCHANGED faults
  <2>1. /\ due \in Record /\ due.state = journal[t].state /\ due.phase = journal[t].phase
        /\ due.receipt = journal[t].receipt /\ due.outputs = journal[t].outputs
        /\ due.owner = journal[t].owner /\ due.pollLease = journal[t].pollLease
    <3>1. journal[t] \in Record /\ (journal[t].due \/ Eligible(journal[t])) \in BOOLEAN
      BY TaskIsTyped DEF Record, Eligible
    <3>2. QED
      BY <3>1 DEF Record
  <2>2. journal' = [journal EXCEPT ![t] = due]
    BY <1>4
  <2> HIDE DEF due
  <2>3. /\ journal' \in [Task -> Record] /\ journal'[t] = due
        /\ \A u \in Task \ {t} : journal'[u] = journal[u]
    BY <2>1, <2>2, TypesNow
  <2>4. Keeps(journal[t], due)
    BY <2>1, TaskIsTyped, MarksKeep DEF Valid
  <2>5. PollsATask' /\ \A u \in Task : TaskInv(u)'
    BY <1>1, <1>2, <2>3, <2>4, KeptStep DEF providerVars
  <2>6. JournalTypeOK'
    BY <1>1, <1>2, <1>4, <2>3, TypesNow, TypesKept DEF providerVars, MovesAlone
  <2>7. QED
    BY <2>5, <2>6 DEF JournalInv
<1>5. QED
  BY <1>3, <1>4 DEF Schedule

\* An operation of a user or a process that ends submissions and keeps records.
LEMMA RecordsKept ==
    ASSUME JournalInv, journal' \in [Task -> Record], memory' \in [Runtime -> [Task -> State]],
           \A u \in Task : Keeps(journal[u], journal'[u]),
           submission' \in [Runtime -> [Task -> Submission]],
           \A q \in Runtime, u \in Task :
              submission'[q][u] = submission[q][u] \/ submission'[q][u] = NoSubmission,
           poller' \in [Runtime -> Poll],
           \A q \in Runtime : \/ poller'[q] = poller[q]
                              \/ poller'[q].pc \notin {"observing", "observed", "erring"},
           UNCHANGED <<nextTicket, accountNow, jobs, official, switches>>,
           faults' \in Nat, restarts' \in Nat
    PROVE JournalInv'
<1>1. JournalTypeOK'
  BY TypesNow, TypesKept
<1>2. PollsATask' /\ \A u \in Task : TaskInv(u)'
  BY KeptByAll
<1>3. QED
  BY <1>1, <1>2 DEF JournalInv

LEMMA FinishOrStay ==
    ASSUME JournalInv, NEW r \in Runtime, NEW t \in Task, Finish(r, t) \/ UNCHANGED submission
    PROVE /\ submission' \in [Runtime -> [Task -> Submission]]
          /\ \A q \in Runtime, u \in Task :
                submission'[q][u] = submission[q][u] \/ submission'[q][u] = NoSubmission
<1>1. CASE Finish(r, t)
  BY <1>1, Finishing, TypesNow DEF MovesAlone
<1>2. CASE UNCHANGED submission
  BY <1>2, TypesNow
<1>3. QED
  BY <1>1, <1>2

LEMMA ReloadedKept ==
    ASSUME JournalInv, journal' = Recovered
    PROVE journal' \in [Task -> Record] /\ \A u \in Task : Keeps(journal[u], journal'[u])
  BY RecoveredType, TaskIsTyped

LEMMA WrittenKept ==
    ASSUME JournalInv, NEW r \in Runtime, NEW t \in Task, NEW y \in Record,
           Persist(r, With(t, y)) \/ FailToPersist(r, With(t, y)), Keeps(Recovered[t], y)
    PROVE /\ journal' \in [Task -> Record] /\ memory' \in [Runtime -> [Task -> State]]
          /\ faults' \in Nat
          /\ \A u \in Task : Keeps(journal[u], journal'[u])
<1>1. /\ journal' \in [Task -> Record]
      /\ memory' \in [Runtime -> [Task -> State]] /\ faults' \in Nat
      /\ \A u \in Task \ {t} : journal'[u] = Recovered[u]
      /\ journal'[t] = y \/ journal'[t] = Recovered[t]
  BY Writing
<1>2. Keeps(journal[t], journal'[t])
  BY <1>1, TaskIsTyped, KeepsAll
<1>3. ASSUME NEW u \in Task, u # t PROVE Keeps(journal[u], journal'[u])
  BY <1>1, <1>3, TaskIsTyped
<1>4. QED
  BY <1>1, <1>2, <1>3

\* A refused write stays in memory.
LEMMA RefusedKept ==
    ASSUME JournalInv, NEW r \in Runtime, NEW t \in Task, NEW y \in Record,
           journal' = Recovered, memory' = [memory EXCEPT ![r] = States(With(t, y))]
    PROVE /\ journal' \in [Task -> Record] /\ memory' \in [Runtime -> [Task -> State]]
          /\ \A u \in Task : Keeps(journal[u], journal'[u])
<1>1. With(t, y) \in [Task -> Record]
  BY RecoveredType DEF With
<1>2. memory' \in [Runtime -> [Task -> State]]
  BY <1>1, StatesType, TypesNow
<1>3. QED
  BY <1>2, ReloadedKept

LEMMA FailTaskKeeps ==
    ASSUME JournalInv, NEW r \in Runtime, NEW t \in Task, FailTask(r, t) PROVE JournalInv'
<1> DEFINE x == Recovered[t]
           failed == [Unqueued(x) EXCEPT !.state = "failed"]
<1>1. /\ Finish(r, t) /\ UNCHANGED <<nextTicket, poller, restarts>> /\ UNCHANGED providerVars
  BY DEF FailTask
<1>2. /\ submission' \in [Runtime -> [Task -> Submission]]
      /\ \A q \in Runtime, u \in Task :
            submission'[q][u] = submission[q][u] \/ submission'[q][u] = NoSubmission
  BY <1>1, FinishOrStay
<1>3. /\ journal' \in [Task -> Record] /\ memory' \in [Runtime -> [Task -> State]]
      /\ \A u \in Task : Keeps(journal[u], journal'[u])
      /\ faults' \in Nat
  <2>1. CASE UNCHANGED <<journal, memory, faults>>
    BY <2>1, TypesNow, TaskIsTyped, KeepsItself
  <2>2. CASE x.state \in Terminal /\ Reload(r)
    BY <2>2, Reloading, ReloadedKept
  <2>3. /\ x \in Record /\ Valid(x) /\ "failed" \in State
    BY TaskIsTyped DEF State
  <2>4. /\ failed \in Record /\ failed.state = "failed" /\ failed.phase = x.phase
        /\ failed.receipt = x.receipt /\ failed.outputs = x.outputs
        /\ failed.pollLease = x.pollLease
    BY <2>3, UnqueuedFields
  <2>5. CASE /\ memory[r][t] # "absent" /\ Accepts(r)
             /\ x.state \notin Terminal /\ WellFormed([x EXCEPT !.state = "failed"])
             /\ Persist(r, With(t, failed))
    <3>1. x.state # "absent"
      BY <2>5 DEF Accepts
    <3>2. x.phase = "none" /\ ~x.outputs
      BY <2>3, <2>5 DEF WellFormed, Record
    <3> HIDE DEF x, failed
    <3>3. x.state \in {"queued", "accepted"}
      BY <2>3, <2>5, <3>1, <3>2 DEF Valid, WellFormed, Terminal, Record, State
    <3>4. CASE x.state = "queued"
      BY <2>3, <2>4, <3>4, EntryEnds, <2>5, WrittenKept DEF x
    <3>5. CASE x.state = "accepted"
      <4>1. Valid(failed) /\ x.receipt /\ failed.receipt
        BY <2>3, <2>4, <3>2, <3>5 DEF Valid, WellFormed
      <4>2. Keeps(x, failed)
        BY <2>3, <2>4, <4>1, ReceiptKeeps
      <4>3. QED
        BY <2>4, <2>5, <4>2, WrittenKept DEF x
    <3>6. QED
      BY <3>3, <3>4, <3>5
  <2>6. CASE /\ journal' = Recovered /\ UNCHANGED faults
             /\ memory' = [memory EXCEPT ![r] = States(With(t, failed))]
    BY <2>4, <2>6, RefusedKept, TypesNow
  <2>7. QED
    BY <2>1, <2>2, <2>5, <2>6 DEF FailTask, TransitionTask
<1>4. QED
  BY <1>1, <1>2, <1>3, TypesNow, RecordsKept DEF providerVars

LEMMA CancelKeeps ==
    ASSUME JournalInv, NEW r \in Runtime, NEW t \in Task, Cancel(r, t) PROVE JournalInv'
<1> DEFINE x == Recovered[t]
           cancelled == [Unqueued(x) EXCEPT !.state = "cancelled"]
<1>1. /\ x.state = "queued"
      /\ Finish(r, t) \/ UNCHANGED submission
      /\ Persist(r, With(t, cancelled)) \/ FailToPersist(r, With(t, cancelled))
      /\ UNCHANGED <<nextTicket, poller, restarts>> /\ UNCHANGED providerVars
  BY DEF Cancel
<1>2. x \in Record /\ Valid(x) /\ "cancelled" \in State
  BY TaskIsTyped DEF State
<1>3. /\ cancelled \in Record /\ cancelled.state = "cancelled" /\ cancelled.phase = x.phase
      /\ cancelled.receipt = x.receipt /\ cancelled.outputs = x.outputs
      /\ cancelled.pollLease = x.pollLease
  BY <1>2, UnqueuedFields
<1> HIDE DEF x, cancelled
<1>4. Keeps(x, cancelled)
  BY <1>1, <1>2, <1>3, EntryEnds
<1>5. /\ journal' \in [Task -> Record] /\ memory' \in [Runtime -> [Task -> State]]
      /\ \A u \in Task : Keeps(journal[u], journal'[u])
      /\ faults' \in Nat
  BY <1>1, <1>3, <1>4, WrittenKept DEF x
<1>6. /\ submission' \in [Runtime -> [Task -> Submission]]
      /\ \A q \in Runtime, u \in Task :
            submission'[q][u] = submission[q][u] \/ submission'[q][u] = NoSubmission
  BY <1>1, FinishOrStay
<1>7. QED
  BY <1>1, <1>5, <1>6, TypesNow, RecordsKept DEF providerVars

LEMMA DeleteKeeps ==
    ASSUME JournalInv, NEW r \in Runtime, NEW t \in Task, Delete(r, t) PROVE JournalInv'
<1> DEFINE x == Recovered[t]
           before == x.state = "queued" \/ x.phase = "reserved"
           gone == [x EXCEPT !.state = "deleted", !.ticket = 0,
                             !.owner = IF x.state = "queued" THEN "none" ELSE @]
           hidden == [x EXCEPT !.hidden = TRUE]
           after == IF before THEN gone ELSE hidden
<1>1. /\ Finish(r, t) \/ UNCHANGED submission
      /\ UNCHANGED <<nextTicket, poller, restarts>> /\ UNCHANGED providerVars
      /\ \/ WellFormed(after) /\ Persist(r, With(t, after))
         \/ /\ journal' = Recovered /\ memory' = [memory EXCEPT ![r] = States(With(t, after))]
            /\ UNCHANGED faults
  BY DEF Delete
<1>2. x \in Record /\ Valid(x)
  BY TaskIsTyped
<1>3. /\ gone \in Record /\ gone.state = "deleted" /\ gone.phase = x.phase
      /\ gone.receipt = x.receipt /\ gone.outputs = x.outputs /\ gone.pollLease = x.pollLease
  <2> DEFINE owner == IF x.state = "queued" THEN "none" ELSE x.owner
             untaken == [x EXCEPT !.state = "deleted", !.ticket = 0]
  <2>1. owner \in Runtime \cup {"none", "gone"}
    BY <1>2 DEF Record
  <2>2. gone = [untaken EXCEPT !.owner = owner]
    OBVIOUS
  <2>3. /\ untaken \in Record /\ untaken.state = "deleted" /\ untaken.phase = x.phase
        /\ untaken.receipt = x.receipt /\ untaken.outputs = x.outputs
        /\ untaken.pollLease = x.pollLease
    BY <1>2 DEF Record, State
  <2> HIDE DEF owner, untaken, gone
  <2>4. QED
    BY <2>1, <2>2, <2>3 DEF Record
<1>4. /\ hidden \in Record /\ hidden.state = x.state /\ hidden.phase = x.phase
      /\ hidden.receipt = x.receipt /\ hidden.outputs = x.outputs
      /\ hidden.pollLease = x.pollLease /\ hidden.owner = x.owner
  BY <1>2 DEF Record
<1>5. after \in Record
  BY <1>3, <1>4
<1>6. WellFormed(after) => Keeps(x, after)
  <2> HIDE DEF x, gone, hidden
  <2>1. CASE before /\ WellFormed(after)
    <3>1. x.state = "queued"
      BY <1>2, <1>3, <2>1 DEF WellFormed
    <3>2. QED
      BY <1>2, <1>3, <2>1, <3>1, EntryEnds
  <2>2. CASE ~before
    BY <1>2, <1>4, <2>2, MarksKeep DEF Valid
  <2>3. QED
    BY <2>1, <2>2
<1> HIDE DEF x, after
<1>7. /\ journal' \in [Task -> Record] /\ memory' \in [Runtime -> [Task -> State]]
      /\ \A u \in Task : Keeps(journal[u], journal'[u])
      /\ faults' \in Nat
  <2>1. CASE WellFormed(after) /\ Persist(r, With(t, after))
    BY <1>5, <1>6, <2>1, WrittenKept DEF x
  <2>2. CASE /\ journal' = Recovered /\ memory' = [memory EXCEPT ![r] = States(With(t, after))]
             /\ UNCHANGED faults
    BY <1>5, <2>2, RefusedKept, TypesNow
  <2>3. QED
    BY <1>1, <2>1, <2>2
<1>8. /\ submission' \in [Runtime -> [Task -> Submission]]
      /\ \A q \in Runtime, u \in Task :
            submission'[q][u] = submission[q][u] \/ submission'[q][u] = NoSubmission
  BY <1>1, FinishOrStay
<1>9. QED
  BY <1>1, <1>7, <1>8, TypesNow, RecordsKept DEF providerVars

\* What ends with a process.
LEMMA ProcessEnds ==
    ASSUME JournalInv, NEW r \in Runtime,
           memory' = [memory EXCEPT ![r] = [t \in Task |-> "absent"]],
           submission' = [submission EXCEPT ![r] = [t \in Task |-> NoSubmission]],
           poller' = [poller EXCEPT ![r] = [IdlePoller EXCEPT !.pc = "off"]]
    PROVE /\ memory' \in [Runtime -> [Task -> State]]
          /\ submission' \in [Runtime -> [Task -> Submission]]
          /\ \A q \in Runtime, u \in Task :
                submission'[q][u] = submission[q][u] \/ submission'[q][u] = NoSubmission
          /\ \A u \in Task : submission'[r][u] = NoSubmission
          /\ poller' \in [Runtime -> Poll]
          /\ \A q \in Runtime : \/ poller'[q] = poller[q]
                                \/ poller'[q].pc \notin {"observing", "observed", "erring"}
<1>1. [t \in Task |-> "absent"] \in [Task -> State]
  BY DEF State
<1>2. [t \in Task |-> NoSubmission] \in [Task -> Submission]
  BY NoSubmissionIsOne
<1>3. [IdlePoller EXCEPT !.pc = "off"] \in Poll /\ [IdlePoller EXCEPT !.pc = "off"].pc = "off"
  BY DEF IdlePoller, Poll
<1>4. QED
  BY <1>1, <1>2, <1>3, TypesNow

LEMMA DisposeKeeps == ASSUME JournalInv, NEW r \in Runtime, Dispose(r) PROVE JournalInv'
<1> DEFINE own(t) == OwnQueueClosed(r)[t]
           after(t) == [own(t) EXCEPT !.pollLease = IF @ = r THEN "none" ELSE @]
<1>1. /\ restarts' = restarts + 1 /\ UNCHANGED <<nextTicket, faults>> /\ UNCHANGED providerVars
      /\ journal' = [t \in Task |-> after(t)]
      /\ memory' = [memory EXCEPT ![r] = [t \in Task |-> "absent"]]
      /\ submission' = [submission EXCEPT ![r] = [t \in Task |-> NoSubmission]]
      /\ poller' = [poller EXCEPT ![r] = [IdlePoller EXCEPT !.pc = "off"]]
  BY DEF Dispose
<1>2. ASSUME NEW t \in Task PROVE after(t) \in Record /\ Keeps(journal[t], after(t))
  <2> DEFINE x == Recovered[t]
             y == own(t)
  <2>1. journal[t] \in Record /\ Keeps(journal[t], x) /\ x \in Record /\ Valid(x)
    BY TaskIsTyped
  <2>2. y \in Record /\ Keeps(x, y) /\ Valid(y)
    <3>1. CASE x.state = "queued" /\ x.owner = r
      <4>1. y = [Unqueued(x) EXCEPT !.state = "failed"]
        BY <3>1 DEF OwnQueueClosed
      <4>2. "failed" \in State
        BY DEF State
      <4> HIDE DEF y
      <4>3. /\ y \in Record /\ y.state = "failed" /\ y.phase = x.phase
            /\ y.receipt = x.receipt /\ y.outputs = x.outputs /\ y.pollLease = x.pollLease
        BY <2>1, <4>1, <4>2, UnqueuedFields
      <4>4. Keeps(x, y)
        BY <2>1, <3>1, <4>3, EntryEnds
      <4>5. QED
        BY <4>3, <4>4 DEF Keeps
    <3>2. CASE ~(x.state = "queued" /\ x.owner = r)
      <4>1. y = x
        BY <3>2 DEF OwnQueueClosed
      <4>2. QED
        BY <2>1, <4>1, KeepsItself
    <3>3. QED
      BY <3>1, <3>2
  <2> HIDE DEF x, y, own
  <2> DEFINE lease == IF y.pollLease = r THEN "none" ELSE y.pollLease
             z == [y EXCEPT !.pollLease = lease]
  <2>3. lease \in Runtime \cup {"none", "gone"} /\ (lease # "none" => y.receipt)
    BY <2>2 DEF Record, Valid
  <2> HIDE DEF lease
  <2>4. /\ z \in Record /\ z.state = y.state /\ z.phase = y.phase /\ z.receipt = y.receipt
        /\ z.outputs = y.outputs /\ z.owner = y.owner /\ z.pollLease = lease
    BY <2>2, <2>3 DEF Record
  <2>5. Keeps(y, z)
    BY <2>2, <2>3, <2>4, MarksKeep
  <2>6. Keeps(journal[t], z) /\ z \in Record
    BY <2>1, <2>2, <2>4, <2>5, KeepsAll
  <2>7. QED
    BY <2>6 DEF lease, y
<1> HIDE DEF after
<1>3. journal' \in [Task -> Record] /\ \A t \in Task : Keeps(journal[t], journal'[t])
  BY <1>1, <1>2
<1>4. /\ memory' \in [Runtime -> [Task -> State]]
      /\ submission' \in [Runtime -> [Task -> Submission]]
      /\ \A q \in Runtime, u \in Task :
            submission'[q][u] = submission[q][u] \/ submission'[q][u] = NoSubmission
      /\ poller' \in [Runtime -> Poll]
      /\ \A q \in Runtime : \/ poller'[q] = poller[q]
                            \/ poller'[q].pc \notin {"observing", "observed", "erring"}
  BY <1>1, ProcessEnds
<1>5. restarts' \in Nat /\ faults' \in Nat
  BY <1>1, TypesNow
<1>6. QED
  BY <1>1, <1>3, <1>4, <1>5, RecordsKept DEF providerVars

LEMMA RestartKeeps == ASSUME JournalInv, NEW r \in Runtime, Restart(r) PROVE JournalInv'
<1> DEFINE after(t) == [journal[t] EXCEPT !.owner = IF @ = r THEN "gone" ELSE @,
                                          !.pollLease = IF @ = r THEN "gone" ELSE @]
<1>1. /\ restarts' = restarts + 1 /\ UNCHANGED <<nextTicket, faults>> /\ UNCHANGED providerVars
      /\ journal' = [t \in Task |-> after(t)]
      /\ memory' = [memory EXCEPT ![r] = [t \in Task |-> "absent"]]
      /\ submission' = [submission EXCEPT ![r] = [t \in Task |-> NoSubmission]]
      /\ poller' = [poller EXCEPT ![r] = [IdlePoller EXCEPT !.pc = "off"]]
  BY DEF Restart, Orphaned
<1>2. ASSUME NEW t \in Task
      PROVE /\ after(t) \in Record /\ Valid(after(t))
            /\ after(t).receipt = journal[t].receipt
            /\ after(t).state = journal[t].state /\ after(t).phase = journal[t].phase
            /\ after(t).owner = journal[t].owner \/ journal[t].owner = r
  <2> DEFINE x == journal[t]
             owner == IF x.owner = r THEN "gone" ELSE x.owner
             lease == IF x.pollLease = r THEN "gone" ELSE x.pollLease
             y == [x EXCEPT !.owner = owner, !.pollLease = lease]
  <2>1. x \in Record /\ Valid(x)
    BY TaskIsTyped
  <2>2. /\ owner \in Runtime \cup {"none", "gone"}
        /\ owner = x.owner \/ x.owner = r
    BY <2>1 DEF Record
  <2>3. /\ lease \in Runtime \cup {"none", "gone"}
        /\ lease # "none" => x.receipt
    BY <2>1, JournalAssumption DEF Record, Valid
  <2>4. y = after(t)
    OBVIOUS
  <2> HIDE DEF owner, lease, x
  <2>5. /\ y \in Record /\ y.state = x.state /\ y.phase = x.phase /\ y.receipt = x.receipt
        /\ y.outputs = x.outputs /\ y.owner = owner /\ y.pollLease = lease
    BY <2>1, <2>2, <2>3 DEF Record
  <2> HIDE DEF y
  <2>6. Valid(y)
    BY <2>1, <2>3, <2>5 DEF Valid, WellFormed
  <2> HIDE DEF after
  <2>7. /\ y \in Record /\ Valid(y) /\ y.receipt = x.receipt
        /\ y.state = x.state /\ y.phase = x.phase
        /\ y.owner = x.owner \/ x.owner = r
    BY <2>2, <2>5, <2>6
  <2>8. QED
    BY <2>4, <2>7 DEF x
<1> HIDE DEF after
<1>3. /\ memory' \in [Runtime -> [Task -> State]]
      /\ submission' \in [Runtime -> [Task -> Submission]]
      /\ \A u \in Task : submission'[r][u] = NoSubmission
      /\ poller' \in [Runtime -> Poll]
      /\ \A q \in Runtime : \/ poller'[q] = poller[q]
                            \/ poller'[q].pc \notin {"observing", "observed", "erring"}
  BY <1>1, ProcessEnds
<1>4. \A q \in Runtime \ {r} : submission'[q] = submission[q]
  BY <1>1, TypesNow
<1>5. journal' \in [Task -> Record] /\ \A t \in Task : journal'[t] = after(t)
  BY <1>1, <1>2
<1>6. JournalTypeOK'
  BY <1>1, <1>3, <1>5, TypesNow, TypesKept DEF providerVars
<1>7. PollsATask'
  BY <1>3 DEF PollsATask, JournalInv
<1>8. ASSUME NEW t \in Task PROVE TaskInv(t)'
  <2> DEFINE x == journal[t]
             y == journal'[t]
  <2>1. /\ y \in Record /\ Valid(y) /\ y.receipt = x.receipt /\ y.state = x.state /\ y.phase = x.phase
        /\ y.owner = x.owner \/ x.owner = r
    BY <1>2, <1>5
  <2>2. /\ x \in Record /\ Valid(x) /\ Accounted(x, jobs[t], official[t])
        /\ \A q \in Runtime : submission[q][t] \in Submission /\ Drives(q, submission[q][t], x, jobs[t])
    BY TaskIsTyped
  <2>3. jobs'[t] = jobs[t] /\ official'[t] = official[t]
    BY <1>1 DEF providerVars
  <2> HIDE DEF x, y
  <2>4. Accounted(y, jobs[t], official[t])
    BY <2>1, <2>2 DEF Accounted, Permitted
  <2>5. ASSUME NEW q \in Runtime PROVE Drives(q, submission'[q][t], y, jobs[t])
    <3>1. CASE q = r
      BY <1>3, <2>1, <3>1, NoSubmissionIsOne, NobodyDrives, TypesNow
    <3>2. CASE q # r
      <4>1. submission'[q][t] = submission[q][t] /\ Drives(q, submission[q][t], x, jobs[t])
        BY <1>4, <2>2, <3>2
      <4>2. Drives(q, submission[q][t], y, jobs[t])
        BY <2>1, <3>2, <4>1 DEF Drives, Permitted
      <4>3. QED
        BY <4>1, <4>2
    <3>3. QED
      BY <3>1, <3>2
  <2>6. ASSUME NEW q \in Runtime, poller'[q].task = t PROVE Polls(poller'[q], y, official[t])
    BY <1>3, <2>1, <2>6 DEF Polls, JournalInv, TaskInv, x
  <2>7. DrivenOnce(t)'
    <3>1. \A q \in Runtime : submission'[q][t] = submission[q][t] \/ submission'[q][t] = NoSubmission
      BY <1>3, <1>4
    <3>2. QED
      BY <3>1, NoSubmissionIsOne DEF DrivenOnce, JournalInv, TaskInv
  <2>8. QED
    BY <2>1, <2>3, <2>4, <2>5, <2>6, <2>7 DEF TaskInv, y
<1>9. QED
  BY <1>6, <1>7, <1>8 DEF JournalInv

\* A step of the reconciler of r on the record of t, which it may keep.
LEMMA PollStep ==
    ASSUME JournalInv, NEW r \in Runtime,
           journal' \in [Task -> Record], \A u \in Task : Keeps(journal[u], journal'[u]),
           memory' \in [Runtime -> [Task -> State]],
           poller' \in [Runtime -> Poll], \A q \in Runtime \ {r} : poller'[q] = poller[q],
           \/ poller'[r].pc \notin {"observing", "observed", "erring"}
           \/ /\ poller'[r].task \in Task
              /\ Polls(poller'[r], journal'[poller'[r].task], official[poller'[r].task]),
           UNCHANGED <<nextTicket, submission, restarts>>, UNCHANGED providerVars, faults' \in Nat
    PROVE JournalInv'
<1>1. JournalTypeOK'
  BY TypesNow, TypesKept DEF providerVars
<1>2. PollsATask'
  BY DEF PollsATask, JournalInv
<1>3. ASSUME NEW u \in Task PROVE TaskInv(u)'
  <2>1. Valid(journal'[u]) /\ Accounted(journal'[u], jobs'[u], official'[u])
    BY TaskIsTyped DEF Keeps, providerVars
  <2>2. \A q \in Runtime : Drives(q, submission'[q][u], journal'[u], jobs'[u])
    BY TaskIsTyped DEF Keeps, providerVars
  <2>3. DrivenOnce(u)'
    BY DEF DrivenOnce, JournalInv, TaskInv
  <2>4. official'[u] = official[u] /\ (journal[u].receipt => journal'[u].receipt)
    BY DEF providerVars, Keeps
  <2>5. ASSUME NEW q \in Runtime, poller'[q].task = u PROVE Polls(poller'[q], journal'[u], official'[u])
    <3>1. CASE q = r
      BY <2>4, <2>5, <3>1 DEF Polls
    <3>2. CASE q # r
      BY <2>4, <2>5, <3>2 DEF Polls, JournalInv, TaskInv
    <3>3. QED
      BY <3>1, <3>2
  <2>6. QED
    BY <2>1, <2>2, <2>3, <2>5 DEF TaskInv
<1>4. QED
  BY <1>1, <1>2, <1>3 DEF JournalInv

\* The record of t alone is replaced by y.
LEMMA Replacing ==
    ASSUME JournalInv, NEW t \in Task, NEW y \in Record, Keeps(journal[t], y),
           journal' = [journal EXCEPT ![t] = y]
    PROVE /\ journal' \in [Task -> Record] /\ journal'[t] = y
          /\ \A u \in Task : Keeps(journal[u], journal'[u])
<1>1. journal' \in [Task -> Record] /\ journal'[t] = y /\ \A u \in Task \ {t} : journal'[u] = journal[u]
  BY TypesNow
<1>2. ASSUME NEW u \in Task PROVE Keeps(journal[u], journal'[u])
  BY <1>1, TaskIsTyped, KeepsItself
<1>3. QED
  BY <1>1, <1>2

\* Marks that the polling sets on a record.
LEMMA PollMarks ==
    ASSUME NEW x \in Record, Valid(x), NEW due \in BOOLEAN, NEW lapsed \in BOOLEAN,
           NEW lease \in Runtime \cup {"none", "gone"}, lease # "none" => x.receipt
    PROVE LET y == [x EXCEPT !.pollLease = lease, !.pollLapsed = lapsed, !.due = due] IN
          y \in Record /\ Keeps(x, y) /\ y.receipt = x.receipt /\ y.state = x.state
<1> DEFINE y == [x EXCEPT !.pollLease = lease, !.pollLapsed = lapsed, !.due = due]
<1>1. /\ y \in Record /\ y.state = x.state /\ y.phase = x.phase /\ y.receipt = x.receipt
      /\ y.outputs = x.outputs /\ y.owner = x.owner /\ y.pollLease = lease
  <2> DEFINE z == [x EXCEPT !.pollLease = lease, !.pollLapsed = lapsed]
  <2>1. /\ z \in Record /\ z.state = x.state /\ z.phase = x.phase /\ z.receipt = x.receipt
        /\ z.outputs = x.outputs /\ z.owner = x.owner /\ z.pollLease = lease
    BY DEF Record
  <2>2. y = [z EXCEPT !.due = due]
    OBVIOUS
  <2> HIDE DEF z, y
  <2>3. QED
    BY <2>1, <2>2 DEF Record
<1> HIDE DEF y
<1>2. Keeps(x, y)
  BY <1>1, MarksKeep
<1>3. QED
  BY <1>1, <1>2 DEF y

LEMMA StartReconcilerKeeps ==
    ASSUME JournalInv, NEW r \in Runtime, StartReconciler(r) PROVE JournalInv'
<1>1. /\ poller' = [poller EXCEPT ![r] = IdlePoller]
      /\ journal' = [t \in Task |-> [journal[t] EXCEPT !.due = @ \/ Eligible(journal[t])]]
      /\ UNCHANGED <<nextTicket, memory, submission, faults, restarts>> /\ UNCHANGED providerVars
  BY DEF StartReconciler
<1>2. ASSUME NEW t \in Task
      PROVE LET y == [journal[t] EXCEPT !.due = @ \/ Eligible(journal[t])] IN
            y \in Record /\ Keeps(journal[t], y)
  <2> DEFINE x == journal[t]
             due == x.due \/ Eligible(x)
             y == [x EXCEPT !.due = due]
  <2>1. x \in Record /\ Valid(x) /\ due \in BOOLEAN
    BY TaskIsTyped DEF Record, Eligible
  <2>2. x.pollLease # "none" => x.receipt
    BY <2>1 DEF Valid
  <2> HIDE DEF x, due
  <2>3. /\ y \in Record /\ y.state = x.state /\ y.phase = x.phase /\ y.receipt = x.receipt
        /\ y.outputs = x.outputs /\ y.owner = x.owner /\ y.pollLease = x.pollLease
    BY <2>1 DEF Record
  <2>4. y \in Record /\ Keeps(x, y)
    BY <2>1, <2>2, <2>3, MarksKeep
  <2>5. QED
    BY <2>4 DEF x, due
<1>3. journal' \in [Task -> Record] /\ \A u \in Task : Keeps(journal[u], journal'[u])
  BY <1>1, <1>2
<1>4. IdlePoller \in Poll /\ IdlePoller.pc = "idle"
  BY DEF IdlePoller, Poll
<1>5. /\ poller' \in [Runtime -> Poll] /\ poller'[r].pc = "idle"
      /\ \A q \in Runtime \ {r} : poller'[q] = poller[q]
  BY <1>1, <1>4, TypesNow
<1>6. QED
  BY <1>1, <1>3, <1>5, TypesNow, PollStep

LEMMA RequestNowKeeps ==
    ASSUME JournalInv, NEW t \in Task, RequestNow(t) PROVE JournalInv'
<1> DEFINE x == journal[t]
           y == [x EXCEPT !.due = TRUE]
<1>1. /\ journal' = [journal EXCEPT ![t] = y]
      /\ UNCHANGED <<nextTicket, memory, submission, poller, faults, restarts>> /\ UNCHANGED providerVars
  BY DEF RequestNow
<1>2. x \in Record /\ Valid(x) /\ (x.pollLease # "none" => x.receipt)
  BY TaskIsTyped DEF Valid
<1>3. /\ y \in Record /\ y.state = x.state /\ y.phase = x.phase /\ y.receipt = x.receipt
      /\ y.outputs = x.outputs /\ y.owner = x.owner /\ y.pollLease = x.pollLease
  BY <1>2 DEF Record
<1> HIDE DEF y
<1>4. Keeps(x, y)
  BY <1>2, <1>3, MarksKeep
<1>5. journal' \in [Task -> Record] /\ \A u \in Task : Keeps(journal[u], journal'[u])
  BY <1>1, <1>3, <1>4, Replacing
<1>6. QED
  BY <1>1, <1>5, TypesNow, RecordsKept DEF providerVars

LEMMA ClaimKeeps ==
    ASSUME JournalInv, NEW r \in Runtime, NEW t \in Task, Claim(r, t) PROVE JournalInv'
<1> DEFINE x == journal[t]
           y == [x EXCEPT !.pollLease = r, !.pollLapsed = FALSE]
           q == [IdlePoller EXCEPT !.pc = "observing", !.task = t]
<1>1. /\ journal' = [journal EXCEPT ![t].pollLease = r, ![t].pollLapsed = FALSE]
      /\ poller' = [poller EXCEPT ![r] = q] /\ Claimable(x)
      /\ UNCHANGED <<nextTicket, memory, submission, faults, restarts>> /\ UNCHANGED providerVars
  BY DEF Claim
<1>2. x \in Record /\ Valid(x) /\ x.receipt
  BY <1>1, TaskIsTyped DEF Claimable, Eligible
<1>3. journal' = [journal EXCEPT ![t] = y]
  BY <1>1, TypesNow
<1>4. /\ y \in Record /\ y.state = x.state /\ y.phase = x.phase /\ y.receipt = x.receipt
      /\ y.outputs = x.outputs /\ y.owner = x.owner
  BY <1>2 DEF Record
<1>5. q \in Poll /\ q.pc = "observing" /\ q.task = t
  BY DEF Poll, IdlePoller
<1> HIDE DEF y, q
<1>6. Keeps(x, y)
  BY <1>2, <1>4, MarksKeep
<1>7. /\ journal' \in [Task -> Record] /\ journal'[t] = y
      /\ \A u \in Task : Keeps(journal[u], journal'[u])
  BY <1>3, <1>4, <1>6, Replacing
<1>8. poller' \in [Runtime -> Poll] /\ poller'[r] = q /\ \A p \in Runtime \ {r} : poller'[p] = poller[p]
  BY <1>1, <1>5, TypesNow
<1>9. Polls(poller'[r], journal'[poller'[r].task], official[poller'[r].task])
  BY <1>2, <1>4, <1>5, <1>7, <1>8 DEF Polls
<1>10. poller'[r].task \in Task /\ memory' \in [Runtime -> [Task -> State]] /\ faults' \in Nat
  BY <1>1, <1>5, <1>8, TypesNow
<1>11. QED
  BY <1>1, <1>7, <1>8, <1>9, <1>10, PollStep

\* A step of the reconciler alone.
LEMMA PollAlone ==
    ASSUME JournalInv, NEW r \in Runtime, NEW q \in Poll, poller' = [poller EXCEPT ![r] = q],
           \/ q.pc \notin {"observing", "observed", "erring"}
           \/ q.task \in Task /\ Polls(q, journal[q.task], official[q.task]),
           UNCHANGED <<journal, nextTicket, memory, submission, restarts>>, UNCHANGED providerVars,
           faults' \in Nat
    PROVE JournalInv'
<1>1. poller' \in [Runtime -> Poll] /\ poller'[r] = q /\ \A p \in Runtime \ {r} : poller'[p] = poller[p]
  BY TypesNow
<1>2. journal' \in [Task -> Record] /\ \A u \in Task : Keeps(journal[u], journal'[u])
  BY TypesNow, TaskIsTyped, KeepsItself
<1>3. \/ poller'[r].pc \notin {"observing", "observed", "erring"}
      \/ /\ poller'[r].task \in Task
         /\ Polls(poller'[r], journal'[poller'[r].task], official[poller'[r].task])
  BY <1>1
<1>4. memory' \in [Runtime -> [Task -> State]]
  BY TypesNow
<1>5. QED
  BY <1>1, <1>2, <1>3, <1>4, PollStep

LEMMA ObserveKeeps == ASSUME JournalInv, NEW r \in Runtime, Observe(r) PROVE JournalInv'
<1> DEFINE p == poller[r]
           t == p.task
<1>1. /\ p.pc = "observing"
      /\ UNCHANGED <<journal, nextTicket, memory, submission, faults, restarts>> /\ UNCHANGED providerVars
  BY DEF Observe
<1>2. PICK kept \in BOOLEAN :
         /\ kept => official[t] = "completed"
         /\ poller' = [poller EXCEPT ![r].pc = "observed", ![r].status = official[t], ![r].outputs = kept]
  BY DEF Observe
<1>3. t \in Task /\ Polls(p, journal[t], official[t]) /\ p \in Poll
  BY <1>1, TypesNow DEF JournalInv, PollsATask, TaskInv
<1>4. /\ official[t] \in Status /\ Accounted(journal[t], jobs[t], official[t])
      /\ journal[t].receipt /\ jobs[t] \in Nat
  BY <1>1, <1>3, TaskIsTyped DEF Polls
<1> DEFINE q == [p EXCEPT !.pc = "observed", !.status = official[t], !.outputs = kept]
<1>5. poller' = [poller EXCEPT ![r] = q]
  BY <1>2, TypesNow
<1>6. q \in Poll /\ q.pc = "observed" /\ q.task = t /\ q.status = official[t] /\ q.outputs = kept
  BY <1>3, <1>4 DEF Poll, Status
<1> HIDE DEF q, p
<1>7. official[t] # "none"
  BY <1>4 DEF Accounted
<1>8. q.task \in Task /\ Polls(q, journal[q.task], official[q.task])
  BY <1>2, <1>3, <1>4, <1>6, <1>7 DEF Polls
<1>9. QED
  BY <1>1, <1>5, <1>6, <1>8, TypesNow, PollAlone

LEMMA FailToObserveKeeps ==
    ASSUME JournalInv, NEW r \in Runtime, FailToObserve(r) PROVE JournalInv'
<1> DEFINE p == poller[r]
           t == p.task
           q == [p EXCEPT !.pc = "erring"]
<1>1. /\ p.pc = "observing" /\ poller' = [poller EXCEPT ![r] = q]
      /\ UNCHANGED <<journal, nextTicket, memory, submission, faults, restarts>> /\ UNCHANGED providerVars
  BY DEF FailToObserve
<1>2. t \in Task /\ Polls(p, journal[t], official[t]) /\ p \in Poll
  BY <1>1, TypesNow DEF JournalInv, PollsATask, TaskInv
<1>3. q \in Poll /\ q.pc = "erring" /\ q.task = t
  BY <1>2 DEF Poll
<1> HIDE DEF q, p
<1>4. q.task \in Task /\ Polls(q, journal[q.task], official[q.task])
  BY <1>1, <1>2, <1>3 DEF Polls
<1>5. QED
  BY <1>1, <1>3, <1>4, TypesNow, PollAlone

\* commitObservation and the error paths write a record that they keep, for
\* memory to have its state, and are done.
LEMMA PollWrites ==
    ASSUME JournalInv, NEW r \in Runtime, NEW t \in Task, NEW y \in Record, Keeps(journal[t], y),
           journal' = [journal EXCEPT ![t] = y],
           memory' = [memory EXCEPT ![r][t] = y.state],
           poller' = [poller EXCEPT ![r] = IdlePoller],
           UNCHANGED <<nextTicket, submission, restarts>>, UNCHANGED providerVars, faults' \in Nat
    PROVE JournalInv'
<1>1. journal' \in [Task -> Record] /\ \A u \in Task : Keeps(journal[u], journal'[u])
  BY Replacing
<1>2. memory' \in [Runtime -> [Task -> State]]
  BY TypesNow DEF Record
<1>3. IdlePoller \in Poll /\ IdlePoller.pc = "idle"
  BY DEF IdlePoller, Poll
<1>4. /\ poller' \in [Runtime -> Poll] /\ poller'[r].pc = "idle"
      /\ \A p \in Runtime \ {r} : poller'[p] = poller[p]
  BY <1>3, TypesNow
<1>5. QED
  BY <1>1, <1>2, <1>4, PollStep

LEMMA IdlePollKeeps ==
    ASSUME JournalInv, NEW r \in Runtime, poller' = [poller EXCEPT ![r] = IdlePoller],
           UNCHANGED <<journal, nextTicket, memory, submission, restarts>>, UNCHANGED providerVars,
           faults' \in Nat
    PROVE JournalInv'
<1>1. IdlePoller \in Poll /\ IdlePoller.pc = "idle"
  BY DEF IdlePoller, Poll
<1>2. QED
  BY <1>1, PollAlone

\* What commitObservation makes of a record.
Written(x, status, kept, due) ==
    [Observed(x, status, kept) EXCEPT !.pollLease = "none", !.pollLapsed = FALSE, !.due = due]

\* What the provider says of a record with a receipt.
LEMMA ObservedIsValid ==
    ASSUME NEW x \in Record, Valid(x), x.receipt,
           NEW status \in Status, status # "none", NEW kept \in BOOLEAN, kept => status = "completed",
           NEW due \in BOOLEAN
    PROVE LET y == Written(x, status, kept, due) IN
          /\ y \in Record /\ y.receipt /\ Valid(y)
          /\ \/ x.state = "succeeded" /\ status # "completed" /\ y.state = "succeeded"
             \/ status = "pending" /\ y.state = "accepted"
             \/ status = "completed" /\ y.state = "succeeded"
             \/ status \in {"failed", "cancelled"} /\ y.state = status
<1> DEFINE o == Observed(x, status, kept)
           y == Written(x, status, kept, due)
<1>1. /\ o \in Record /\ o.receipt /\ o.phase = x.phase
      /\ o.outputs => o.state = "succeeded"
      /\ \/ x.state = "succeeded" /\ status # "completed" /\ o.state = "succeeded"
         \/ status = "pending" /\ o.state = "accepted"
         \/ status = "completed" /\ o.state = "succeeded"
         \/ status \in {"failed", "cancelled"} /\ o.state = status
  <2>1. CASE x.state = "succeeded" /\ status # "completed"
    BY <2>1 DEF Observed, Valid, WellFormed
  <2>2. CASE ~(x.state = "succeeded" /\ status # "completed")
    <3> DEFINE state == CASE status = "pending" -> "accepted" [] status = "completed" -> "succeeded"
                          [] OTHER -> status
               outputs == x.outputs \/ kept
    <3>1. /\ \/ status = "pending" /\ state = "accepted"
             \/ status = "completed" /\ state = "succeeded"
             \/ status \in {"failed", "cancelled"} /\ state = status
          /\ outputs \in BOOLEAN
      BY DEF Status, Record
    <3>2. outputs => state = "succeeded"
      BY <2>2, <3>1 DEF Valid, WellFormed, Record
    <3>3. o = [x EXCEPT !.state = state, !.outputs = outputs]
      BY <2>2 DEF Observed
    <3> HIDE DEF state, outputs, o
    <3>4. o \in Record /\ o.receipt /\ o.phase = x.phase /\ o.state = state /\ o.outputs = outputs
      BY <3>1, <3>3 DEF Record, State
    <3>5. QED
      BY <3>1, <3>2, <3>4
  <2>3. QED
    BY <2>1, <2>2
<1>2. /\ y \in Record /\ y.state = o.state /\ y.phase = o.phase /\ y.receipt = o.receipt
      /\ y.outputs = o.outputs /\ y.pollLease = "none"
  <2> DEFINE z == [o EXCEPT !.pollLease = "none", !.pollLapsed = FALSE]
  <2> HIDE DEF o
  <2>1. /\ z \in Record /\ z.state = o.state /\ z.phase = o.phase /\ z.receipt = o.receipt
        /\ z.outputs = o.outputs /\ z.pollLease = "none"
    BY <1>1 DEF Record
  <2>2. y = [z EXCEPT !.due = due]
    BY DEF Written, o
  <2> HIDE DEF z, y
  <2>3. QED
    BY <2>1, <2>2 DEF Record
<1> HIDE DEF o, y
<1>3. x.phase = "none"
  BY DEF Valid, WellFormed
<1>4. Valid(y)
  BY <1>1, <1>2, <1>3 DEF Valid, WellFormed
<1>5. QED
  BY <1>1, <1>2, <1>4 DEF y

LEMMA CommitObservationKeeps ==
    ASSUME JournalInv, NEW r \in Runtime, CommitObservation(r) PROVE JournalInv'
<1> DEFINE p == poller[r]
           t == p.task
           x == journal[t]
           again == p.status = "pending" \/ (p.status = "completed" /\ ~p.outputs)
           after == [Observed(x, p.status, p.outputs) EXCEPT !.pollLease = "none",
                       !.pollLapsed = FALSE, !.due = again]
<1>1. /\ p.pc = "observed"
      /\ UNCHANGED <<nextTicket, submission, faults, restarts>> /\ UNCHANGED providerVars
  BY DEF CommitObservation
<1>2. t \in Task /\ Polls(p, x, official[t]) /\ p \in Poll
  BY <1>1, TypesNow DEF JournalInv, PollsATask, TaskInv
<1>3. x \in Record /\ Valid(x) /\ x.receipt
  BY <1>1, <1>2, TaskIsTyped DEF Polls
<1>4. after \in Record /\ after.receipt /\ Valid(after)
  <2>1. /\ p.status \in Status /\ p.status # "none" /\ p.outputs \in BOOLEAN
        /\ p.outputs => p.status = "completed"
        /\ again \in BOOLEAN
    BY <1>1, <1>2 DEF Polls, Poll, Status
  <2>2. after = Written(x, p.status, p.outputs, again)
    BY DEF Written
  <2> HIDE DEF again, p, x, after
  <2>3. QED
    BY <1>3, <2>1, <2>2, ObservedIsValid
<1>5. CASE /\ journal' = [journal EXCEPT ![t] = after]
           /\ memory' = [memory EXCEPT ![r][t] = after.state]
           /\ poller' = [poller EXCEPT ![r] = IdlePoller]
  <2> HIDE DEF after, x, t
  <2>1. Keeps(x, after)
    BY <1>3, <1>4, ReceiptKeeps
  <2>2. QED
    BY <1>1, <1>2, <1>4, <1>5, <2>1, TypesNow, PollWrites DEF x
<1>6. CASE poller' = [poller EXCEPT ![r] = IdlePoller] /\ UNCHANGED <<journal, memory>>
  BY <1>1, <1>6, TypesNow, IdlePollKeeps
<1>7. CASE poller' = [poller EXCEPT ![r].pc = "erring"] /\ UNCHANGED <<journal, memory>>
  <2> DEFINE q == [p EXCEPT !.pc = "erring"]
  <2>1. poller' = [poller EXCEPT ![r] = q]
    BY <1>7
  <2>2. q \in Poll /\ q.pc = "erring" /\ q.task = t
    BY <1>2 DEF Poll
  <2> HIDE DEF q, p
  <2>3. q.task \in Task /\ Polls(q, journal[q.task], official[q.task])
    BY <1>2, <1>3, <2>2 DEF Polls
  <2>4. QED
    BY <1>1, <1>7, <2>1, <2>2, <2>3, TypesNow, PollAlone
<1>8. QED
  BY <1>5, <1>6, <1>7 DEF CommitObservation

\* A poll that ends without an observation leaves the record due.
LEMMA PollReleased ==
    ASSUME JournalInv, NEW t \in Task, NEW due \in BOOLEAN
    PROVE LET y == [journal[t] EXCEPT !.pollLease = "none", !.pollLapsed = FALSE, !.due = due] IN
          y \in Record /\ Keeps(journal[t], y)
  BY TaskIsTyped, PollMarks

LEMMA DropObservationKeeps ==
    ASSUME JournalInv, NEW r \in Runtime, DropObservation(r) PROVE JournalInv'
<1> DEFINE t == poller[r].task
           due == journal[t].due \/ Eligible(journal[t])
           after == [journal[t] EXCEPT !.pollLease = "none", !.pollLapsed = FALSE, !.due = due]
<1>1. /\ poller[r].pc = "observed" /\ faults' = faults + 1
      /\ journal' = [journal EXCEPT ![t] = after]
      /\ memory' = [memory EXCEPT ![r][t] = after.state]
      /\ poller' = [poller EXCEPT ![r] = IdlePoller]
      /\ UNCHANGED <<nextTicket, submission, restarts>> /\ UNCHANGED providerVars
  BY DEF DropObservation
<1>2. t \in Task
  BY <1>1, TypesNow DEF JournalInv, PollsATask
<1>3. due \in BOOLEAN
  BY <1>2, TaskIsTyped DEF Record, Eligible
<1> HIDE DEF due, t
<1>4. after \in Record /\ Keeps(journal[t], after)
  BY <1>2, <1>3, PollReleased
<1> HIDE DEF after
<1>5. faults' \in Nat
  BY <1>1, TypesNow
<1>6. QED
  BY <1>1, <1>2, <1>4, <1>5, PollWrites

LEMMA CommitSyncErrorKeeps ==
    ASSUME JournalInv, NEW r \in Runtime, CommitSyncError(r) PROVE JournalInv'
<1> DEFINE t == poller[r].task
           after == [journal[t] EXCEPT !.pollLease = "none", !.pollLapsed = FALSE, !.due = TRUE]
<1>1. /\ poller[r].pc = "erring" /\ poller' = [poller EXCEPT ![r] = IdlePoller]
      /\ UNCHANGED <<nextTicket, submission, restarts>> /\ UNCHANGED providerVars
  BY DEF CommitSyncError
<1>2. t \in Task
  BY <1>1, TypesNow DEF JournalInv, PollsATask
<1>3. CASE /\ journal' = [journal EXCEPT ![t] = after] /\ UNCHANGED faults
           /\ memory' = [memory EXCEPT ![r][t] = after.state]
  <2> HIDE DEF t
  <2>1. after \in Record /\ Keeps(journal[t], after)
    BY <1>2, PollReleased
  <2> HIDE DEF after
  <2>2. QED
    BY <1>1, <1>2, <1>3, <2>1, TypesNow, PollWrites
<1>4. CASE /\ UNCHANGED <<journal, memory>>
           /\ UNCHANGED faults \/ faults' = faults + 1
  <2>1. faults' \in Nat
    BY <1>4, TypesNow
  <2>2. UNCHANGED journal /\ UNCHANGED memory
    BY <1>4
  <2>3. QED
    BY <1>1, <2>1, <2>2, IdlePollKeeps
<1>5. QED
  BY <1>3, <1>4 DEF CommitSyncError

LEMMA LeaseLapsesKeeps ==
    ASSUME JournalInv, NEW t \in Task, LeaseLapses(t) PROVE JournalInv'
<1> DEFINE x == journal[t]
           y == [x EXCEPT !.lapsed = TRUE]
<1>1. /\ journal' = [journal EXCEPT ![t] = y]
      /\ UNCHANGED <<nextTicket, memory, submission, poller, faults, restarts>> /\ UNCHANGED providerVars
  BY DEF LeaseLapses
<1>2. x \in Record /\ Valid(x) /\ (x.pollLease # "none" => x.receipt)
  BY TaskIsTyped DEF Valid
<1>3. /\ y \in Record /\ y.state = x.state /\ y.phase = x.phase /\ y.receipt = x.receipt
      /\ y.outputs = x.outputs /\ y.owner = x.owner /\ y.pollLease = x.pollLease
  BY <1>2 DEF Record
<1> HIDE DEF y
<1>4. Keeps(x, y)
  BY <1>2, <1>3, MarksKeep
<1>5. journal' \in [Task -> Record] /\ \A u \in Task : Keeps(journal[u], journal'[u])
  BY <1>1, <1>3, <1>4, Replacing
<1>6. QED
  BY <1>1, <1>5, TypesNow, RecordsKept DEF providerVars

LEMMA PollLeaseLapsesKeeps ==
    ASSUME JournalInv, NEW t \in Task, PollLeaseLapses(t) PROVE JournalInv'
<1> DEFINE x == journal[t]
           y == [x EXCEPT !.pollLapsed = TRUE]
<1>1. /\ journal' = [journal EXCEPT ![t] = y]
      /\ UNCHANGED <<nextTicket, memory, submission, poller, faults, restarts>> /\ UNCHANGED providerVars
  BY DEF PollLeaseLapses
<1>2. x \in Record /\ Valid(x) /\ (x.pollLease # "none" => x.receipt)
  BY TaskIsTyped DEF Valid
<1>3. /\ y \in Record /\ y.state = x.state /\ y.phase = x.phase /\ y.receipt = x.receipt
      /\ y.outputs = x.outputs /\ y.owner = x.owner /\ y.pollLease = x.pollLease
  BY <1>2 DEF Record
<1> HIDE DEF y
<1>4. Keeps(x, y)
  BY <1>2, <1>3, MarksKeep
<1>5. journal' \in [Task -> Record] /\ \A u \in Task : Keeps(journal[u], journal'[u])
  BY <1>1, <1>3, <1>4, Replacing
<1>6. QED
  BY <1>1, <1>5, TypesNow, RecordsKept DEF providerVars

LEMMA SwitchAccountKeeps == ASSUME JournalInv, SwitchAccount PROVE JournalInv'
<1>1. /\ switches' = switches + 1 /\ accountNow' \in AccountSession
      /\ UNCHANGED <<journal, nextTicket, memory, submission, poller, jobs, official, faults, restarts>>
  BY DEF SwitchAccount
<1>2. switches' \in Nat
  BY <1>1, TypesNow
<1>3. JournalTypeOK'
  BY <1>1, <1>2, TypesNow, TypesKept
<1>4. PollsATask' /\ \A u \in Task : TaskInv(u)'
  BY <1>1, TaskIsTyped, KeepsItself, KeptByAll
<1>5. QED
  BY <1>3, <1>4 DEF JournalInv

LEMMA OfficialJobEndsKeeps ==
    ASSUME JournalInv, NEW t \in Task, OfficialJobEnds(t) PROVE JournalInv'
<1>1. /\ official[t] = "pending"
      /\ UNCHANGED <<journal, nextTicket, memory, submission, poller, accountNow, jobs, faults, restarts, switches>>
  BY DEF OfficialJobEnds
<1>2. PICK status \in {"completed", "failed", "cancelled"} :
         official' = [official EXCEPT ![t] = status]
  BY DEF OfficialJobEnds
<1>3. /\ official' \in [Task -> Status] /\ official'[t] = status
      /\ \A u \in Task \ {t} : official'[u] = official[u]
  BY <1>2, TypesNow DEF Status
<1>4. JournalTypeOK'
  BY <1>1, <1>3, TypesNow, TypesKept
<1>5. PollsATask'
  BY <1>1 DEF PollsATask, JournalInv
<1>6. ASSUME NEW u \in Task PROVE TaskInv(u)'
  <2>1. TaskInv(u)
    BY DEF JournalInv
  <2>2. Accounted(journal'[u], jobs'[u], official'[u])
    BY <1>1, <1>2, <1>3, <2>1 DEF TaskInv, Accounted
  <2>3. ASSUME NEW q \in Runtime, poller[q].task = u PROVE Polls(poller[q], journal[u], official'[u])
    BY <1>1, <1>2, <1>3, <2>1, <2>3 DEF TaskInv, Polls
  <2>4. QED
    BY <1>1, <2>1, <2>2, <2>3 DEF TaskInv, DrivenOnce
<1>7. QED
  BY <1>4, <1>5, <1>6 DEF JournalInv

LEMMA JournalInvInit == JournalInit => JournalInv
<1> SUFFICES ASSUME JournalInit PROVE JournalInv
  OBVIOUS
<1>1. /\ NoRecord \in Record /\ NoRecord.state = "absent" /\ ~NoRecord.receipt
      /\ NoRecord.phase = "none" /\ ~NoRecord.outputs /\ NoRecord.pollLease = "none"
  BY DEF NoRecord, Record, State
<1>2. IdlePoller \in Poll /\ IdlePoller.pc = "idle"
  BY DEF IdlePoller, Poll
<1>3. /\ journal = [t \in Task |-> NoRecord]
      /\ submission = [r \in Runtime |-> [t \in Task |-> NoSubmission]]
      /\ poller = [r \in Runtime |-> IdlePoller]
      /\ memory = [r \in Runtime |-> [t \in Task |-> "absent"]]
      /\ jobs = [t \in Task |-> 0] /\ official = [t \in Task |-> "none"]
      /\ nextTicket = 1 /\ accountNow \in AccountSession
      /\ faults = 0 /\ restarts = 0 /\ switches = 0
  BY DEF JournalInit
<1>4. JournalTypeOK
  <2>1. /\ journal \in [Task -> Record] /\ submission \in [Runtime -> [Task -> Submission]]
        /\ poller \in [Runtime -> Poll] /\ memory \in [Runtime -> [Task -> State]]
        /\ jobs \in [Task -> Nat] /\ official \in [Task -> Status]
    BY <1>1, <1>2, <1>3, NoSubmissionIsOne DEF State, Status
  <2>2. QED
    BY <1>3, <2>1 DEF JournalTypeOK, Submission, Poll, Status
<1>5. PollsATask
  BY <1>2, <1>3 DEF PollsATask
<1>6. ASSUME NEW t \in Task PROVE TaskInv(t)
  <2>1. Valid(journal[t]) /\ Accounted(journal[t], jobs[t], official[t])
    BY <1>1, <1>3 DEF Valid, WellFormed, Accounted
  <2>2. \A r \in Runtime : Drives(r, submission[r][t], journal[t], jobs[t])
    BY <1>3, NoSubmissionIsOne DEF Drives
  <2>3. \A r \in Runtime : Polls(poller[r], journal[t], official[t])
    BY <1>2, <1>3 DEF Polls
  <2>4. DrivenOnce(t)
    BY <1>3, NoSubmissionIsOne DEF DrivenOnce
  <2>5. QED
    BY <2>1, <2>2, <2>3, <2>4 DEF TaskInv
<1>7. QED
  BY <1>4, <1>5, <1>6 DEF JournalInv

LEMMA JournalInvStep == JournalInv /\ [JournalNext]_journalVars => JournalInv'
<1> SUFFICES ASSUME JournalInv, [JournalNext]_journalVars PROVE JournalInv'
  OBVIOUS
<1>1. ASSUME NEW r \in Runtime, Load(r) \/ Reconcile(r) \/ Dispose(r) \/ Restart(r)
      PROVE JournalInv'
  BY <1>1, LoadKeeps, StartReconcilerKeeps, ObserveKeeps, FailToObserveKeeps,
     CommitObservationKeeps, DropObservationKeeps, CommitSyncErrorKeeps, ClaimKeeps,
     DisposeKeeps, RestartKeeps DEF Reconcile
<1>2. ASSUME NEW r \in Runtime, NEW t \in Task,
             Enqueue(r, t) \/ Submit(r, t) \/ Cancel(r, t) \/ Delete(r, t)
      PROVE JournalInv'
  BY <1>2, EnqueueKeeps, ReserveKeeps, PrepareKeeps, FenceKeeps, SpawnKeeps, AcceptedKeeps,
     ReleaseKeeps, ScheduleKeeps, FailureKeeps, FailTaskKeeps, CancelKeeps, DeleteKeeps DEF Submit
<1>3. ASSUME NEW t \in Task,
             RequestNow(t) \/ LeaseLapses(t) \/ PollLeaseLapses(t) \/ OfficialJobEnds(t)
      PROVE JournalInv'
  BY <1>3, RequestNowKeeps, LeaseLapsesKeeps, PollLeaseLapsesKeeps, OfficialJobEndsKeeps
<1>4. CASE SwitchAccount
  BY <1>4, SwitchAccountKeeps
<1>5. CASE UNCHANGED journalVars
  <2>1. /\ UNCHANGED <<journal, nextTicket, memory, submission, poller>>
        /\ UNCHANGED <<accountNow, jobs, official, faults, restarts, switches>>
    BY <1>5 DEF journalVars
  <2>2. JournalTypeOK'
    BY <2>1, TypesNow, TypesKept
  <2>3. PollsATask' /\ \A u \in Task : TaskInv(u)'
    BY <2>1, TaskIsTyped, KeepsItself, KeptByAll
  <2>4. QED
    BY <2>2, <2>3 DEF JournalInv
<1>6. QED
  BY <1>1, <1>2, <1>3, <1>4, <1>5 DEF JournalNext

\* Every step of every process keeps records, jobs, drivers and polls accounted
\* for.
THEOREM JournalInvariant == JournalSpec => []JournalInv
  BY JournalInvInit, JournalInvStep, PTL DEF JournalSpec

\* The records, submissions and polls have their types.
THEOREM JournalTypes == JournalSpec => []JournalTypeOK
<1>1. JournalInv => JournalTypeOK
  BY DEF JournalInv
<1>2. QED
  BY <1>1, JournalInvariant, PTL

\* Whatever processes try, crash, lapse and retry, a task is submitted to the
\* provider at most once, and what is reported as not submitted was not.
THEOREM SubmittedAtMostOnce == JournalSpec => []SubmittedOnce
<1>1. JournalInv => SubmittedOnce
  <2> SUFFICES ASSUME JournalInv, NEW t \in Task
               PROVE /\ jobs[t] <= 1
                     /\ journal[t].state \in {"failed", "cancelled", "absent", "deleted"}
                          /\ ~journal[t].receipt => jobs[t] = 0
    BY DEF SubmittedOnce
  <2>1. Accounted(journal[t], jobs[t], official[t]) /\ jobs[t] \in Nat
    BY TaskIsTyped
  <2>2. QED
    BY <2>1 DEF Accounted, Permitted
<1>2. QED
  BY <1>1, JournalInvariant, PTL

-----------------------------------------------------------------------------
(* The slots and the outcomes.                                             *)

HoldsSlot(x) == x.state \in {"pending", "unknown", "accepted"}

\* From x to y no slot is taken, no record appears, and no outcome is decided.
Quiet(x, y) ==
    /\ HoldsSlot(y) => HoldsSlot(x)
    /\ y.state # "absent" => x.state # "absent"
    /\ y.receipt = x.receipt
    /\ x.receipt => y.state = x.state

\* Recovery is quiet, and so is every write of a quiet record.
LEMMA RecoveredIsQuiet ==
    ASSUME JournalInv, NEW t \in Task
    PROVE Quiet(journal[t], Recovered[t]) /\ Quiet(journal[t], journal[t])
<1>1. journal[t] \in Record /\ Valid(journal[t]) /\ Recovered[t] = Closed(journal[t])
  BY TaskIsTyped
<1>2. QED
  BY <1>1, ClosedFields DEF Quiet, HoldsSlot, Valid, WellFormed

LEMMA ReloadIsQuiet ==
    ASSUME JournalInv, journal' = Recovered \/ journal' = journal
    PROVE \A u \in Task : Quiet(journal[u], journal'[u])
  BY RecoveredIsQuiet

LEMMA MarksAreQuiet ==
    ASSUME JournalInv, NEW t \in Task, NEW y, y.state = journal[t].state, y.receipt = journal[t].receipt,
           journal' = [journal EXCEPT ![t] = y]
    PROVE \A u \in Task : Quiet(journal[u], journal'[u])
  BY RecoveredIsQuiet, TypesNow DEF Quiet, HoldsSlot

\* A write leaves the other records to the recovery.
LEMMA WriteIsQuiet ==
    ASSUME JournalInv, NEW r \in Runtime, NEW t \in Task, NEW y \in Record,
           Persist(r, With(t, y)) \/ FailToPersist(r, With(t, y))
    PROVE /\ \A u \in Task \ {t} : Quiet(journal[u], journal'[u]) /\ journal'[u] = Recovered[u]
          /\ journal'[t] = y \/ journal'[t] = Recovered[t]
          /\ Quiet(Recovered[t], y) => Quiet(journal[t], journal'[t])
<1>1. /\ \A u \in Task \ {t} : journal'[u] = Recovered[u]
      /\ journal'[t] = y \/ journal'[t] = Recovered[t]
  BY Writing
<1>2. Quiet(Recovered[t], y) => Quiet(journal[t], y)
  BY RecoveredIsQuiet DEF Quiet
<1>3. QED
  BY <1>1, <1>2, RecoveredIsQuiet

\* Most steps are quiet; of the others each is about one task.
AllQuiet == \A u \in Task : Quiet(journal[u], journal'[u])

LEMMA SubmissionIsQuiet ==
    ASSUME JournalInv, NEW r \in Runtime, NEW t \in Task,
           \/ Prepare(r, t) \/ CommitInvocationFence(r, t) \/ Spawn(r, t) \/ ReleaseInvocation(r, t)
           \/ CommitSubmissionFailure(r, t) \/ Schedule(r, t) \/ Cancel(r, t) \/ Delete(r, t)
    PROVE AllQuiet
<1> DEFINE x == Recovered[t]
<1>1. x \in Record /\ Valid(x)
  BY TaskIsTyped
<1>2. CASE Prepare(r, t) \/ Spawn(r, t) \/ ReleaseInvocation(r, t)
  BY <1>2, ReloadIsQuiet DEF Prepare, Spawn, ReleaseInvocation, AllQuiet
<1>3. CASE CommitInvocationFence(r, t)
  <2> DEFINE permitted == [x EXCEPT !.phase = "spawn_permitted", !.account = submission[r][t].account]
  <2>1. CASE journal' = journal \/ journal' = Recovered
    BY <2>1, ReloadIsQuiet DEF AllQuiet
  <2>2. CASE Persist(r, With(t, permitted))
    <3>1. submission[r][t].account \in AccountSession \cup {"none"}
      BY TypesNow DEF Submission
    <3> HIDE DEF x
    <3>2. permitted \in Record /\ permitted.state = x.state /\ permitted.receipt = x.receipt
      BY <1>1, <3>1 DEF Record
    <3> HIDE DEF permitted
    <3>3. Quiet(x, permitted)
      BY <3>2 DEF Quiet, HoldsSlot
    <3>4. QED
      BY <2>2, <3>2, <3>3, WriteIsQuiet DEF x, AllQuiet
  <2>3. QED
    BY <1>3, <2>1, <2>2 DEF CommitInvocationFence, Reload, Persist, FailToPersist
<1>4. CASE CommitSubmissionFailure(r, t)
  <2> DEFINE unknown == [Unreserved(x) EXCEPT !.state = "unknown"]
  <2>1. CASE journal' = journal \/ journal' = Recovered
    BY <2>1, ReloadIsQuiet DEF AllQuiet
  <2>2. CASE Reserves(r, t, x) /\ Persist(r, With(t, unknown))
    <3>1. unknown \in Record /\ unknown.state = "unknown" /\ unknown.receipt = x.receipt
      <4>1. Unreserved(x) \in Record
        BY <1>1 DEF Unreserved, Record
      <4>2. unknown \in Record
        BY <4>1 DEF Record, State
      <4>3. QED
        BY <1>1, <4>2 DEF Record, Unreserved
    <3>2. x.state = "pending"
      BY <2>2 DEF Reserves
    <3> HIDE DEF x, unknown
    <3>3. Quiet(x, unknown)
      BY <1>1, <3>1, <3>2 DEF Quiet, HoldsSlot, Valid, WellFormed
    <3>4. QED
      BY <2>2, <3>1, <3>3, WriteIsQuiet DEF x, AllQuiet
  <2>3. CASE Reserves(r, t, x) /\ Persist(r, With(t, NoRecord))
    <3>1. NoRecord \in Record /\ NoRecord.state = "absent" /\ ~NoRecord.receipt
      BY DEF NoRecord, Record, State
    <3>2. x.state = "pending"
      BY <2>3 DEF Reserves
    <3> HIDE DEF x
    <3>3. Quiet(x, NoRecord)
      BY <1>1, <3>1, <3>2 DEF Quiet, HoldsSlot, Valid, WellFormed, Record
    <3>4. QED
      BY <2>3, <3>1, <3>3, WriteIsQuiet DEF x, AllQuiet
  <2>4. QED
    BY <1>4, <2>1, <2>2, <2>3 DEF CommitSubmissionFailure, Reload, Persist
<1>5. CASE Schedule(r, t)
  <2> DEFINE due == [journal[t] EXCEPT !.due = @ \/ Eligible(journal[t])]
  <2>1. CASE UNCHANGED journal
    BY <2>1, ReloadIsQuiet DEF AllQuiet
  <2>2. CASE journal' = [journal EXCEPT ![t].due = @ \/ Eligible(journal[t])]
    <3>1. journal' = [journal EXCEPT ![t] = due]
      BY <2>2
    <3>2. due.state = journal[t].state /\ due.receipt = journal[t].receipt
      BY TypesNow DEF Record
    <3> HIDE DEF due
    <3>3. QED
      BY <3>1, <3>2, MarksAreQuiet DEF AllQuiet
  <2>3. QED
    BY <1>5, <2>1, <2>2 DEF Schedule
<1>6. CASE Cancel(r, t)
  <2> DEFINE cancelled == [Unqueued(x) EXCEPT !.state = "cancelled"]
  <2>1. /\ x.state = "queued"
        /\ Persist(r, With(t, cancelled)) \/ FailToPersist(r, With(t, cancelled))
    BY <1>6 DEF Cancel
  <2>2. cancelled \in Record /\ cancelled.state = "cancelled" /\ cancelled.receipt = x.receipt
    BY <1>1, UnqueuedFields DEF State
  <2> HIDE DEF x, cancelled
  <2>3. Quiet(x, cancelled)
    BY <1>1, <2>1, <2>2 DEF Quiet, HoldsSlot, Valid, WellFormed
  <2>4. QED
    BY <2>1, <2>2, <2>3, WriteIsQuiet DEF x, AllQuiet
<1>7. CASE Delete(r, t)
  <2> DEFINE before == x.state = "queued" \/ x.phase = "reserved"
             gone == [x EXCEPT !.state = "deleted", !.ticket = 0,
                               !.owner = IF x.state = "queued" THEN "none" ELSE @]
             hidden == [x EXCEPT !.hidden = TRUE]
             after == IF before THEN gone ELSE hidden
  <2>1. \/ WellFormed(after) /\ Persist(r, With(t, after)) 
        \/ journal' = Recovered
    BY <1>7 DEF Delete
  <2>2. gone \in Record /\ gone.state = "deleted" /\ gone.receipt = x.receipt
    <3> DEFINE owner == IF x.state = "queued" THEN "none" ELSE x.owner
               untaken == [x EXCEPT !.state = "deleted", !.ticket = 0]
    <3>1. owner \in Runtime \cup {"none", "gone"}
      BY <1>1 DEF Record
    <3>2. gone = [untaken EXCEPT !.owner = owner]
      OBVIOUS
    <3>3. untaken \in Record /\ untaken.state = "deleted" /\ untaken.receipt = x.receipt
      BY <1>1 DEF Record, State
    <3> HIDE DEF owner, untaken, gone
    <3>4. QED
      BY <3>1, <3>2, <3>3 DEF Record
  <2>3. hidden \in Record /\ hidden.state = x.state /\ hidden.receipt = x.receipt
    BY <1>1 DEF Record
  <2>4. CASE WellFormed(after) /\ Persist(r, With(t, after))
    <3>1. Delete(r, t) => x.state # "absent"
      BY DEF Delete
    <3> HIDE DEF gone, hidden, x
    <3>2. after \in Record /\ Quiet(x, after)
      BY <1>1, <1>7, <2>2, <2>3, <3>1 DEF Quiet, HoldsSlot, Valid, WellFormed
    <3> HIDE DEF after
    <3>3. QED
      BY <2>4, <3>2, WriteIsQuiet DEF x, AllQuiet
  <2>5. CASE journal' = Recovered
    BY <2>5, ReloadIsQuiet DEF AllQuiet
  <2>6. QED
    BY <2>1, <2>4, <2>5
<1>8. QED
  BY <1>2, <1>3, <1>4, <1>5, <1>6, <1>7

LEMMA ProcessIsQuiet ==
    ASSUME JournalInv, NEW r \in Runtime,
           \/ Load(r) \/ Dispose(r) \/ Restart(r) \/ StartReconciler(r) \/ Observe(r)
           \/ FailToObserve(r) \/ DropObservation(r) \/ CommitSyncError(r)
           \/ \E t \in Task : Claim(r, t)
    PROVE AllQuiet
<1>1. CASE Load(r) \/ Observe(r) \/ FailToObserve(r)
  BY <1>1, ReloadIsQuiet DEF Load, Observe, FailToObserve, Reload, Persist, AllQuiet
<1>2. CASE Dispose(r)
  <2> DEFINE own(t) == OwnQueueClosed(r)[t]
             after(t) == [own(t) EXCEPT !.pollLease = IF @ = r THEN "none" ELSE @]
  <2>1. journal' = [t \in Task |-> after(t)]
    BY <1>2 DEF Dispose
  <2>2. ASSUME NEW t \in Task PROVE Quiet(journal[t], after(t))
    <3> DEFINE x == Recovered[t]
               y == own(t)
    <3>1. Quiet(journal[t], x) /\ x \in Record /\ Valid(x)
      BY TaskIsTyped, RecoveredIsQuiet
    <3>2. y \in Record /\ Quiet(x, y)
      <4>1. CASE x.state = "queued" /\ x.owner = r
        <5>1. y = [Unqueued(x) EXCEPT !.state = "failed"] /\ "failed" \in State
          BY <4>1 DEF OwnQueueClosed, State
        <5> HIDE DEF y, x
        <5>2. y \in Record /\ y.state = "failed" /\ y.receipt = x.receipt
          BY <3>1, <5>1, UnqueuedFields
        <5>3. QED
          BY <3>1, <4>1, <5>2 DEF Quiet, HoldsSlot, Valid, WellFormed
      <4>2. CASE ~(x.state = "queued" /\ x.owner = r)
        <5>1. y = x
          BY <4>2 DEF OwnQueueClosed
        <5>2. QED
          BY <3>1, <5>1 DEF Quiet
      <4>3. QED
        BY <4>1, <4>2
    <3> HIDE DEF own, x
    <3>3. after(t).state = y.state /\ after(t).receipt = y.receipt
      BY <3>2 DEF Record
    <3>4. QED
      BY <3>1, <3>2, <3>3 DEF Quiet, HoldsSlot
  <2>3. QED
    BY <2>1, <2>2 DEF AllQuiet
<1>3. CASE Restart(r)
  <2> DEFINE after(t) == [journal[t] EXCEPT !.owner = IF @ = r THEN "gone" ELSE @,
                                            !.pollLease = IF @ = r THEN "gone" ELSE @]
  <2>1. journal' = [t \in Task |-> after(t)]
    BY <1>3 DEF Restart, Orphaned
  <2>2. ASSUME NEW t \in Task PROVE Quiet(journal[t], after(t))
    <3>1. after(t).state = journal[t].state /\ after(t).receipt = journal[t].receipt
      BY TypesNow DEF Record
    <3>2. QED
      BY <3>1 DEF Quiet, HoldsSlot
  <2>3. QED
    BY <2>1, <2>2 DEF AllQuiet
<1>4. CASE StartReconciler(r)
  <2> DEFINE after(t) == [journal[t] EXCEPT !.due = @ \/ Eligible(journal[t])]
  <2>1. journal' = [t \in Task |-> after(t)]
    BY <1>4 DEF StartReconciler
  <2>2. ASSUME NEW t \in Task PROVE Quiet(journal[t], after(t))
    <3>1. after(t).state = journal[t].state /\ after(t).receipt = journal[t].receipt
      BY TypesNow DEF Record
    <3>2. QED
      BY <3>1 DEF Quiet, HoldsSlot
  <2>3. QED
    BY <2>1, <2>2 DEF AllQuiet
<1>5. CASE DropObservation(r) \/ CommitSyncError(r)
  <2> DEFINE t == poller[r].task
             after(due) == [journal[t] EXCEPT !.pollLease = "none", !.pollLapsed = FALSE, !.due = due]
  <2>1. t \in Task
    BY <1>5, TypesNow DEF JournalInv, PollsATask, DropObservation, CommitSyncError
  <2>2. \/ journal' = journal
        \/ \E due \in BOOLEAN : journal' = [journal EXCEPT ![t] = after(due)]
    <3>1. (journal[t].due \/ Eligible(journal[t])) \in BOOLEAN
      BY <2>1, TypesNow DEF Record, Eligible
    <3>2. QED
      BY <1>5, <3>1 DEF DropObservation, CommitSyncError
  <2>3. ASSUME NEW due \in BOOLEAN
        PROVE after(due).state = journal[t].state /\ after(due).receipt = journal[t].receipt
    BY <2>1, TypesNow DEF Record
  <2> HIDE DEF t, after
  <2>4. QED
    BY <2>1, <2>2, <2>3, MarksAreQuiet, ReloadIsQuiet DEF AllQuiet
<1>6. ASSUME NEW t \in Task, Claim(r, t) PROVE AllQuiet
  <2> DEFINE y == [journal[t] EXCEPT !.pollLease = r, !.pollLapsed = FALSE]
  <2>1. journal' = [journal EXCEPT ![t] = y]
    BY <1>6, TypesNow DEF Claim
  <2>2. y.state = journal[t].state /\ y.receipt = journal[t].receipt
    BY TypesNow DEF Record
  <2> HIDE DEF y
  <2>3. QED
    BY <2>1, <2>2, MarksAreQuiet DEF AllQuiet
<1>7. QED
  BY <1>1, <1>2, <1>3, <1>4, <1>5, <1>6

LEMMA SurroundingsAreQuiet ==
    ASSUME JournalInv,
           \/ \E t \in Task : \/ RequestNow(t) \/ LeaseLapses(t) \/ PollLeaseLapses(t)
                              \/ OfficialJobEnds(t)
           \/ SwitchAccount \/ UNCHANGED journalVars
    PROVE AllQuiet
<1>1. CASE journal' = journal
  BY <1>1, ReloadIsQuiet DEF AllQuiet
<1>2. ASSUME NEW t \in Task, RequestNow(t) \/ LeaseLapses(t) \/ PollLeaseLapses(t) PROVE AllQuiet
  <2>1. PICK y \in {[journal[t] EXCEPT !.due = TRUE], [journal[t] EXCEPT !.lapsed = TRUE],
                    [journal[t] EXCEPT !.pollLapsed = TRUE]} : journal' = [journal EXCEPT ![t] = y]
    BY <1>2 DEF RequestNow, LeaseLapses, PollLeaseLapses
  <2>2. y.state = journal[t].state /\ y.receipt = journal[t].receipt
    BY TypesNow DEF Record
  <2>3. QED
    BY <2>1, <2>2, MarksAreQuiet DEF AllQuiet
<1>3. QED
  BY <1>1, <1>2 DEF OfficialJobEnds, SwitchAccount, journalVars

\* The steps that are not quiet, and the task each of them is about.
LEMMA EnqueueIsOne ==
    ASSUME JournalInv, NEW r \in Runtime, NEW t \in Task, Enqueue(r, t)
    PROVE /\ \A u \in Task \ {t} : Quiet(journal[u], journal'[u])
          /\ \/ Quiet(journal[t], journal'[t])
             \/ journal'[t].state = "queued" /\ ~journal'[t].receipt
<1> DEFINE entry == [NoRecord EXCEPT !.state = "queued", !.owner = r, !.ticket = nextTicket]
<1>1. entry \in Record /\ entry.state = "queued" /\ ~entry.receipt
  BY TypesNow DEF NoRecord, Record, State
<1> HIDE DEF entry
<1>2. CASE journal' = Recovered
  BY <1>2, ReloadIsQuiet
<1>3. CASE Persist(r, With(t, entry))
  <2>1. journal' = With(t, entry)
    BY <1>3 DEF Persist
  <2>2. journal'[t] = entry
    BY <2>1, RecoveredType DEF With
  <2>3. QED
    BY <1>1, <1>3, <2>2, WriteIsQuiet
<1>4. QED
  BY <1>2, <1>3 DEF Enqueue, entry

LEMMA ReserveIsOne ==
    ASSUME JournalInv, NEW r \in Runtime, NEW t \in Task, Reserve(r, t)
    PROVE /\ \A u \in Task \ {t} : Quiet(journal[u], journal'[u])
          /\ \/ Quiet(journal[t], journal'[t])
             \/ /\ HasPriority(t) /\ \A u \in Task \ {t} : journal'[u] = Recovered[u]
                /\ journal[t].state # "absent" /\ ~journal'[t].receipt
<1> DEFINE x == Recovered[t]
           reserved == [Unqueued(x) EXCEPT !.state = "pending", !.phase = "reserved", !.owner = r]
<1>1. x \in Record /\ Valid(x) /\ Quiet(journal[t], x)
  BY TaskIsTyped, RecoveredIsQuiet
<1>2. reserved \in Record /\ reserved.receipt = x.receipt
  <2>1. "pending" \in State
    BY DEF State
  <2> DEFINE y == [Unqueued(x) EXCEPT !.state = "pending"]
  <2>2. y \in Record /\ y.receipt = x.receipt
    BY <1>1, <2>1, UnqueuedFields
  <2>3. reserved = [y EXCEPT !.phase = "reserved", !.owner = r]
    OBVIOUS
  <2> HIDE DEF y, reserved
  <2>4. QED
    BY <2>2, <2>3 DEF Record
<1> HIDE DEF reserved
<1>3. CASE journal' = journal \/ journal' = Recovered
  BY <1>3, ReloadIsQuiet
<1>4. CASE x.state = "queued" /\ HasPriority(t) /\ Persist(r, With(t, reserved))
  <2>1. journal'[t] = reserved
    BY <1>4, RecoveredType DEF With, Persist
  <2>2. journal[t].state # "absent" /\ ~x.receipt
    BY <1>1, <1>4 DEF Quiet, Valid, WellFormed
  <2>3. QED
    BY <1>2, <1>4, <2>1, <2>2, WriteIsQuiet
<1>5. QED
  BY <1>3, <1>4 DEF Reserve, Reload, Persist, FailToPersist, reserved

LEMMA AcceptedIsOne ==
    ASSUME JournalInv, NEW r \in Runtime, NEW t \in Task, CommitAcceptedReceipt(r, t)
    PROVE /\ \A u \in Task \ {t} : Quiet(journal[u], journal'[u])
          /\ \/ Quiet(journal[t], journal'[t])
             \/ /\ Goto(r, t, "accepted") /\ submission[r][t].pc = "sent"
                /\ HoldsSlot(journal[t]) /\ journal'[t].state = "accepted"
<1> DEFINE x == Recovered[t]
           accepted == [Unreserved(x) EXCEPT !.state = "accepted", !.receipt = TRUE]
<1>1. x \in Record /\ Valid(x) /\ Quiet(journal[t], x)
  BY TaskIsTyped, RecoveredIsQuiet
<1>2. accepted \in Record /\ accepted.state = "accepted"
  <2>1. Unreserved(x) \in Record
    BY <1>1 DEF Unreserved, Record
  <2>2. QED
    BY <2>1 DEF Record, State
<1> HIDE DEF accepted
<1>3. CASE journal' = journal \/ journal' = Recovered
  BY <1>3, ReloadIsQuiet
<1>4. CASE Reserves(r, t, x) /\ Persist(r, With(t, accepted)) /\ Goto(r, t, "accepted")
  <2>1. journal'[t] = accepted
    BY <1>4, RecoveredType DEF With, Persist
  <2>2. HoldsSlot(journal[t])
    BY <1>1, <1>4 DEF Quiet, Reserves, HoldsSlot
  <2>3. submission[r][t].pc = "sent"
    BY DEF CommitAcceptedReceipt
  <2>4. QED
    BY <1>2, <1>4, <2>1, <2>2, <2>3, WriteIsQuiet
<1>5. QED
  BY <1>3, <1>4 DEF CommitAcceptedReceipt, Reload, Persist, FailToPersist, accepted

LEMMA FailTaskIsOne ==
    ASSUME JournalInv, NEW r \in Runtime, NEW t \in Task, FailTask(r, t)
    PROVE /\ \A u \in Task \ {t} : Quiet(journal[u], journal'[u])
          /\ \/ Quiet(journal[t], journal'[t])
             \/ /\ journal[t].receipt /\ submission[r][t].pc = "closing"
                /\ journal[t].state # "absent" /\ ~HoldsSlot(journal'[t])
<1> DEFINE x == Recovered[t]
           failed == [Unqueued(x) EXCEPT !.state = "failed"]
<1>1. x \in Record /\ Valid(x) /\ Quiet(journal[t], x) /\ "failed" \in State
  BY TaskIsTyped, RecoveredIsQuiet DEF State
<1>2. failed \in Record /\ failed.state = "failed" /\ failed.receipt = x.receipt
  BY <1>1, UnqueuedFields
<1> HIDE DEF failed
<1>3. CASE journal' = journal \/ journal' = Recovered
  BY <1>3, ReloadIsQuiet
<1>4. CASE memory[r][t] # "absent" /\ Accepts(r) /\ Persist(r, With(t, failed))
  <2>1. journal'[t] = failed
    BY <1>4, RecoveredType DEF With, Persist
  <2>2. x.state # "absent"
    BY <1>4 DEF Accepts
  <2> HIDE DEF x
  <2>3. CASE x.receipt
    BY <1>1, <1>2, <1>4, <2>1, <2>2, <2>3, WriteIsQuiet DEF x, FailTask, HoldsSlot, Quiet
  <2>4. CASE ~x.receipt
    <3>1. Quiet(x, failed)
      BY <1>1, <1>2, <2>2, <2>4 DEF Quiet, HoldsSlot
    <3>2. QED
      BY <1>2, <1>4, <3>1, WriteIsQuiet DEF x
  <2>5. QED
    BY <2>3, <2>4
<1>5. QED
  BY <1>3, <1>4 DEF FailTask, TransitionTask, Reload, Persist, failed

LEMMA ObservationIsOne ==
    ASSUME JournalInv, NEW r \in Runtime, CommitObservation(r)
    PROVE LET p == poller[r] t == poller[r].task IN
          /\ t \in Task
          /\ \A u \in Task \ {t} : Quiet(journal[u], journal'[u])
          /\ \/ Quiet(journal[t], journal'[t])
             \/ /\ HoldsSlot(journal'[t]) => HoldsSlot(journal[t])
                /\ journal[t].state # "absent" /\ journal[t].receipt
                /\ \/ journal[t].state = "succeeded" /\ journal'[t].state = "succeeded"
                   \/ journal'[t].state = "accepted"
                   \/ official[t] = "completed" /\ journal'[t].state = "succeeded"
                   \/ /\ official[t] \in {"failed", "cancelled"}
                      /\ journal'[t].state = official[t]
<1> DEFINE p == poller[r]
           t == p.task
           x == journal[t]
           again == p.status = "pending" \/ (p.status = "completed" /\ ~p.outputs)
           after == [Observed(x, p.status, p.outputs) EXCEPT !.pollLease = "none",
                       !.pollLapsed = FALSE, !.due = again]
<1>1. p.pc = "observed"
  BY DEF CommitObservation
<1>2. t \in Task /\ Polls(p, x, official[t]) /\ p \in Poll
  BY <1>1, TypesNow DEF JournalInv, PollsATask, TaskInv
<1>3. CASE journal' = journal
  BY <1>2, <1>3, ReloadIsQuiet
<1>4. CASE Progress(x, after) /\ journal' = [journal EXCEPT ![t] = after]
  <2>1. x \in Record /\ Valid(x) /\ x.receipt
    BY <1>1, <1>2, TaskIsTyped DEF Polls
  <2>2. /\ p.status \in Status /\ p.status # "none" /\ p.outputs \in BOOLEAN
        /\ p.outputs => p.status = "completed"
        /\ again \in BOOLEAN
    BY <1>1, <1>2 DEF Polls, Poll, Status
  <2>3. p.status # "pending" => p.status = official[t]
    BY <1>1, <1>2 DEF Polls
  <2> HIDE DEF again, x, p
  <2>4. /\ after \in Record
        /\ \/ x.state = "succeeded" /\ p.status # "completed" /\ after.state = "succeeded"
           \/ p.status = "pending" /\ after.state = "accepted"
           \/ p.status = "completed" /\ after.state = "succeeded"
           \/ p.status \in {"failed", "cancelled"} /\ after.state = p.status
    <3>1. after = Written(x, p.status, p.outputs, again)
      BY DEF Written
    <3> HIDE DEF after
    <3>2. QED
      BY <2>1, <2>2, <3>1, ObservedIsValid
  <2> HIDE DEF after
  <2>5. HoldsSlot(after) => HoldsSlot(x)
    BY <1>4, <2>1, <2>4 DEF HoldsSlot, Progress, Rank, Valid
  <2>6. x.state # "absent"
    BY <2>1 DEF Valid
  <2>7. journal'[t] = after /\ \A u \in Task \ {t} : journal'[u] = journal[u]
    BY <1>2, <1>4, <2>4, TypesNow
  <2>8. \A u \in Task \ {t} : Quiet(journal[u], journal'[u])
    BY <2>7, RecoveredIsQuiet
  <2>9. QED
    BY <1>2, <2>3, <2>1, <2>2, <2>4, <2>5, <2>6, <2>7, <2>8 DEF x, p
<1>5. QED
  BY <1>3, <1>4 DEF CommitObservation

-----------------------------------------------------------------------------
(* The official slots.                                                     *)

Holders(j) == {t \in Task : HoldsSlot(j[t])}
Known(j) == {t \in Task : j[t].state # "absent"}
SlotsInv == IsFiniteSet(Known(journal)) /\ SlotsRespected

LEMMA SlotsAreHolders == \A j : SlotsTaken(j) = Cardinality(Holders(j))
  BY DEF SlotsTaken, Holders, HoldsSlot

LEMMA HoldersAreFinite ==
    ASSUME NEW j, IsFiniteSet(Known(j))
    PROVE IsFiniteSet(Holders(j)) /\ Cardinality(Holders(j)) \in Nat
<1>1. Holders(j) \in SUBSET Known(j)
  BY DEF Holders, Known, HoldsSlot
<1>2. QED
  BY <1>1, FS_Subset, FS_CardinalityType

\* A step by which at most t is new, and no slot is taken.
LEMMA NoSlotTaken ==
    ASSUME SlotsInv, NEW t, Known(journal') \subseteq Known(journal) \cup {t},
           Holders(journal') \subseteq Holders(journal)
    PROVE SlotsInv'
<1>1. IsFiniteSet(Known(journal'))
  BY FS_AddElement, FS_Subset DEF SlotsInv
<1>2. Cardinality(Holders(journal')) <= Cardinality(Holders(journal))
  BY HoldersAreFinite, FS_Subset DEF SlotsInv
<1>3. Cardinality(Holders(journal')) \in Nat /\ Cardinality(Holders(journal)) \in Nat
  BY <1>1, HoldersAreFinite DEF SlotsInv
<1>4. QED
  BY <1>1, <1>2, <1>3, SlotsAreHolders, JournalAssumption DEF SlotsInv, SlotsRespected

LEMMA QuietTakesNoSlot == ASSUME SlotsInv, AllQuiet PROVE SlotsInv'
<1>1. Known(journal') \subseteq Known(journal) /\ Holders(journal') \subseteq Holders(journal)
  BY DEF AllQuiet, Quiet, Known, Holders
<1>2. QED
  BY <1>1, NoSlotTaken

LEMMA ReserveTakesOneSlot ==
    ASSUME JournalInv, SlotsInv, NEW t \in Task, HasPriority(t), journal[t].state # "absent",
           \A u \in Task \ {t} : Quiet(journal[u], journal'[u]) /\ journal'[u] = Recovered[u]
    PROVE SlotsInv'
<1> DEFINE ahead == {u \in Task : Recovered[u].state = "queued" /\ Recovered[u].ticket < Recovered[t].ticket}
<1>1. Known(journal') \subseteq Known(journal) /\ Known(Recovered) \subseteq Known(journal)
  BY RecoveredIsQuiet DEF Known, Quiet
<1>2. IsFiniteSet(Known(journal')) /\ IsFiniteSet(Known(Recovered))
  BY <1>1, FS_Subset DEF SlotsInv
<1>3. ahead \in SUBSET Known(Recovered)
  BY DEF Known
<1>4. Cardinality(ahead) \in Nat
  BY <1>2, <1>3, FS_Subset, FS_CardinalityType
<1>5. Cardinality(ahead) + Cardinality(Holders(Recovered)) < MaxActive
  BY SlotsAreHolders DEF HasPriority
<1>6. Holders(journal') \subseteq Holders(Recovered) \cup {t}
  BY DEF Holders
<1> HIDE DEF ahead
<1>7. /\ IsFiniteSet(Holders(Recovered)) /\ Cardinality(Holders(Recovered)) \in Nat
      /\ IsFiniteSet(Holders(journal')) /\ Cardinality(Holders(journal')) \in Nat
  BY <1>2, HoldersAreFinite
<1>8. /\ IsFiniteSet(Holders(Recovered) \cup {t})
      /\ Cardinality(Holders(Recovered) \cup {t}) <= Cardinality(Holders(Recovered)) + 1
      /\ Cardinality(Holders(Recovered) \cup {t}) \in Nat
  <2>1. IsFiniteSet(Holders(Recovered) \cup {t})
    BY <1>7, FS_AddElement
  <2>2. Cardinality(Holders(Recovered) \cup {t}) \in Nat
    BY <2>1, FS_CardinalityType
  <2>3. \/ Cardinality(Holders(Recovered) \cup {t}) = Cardinality(Holders(Recovered))
        \/ Cardinality(Holders(Recovered) \cup {t}) = Cardinality(Holders(Recovered)) + 1
    BY <1>7, FS_AddElement
  <2>4. QED
    BY <1>7, <2>1, <2>2, <2>3
<1>9. Cardinality(Holders(journal')) <= Cardinality(Holders(Recovered) \cup {t})
  BY <1>6, <1>8, FS_Subset
<1>10. Cardinality(Holders(journal')) <= MaxActive
  BY <1>4, <1>5, <1>7, <1>8, <1>9, JournalAssumption
<1>11. QED
  BY <1>2, <1>10, SlotsAreHolders DEF SlotsInv, SlotsRespected

LEMMA SlotsInvInit == JournalInit => SlotsInv
<1> SUFFICES ASSUME JournalInit PROVE SlotsInv
  OBVIOUS
<1>1. Known(journal) = {} /\ Holders(journal) = {}
  BY DEF JournalInit, Known, Holders, HoldsSlot, NoRecord
<1>2. QED
  BY <1>1, FS_EmptySet, SlotsAreHolders, JournalAssumption DEF SlotsInv, SlotsRespected

LEMMA SlotsInvStep == JournalInv /\ SlotsInv /\ [JournalNext]_journalVars => SlotsInv'
<1> SUFFICES ASSUME JournalInv, SlotsInv, [JournalNext]_journalVars PROVE SlotsInv'
  OBVIOUS
<1>1. CASE AllQuiet
  BY <1>1, QuietTakesNoSlot
<1>2. ASSUME NEW r \in Runtime, NEW t \in Task, Enqueue(r, t) PROVE SlotsInv'
  <2>1. /\ Known(journal') \subseteq Known(journal) \cup {t}
        /\ Holders(journal') \subseteq Holders(journal)
    BY <1>2, EnqueueIsOne DEF Known, Holders, HoldsSlot, Quiet
  <2>2. QED
    BY <2>1, NoSlotTaken
<1>3. ASSUME NEW r \in Runtime, NEW t \in Task, Reserve(r, t) PROVE SlotsInv'
  BY <1>1, <1>3, ReserveIsOne, ReserveTakesOneSlot DEF AllQuiet
<1>4. ASSUME NEW r \in Runtime, NEW t \in Task, CommitAcceptedReceipt(r, t) \/ FailTask(r, t)
      PROVE SlotsInv'
  <2>1. /\ Known(journal') \subseteq Known(journal) \cup {t}
        /\ Holders(journal') \subseteq Holders(journal)
    BY <1>4, AcceptedIsOne, FailTaskIsOne DEF Known, Holders, HoldsSlot, Quiet
  <2>2. QED
    BY <2>1, NoSlotTaken
<1>5. ASSUME NEW r \in Runtime, CommitObservation(r) PROVE SlotsInv'
  <2>1. /\ Known(journal') \subseteq Known(journal)
        /\ Holders(journal') \subseteq Holders(journal)
    BY <1>5, ObservationIsOne DEF Known, Holders, Quiet
  <2>2. QED
    BY <2>1, NoSlotTaken
<1>6. QED
  BY <1>1, <1>2, <1>3, <1>4, <1>5, SubmissionIsQuiet, ProcessIsQuiet, SurroundingsAreQuiet
     DEF JournalNext, Submit, Reconcile

\* The official slots are never oversold, whatever processes reserve them.
THEOREM SlotsNeverOversold == JournalSpec => []SlotsRespected
<1>1. SlotsInv => SlotsRespected
  BY DEF SlotsInv
<1>2. QED
  BY <1>1, SlotsInvInit, SlotsInvStep, JournalInvariant, PTL DEF JournalSpec

-----------------------------------------------------------------------------
(* The outcome of a task, when every lease of the command line is released. *)

\* The outcome x of a task is the provider's.
IsOfficial(x, status) ==
    x.receipt =>
        /\ x.state = "succeeded" => status = "completed"
        /\ x.state \in {"failed", "cancelled"} => status = x.state

\* A submission that may still fail has no receipt.
Submitting == {"starting", "waiting", "reserved", "invoked", "permitted", "sent", "failing", "closing"}
FailsBefore(s, x) == s.pc \in Submitting => ~x.receipt

OutcomeInv ==
    \A t \in Task : /\ IsOfficial(journal[t], official[t])
                    /\ \A r \in Runtime : FailsBefore(submission[r][t], journal[t])

\* The lease is given back (ReleaseInvocation does not fail).
Releases ==
    \A r \in Runtime, t \in Task :
        submission[r][t].pc = "accepted" => submission'[r][t].pc # "failing"
ReleasesSucceed == [][Releases]_journalVars

\* Only Enqueue starts a submission, and only a failed release makes one that
\* was accepted fail.
LEMMA SubmittingFromSubmitting ==
    ASSUME JournalInv, JournalNext, Releases, NEW q \in Runtime, NEW u \in Task,
           submission'[q][u].pc \in Submitting
    PROVE submission[q][u].pc \in Submitting \/ Enqueue(q, u)
<1>1. ASSUME UNCHANGED submission PROVE submission[q][u].pc \in Submitting
  BY <1>1
<1>2. ASSUME submission'[q][u] = submission[q][u] \/ submission'[q][u] = NoSubmission
      PROVE submission[q][u].pc \in Submitting
  BY <1>2, NoSubmissionIsOne DEF Submitting
<1>3. ASSUME NEW r \in Runtime, Dispose(r) \/ Restart(r) PROVE submission[q][u].pc \in Submitting
  <2>1. submission' = [submission EXCEPT ![r] = [t \in Task |-> NoSubmission]]
    BY <1>3 DEF Dispose, Restart
  <2>2. submission'[q][u] = submission[q][u] \/ submission'[q][u] = NoSubmission
    BY <2>1, TypesNow
  <2>3. QED
    BY <1>2, <2>2
<1>4. ASSUME NEW r \in Runtime, NEW t \in Task, Finish(r, t)
      PROVE submission[q][u].pc \in Submitting
  <2>1. MovesAlone(r, t) /\ submission'[r][t] = NoSubmission
    BY <1>4, TypesNow, Finishing
  <2>2. submission'[q][u] = submission[q][u] \/ submission'[q][u] = NoSubmission
    BY <2>1 DEF MovesAlone
  <2>3. QED
    BY <1>2, <2>2
<1>5. ASSUME NEW r \in Runtime, NEW t \in Task, MovesAlone(r, t)
      PROVE submission[q][u].pc \in Submitting \/ (q = r /\ u = t)
  BY <1>5 DEF MovesAlone
<1>6. ASSUME NEW r \in Runtime, NEW t \in Task, submission[r][t].pc \in Submitting,
             NEW pc \in {"waiting", "reserved", "permitted", "accepted", "failing", "closing"},
             Goto(r, t, pc)
      PROVE submission[q][u].pc \in Submitting
  <2>1. MovesAlone(r, t)
    BY <1>6, TypesNow, Going
  <2>2. QED
    BY <1>5, <1>6, <2>1
<1>7. ASSUME NEW r \in Runtime, NEW t \in Task, Enqueue(r, t)
      PROVE submission[q][u].pc \in Submitting \/ Enqueue(q, u)
  <2>1. UNCHANGED submission \/ Goto(r, t, "starting")
    BY <1>7 DEF Enqueue
  <2>2. Goto(r, t, "starting") => MovesAlone(r, t)
    BY TypesNow, Going
  <2>3. QED
    BY <1>1, <1>5, <1>7, <2>1, <2>2
<1>8. ASSUME NEW r \in Runtime, NEW t \in Task, Prepare(r, t) PROVE submission[q][u].pc \in Submitting
  <2> DEFINE s == [pc |-> "invoked", spawned |-> FALSE, fenced |-> TRUE, account |-> accountNow]
  <2>1. s \in Submission
    BY TypesNow DEF Submission
  <2>2. submission[r][t].pc \in Submitting
    BY <1>8 DEF Prepare, Submitting
  <2>3. CASE submission' = [submission EXCEPT ![r][t] = s]
    <3> HIDE DEF s
    <3>1. MovesAlone(r, t)
      BY <2>1, <2>3, TypesNow DEF MovesAlone
    <3>2. QED
      BY <1>5, <2>2, <3>1
  <2>4. CASE Goto(r, t, "failing") \/ Finish(r, t)
    BY <1>4, <1>6, <2>2, <2>4
  <2>5. QED
    BY <1>8, <2>3, <2>4 DEF Prepare
<1>9. ASSUME NEW r \in Runtime, NEW t \in Task, Spawn(r, t) PROVE submission[q][u].pc \in Submitting
  <2>1. submission[r][t].pc \in Submitting
    BY <1>9 DEF Spawn, Submitting
  <2>2. CASE Goto(r, t, "failing")
    BY <1>6, <2>1, <2>2
  <2>3. ASSUME NEW receipt \in BOOLEAN,
               submission' = [submission EXCEPT ![r][t].pc = IF receipt THEN "sent" ELSE "failing",
                                                ![r][t].spawned = TRUE]
        PROVE submission[q][u].pc \in Submitting
    BY <2>1, <2>3, TypesNow
  <2>4. QED
    BY <1>9, <2>2, <2>3 DEF Spawn
<1>10. ASSUME NEW r \in Runtime, NEW t \in Task,
              \/ Reserve(r, t) \/ CommitInvocationFence(r, t) \/ CommitAcceptedReceipt(r, t)
              \/ CommitSubmissionFailure(r, t)
       PROVE submission[q][u].pc \in Submitting
  <2>1. submission[r][t].pc \in Submitting
    BY <1>10 DEF Reserve, CommitInvocationFence, CommitAcceptedReceipt, CommitSubmissionFailure,
       Submitting
  <2>2. \/ Finish(r, t)
        \/ \E pc \in {"waiting", "reserved", "permitted", "accepted", "failing", "closing"} :
              Goto(r, t, pc)
    BY <1>10 DEF Reserve, CommitInvocationFence, CommitAcceptedReceipt, CommitSubmissionFailure
  <2>3. QED
    BY <1>4, <1>6, <2>1, <2>2
<1>11. ASSUME NEW r \in Runtime, NEW t \in Task, ReleaseInvocation(r, t)
       PROVE submission[q][u].pc \in Submitting
  <2>1. PICK pc \in {"scheduling", "failing"} : Goto(r, t, pc)
    BY <1>11 DEF ReleaseInvocation
  <2>2. MovesAlone(r, t) /\ submission'[r][t].pc = pc /\ submission[r][t].pc = "accepted"
    BY <1>11, <2>1, Going, TypesNow DEF ReleaseInvocation
  <2>3. pc = "scheduling"
    BY <2>2 DEF Releases
  <2>4. QED
    BY <2>2, <2>3 DEF MovesAlone, Submitting
<1>12. ASSUME NEW r \in Runtime, NEW t \in Task,
              Schedule(r, t) \/ FailTask(r, t) \/ Cancel(r, t) \/ Delete(r, t)
       PROVE submission[q][u].pc \in Submitting
  BY <1>1, <1>4, <1>12 DEF Schedule, FailTask, Cancel, Delete
<1>13. ASSUME NEW r \in Runtime, Load(r) \/ Reconcile(r) PROVE UNCHANGED submission
  BY <1>13 DEF Load, Reconcile, StartReconciler, Observe, FailToObserve, CommitObservation,
     DropObservation, CommitSyncError, Claim
<1>14. ASSUME NEW t \in Task,
              RequestNow(t) \/ LeaseLapses(t) \/ PollLeaseLapses(t) \/ OfficialJobEnds(t)
       PROVE UNCHANGED submission
  BY <1>14 DEF RequestNow, LeaseLapses, PollLeaseLapses, OfficialJobEnds
<1>15. SwitchAccount => UNCHANGED submission
  BY DEF SwitchAccount
<1>16. QED
  BY <1>1, <1>3, <1>7, <1>8, <1>9, <1>10, <1>11, <1>12, <1>13, <1>14, <1>15
     DEF JournalNext, Submit

\* What may become of an outcome.
LEMMA OutcomeMoves ==
    ASSUME JournalInv, JournalNext, NEW u \in Task
    PROVE \/ Quiet(journal[u], journal'[u])
          \/ ~journal'[u].receipt
          \/ \E r \in Runtime : /\ Goto(r, u, "accepted") /\ submission[r][u].pc = "sent"
                                /\ journal'[u].state = "accepted"
          \/ journal[u].receipt /\ \E r \in Runtime : submission[r][u].pc = "closing"
          \/ /\ journal[u].receipt
             /\ \/ journal[u].state = "succeeded" /\ journal'[u].state = "succeeded"
                \/ journal'[u].state = "accepted"
                \/ official[u] = "completed" /\ journal'[u].state = "succeeded"
                \/ official[u] \in {"failed", "cancelled"} /\ journal'[u].state = official[u]
<1>1. CASE AllQuiet
  BY <1>1 DEF AllQuiet
<1>2. ASSUME NEW r \in Runtime, NEW t \in Task, Enqueue(r, t)
      PROVE Quiet(journal[u], journal'[u]) \/ ~journal'[u].receipt
  BY <1>2, EnqueueIsOne
<1>3. ASSUME NEW r \in Runtime, NEW t \in Task, Reserve(r, t)
      PROVE Quiet(journal[u], journal'[u]) \/ ~journal'[u].receipt
  BY <1>3, ReserveIsOne
<1>4. ASSUME NEW r \in Runtime, NEW t \in Task, CommitAcceptedReceipt(r, t)
      PROVE \/ Quiet(journal[u], journal'[u])
            \/ /\ Goto(r, u, "accepted") /\ submission[r][u].pc = "sent"
               /\ journal'[u].state = "accepted"
  BY <1>4, AcceptedIsOne
<1>5. ASSUME NEW r \in Runtime, NEW t \in Task, FailTask(r, t)
      PROVE \/ Quiet(journal[u], journal'[u])
            \/ journal[u].receipt /\ submission[r][u].pc = "closing"
  BY <1>5, FailTaskIsOne
<1>6. ASSUME NEW r \in Runtime, CommitObservation(r)
      PROVE \/ Quiet(journal[u], journal'[u])
            \/ /\ journal[u].receipt
               /\ \/ journal[u].state = "succeeded" /\ journal'[u].state = "succeeded"
                  \/ journal'[u].state = "accepted"
                  \/ official[u] = "completed" /\ journal'[u].state = "succeeded"
                  \/ official[u] \in {"failed", "cancelled"} /\ journal'[u].state = official[u]
  BY <1>6, ObservationIsOne
<1>7. \/ AllQuiet
      \/ \E r \in Runtime, t \in Task :
            \/ Enqueue(r, t) \/ Reserve(r, t) \/ CommitAcceptedReceipt(r, t) \/ FailTask(r, t)
      \/ \E r \in Runtime : CommitObservation(r)
  BY SubmissionIsQuiet, ProcessIsQuiet, SurroundingsAreQuiet DEF JournalNext, Submit, Reconcile
<1>8. QED
  BY <1>1, <1>2, <1>3, <1>4, <1>5, <1>6, <1>7

\* The provider's status moves before the receipt or from "pending".
LEMMA StatusMoves ==
    ASSUME JournalInv, JournalNext, NEW u \in Task, official'[u] # official[u]
    PROVE AllQuiet /\ (official[u] = "pending" \/ ~journal[u].receipt)
<1>1. ASSUME NEW r \in Runtime, NEW t \in Task, Spawn(r, t)
      PROVE AllQuiet /\ (official[u] = "pending" \/ ~journal[u].receipt)
  <2>1. AllQuiet
    BY <1>1, SubmissionIsQuiet
  <2>2. submission[r][t].pc = "permitted"
    BY <1>1 DEF Spawn
  <2>3. u = t
    BY <1>1, TypesNow DEF Spawn
  <2>4. ~journal[t].receipt
    BY <2>2, TaskIsTyped DEF Drives, Accounted
  <2>5. QED
    BY <2>1, <2>3, <2>4
<1>2. ASSUME NEW t \in Task, OfficialJobEnds(t)
      PROVE AllQuiet /\ (official[u] = "pending" \/ ~journal[u].receipt)
  <2>1. AllQuiet
    BY <1>2, SurroundingsAreQuiet
  <2>2. u = t
    BY <1>2, TypesNow DEF OfficialJobEnds
  <2>3. QED
    BY <1>2, <2>1, <2>2 DEF OfficialJobEnds
<1>3. ASSUME NEW r \in Runtime, Load(r) \/ Reconcile(r) \/ Dispose(r) \/ Restart(r)
      PROVE UNCHANGED official
  BY <1>3 DEF Load, Reconcile, StartReconciler, Observe, FailToObserve, CommitObservation,
     DropObservation, CommitSyncError, Claim, Dispose, Restart, providerVars
<1>4. ASSUME NEW r \in Runtime, NEW t \in Task,
             Enqueue(r, t) \/ (Submit(r, t) /\ ~Spawn(r, t)) \/ Cancel(r, t) \/ Delete(r, t)
      PROVE UNCHANGED official
  BY <1>4 DEF Enqueue, Submit, Reserve, Prepare, CommitInvocationFence, CommitAcceptedReceipt,
     ReleaseInvocation, Schedule, CommitSubmissionFailure, FailTask, Cancel, Delete, providerVars
<1>5. ASSUME NEW t \in Task, RequestNow(t) \/ LeaseLapses(t) \/ PollLeaseLapses(t)
      PROVE UNCHANGED official
  BY <1>5 DEF RequestNow, LeaseLapses, PollLeaseLapses, providerVars
<1>6. SwitchAccount => UNCHANGED official
  BY DEF SwitchAccount
<1>7. QED
  BY <1>1, <1>2, <1>3, <1>4, <1>5, <1>6 DEF JournalNext

LEMMA OutcomeInvInit == JournalInit => OutcomeInv
  BY DEF JournalInit, OutcomeInv, NoRecord, IsOfficial, FailsBefore

LEMMA OutcomeInvStep ==
    JournalInv /\ OutcomeInv /\ [JournalNext]_journalVars /\ [Releases]_journalVars => OutcomeInv'
<1> SUFFICES ASSUME JournalInv, OutcomeInv, [JournalNext]_journalVars, [Releases]_journalVars
             PROVE OutcomeInv'
  OBVIOUS
<1>1. CASE UNCHANGED journalVars
  BY <1>1 DEF journalVars, OutcomeInv
<1>2. CASE JournalNext /\ Releases
  <2> SUFFICES ASSUME NEW u \in Task
               PROVE /\ IsOfficial(journal'[u], official'[u])
                     /\ \A q \in Runtime : FailsBefore(submission'[q][u], journal'[u])
    BY DEF OutcomeInv
  <2>1. IsOfficial(journal[u], official[u]) /\ \A q \in Runtime : FailsBefore(submission[q][u], journal[u])
    BY DEF OutcomeInv
  <2>2. ASSUME NEW r \in Runtime, journal[u].receipt PROVE submission[r][u].pc # "closing"
    BY <2>1, <2>2 DEF FailsBefore, Submitting
  <2>3. ASSUME official'[u] = official[u] PROVE IsOfficial(journal'[u], official'[u])
    BY <1>2, <2>1, <2>2, <2>3, OutcomeMoves DEF IsOfficial, Quiet
  <2>4. ASSUME official'[u] # official[u] PROVE IsOfficial(journal'[u], official'[u])
    BY <1>2, <2>1, <2>4, StatusMoves DEF IsOfficial, Quiet, AllQuiet
  <2>5. ASSUME NEW q \in Runtime PROVE FailsBefore(submission'[q][u], journal'[u])
    <3> SUFFICES ASSUME submission'[q][u].pc \in Submitting PROVE ~journal'[u].receipt
      BY DEF FailsBefore
    <3>1. submission[q][u].pc \in Submitting \/ Enqueue(q, u)
      BY <1>2, SubmittingFromSubmitting
    <3>2. CASE Enqueue(q, u)
      <4>1. Recovered[u].state = "absent"
        BY <3>2 DEF Enqueue
      <4>2. ~Recovered[u].receipt
        BY <4>1, TaskIsTyped DEF Valid, Record
      <4>3. ~journal[u].receipt
        BY <4>2, RecoveredIsQuiet DEF Quiet
      <4>4. QED
        BY <3>2, <4>3, EnqueueIsOne DEF Quiet
    <3>3. CASE submission[q][u].pc \in Submitting
      <4>1. ~journal[u].receipt
        BY <2>1, <3>3 DEF FailsBefore
      <4>2. ASSUME NEW r \in Runtime, Goto(r, u, "accepted"), submission[r][u].pc = "sent" PROVE FALSE
        <5>1. submission'[r][u].pc = "accepted"
          BY <4>2, Going, TypesNow
        <5>2. q = r
          BY <3>3, <4>2 DEF JournalInv, TaskInv, DrivenOnce, Submitting
        <5>3. QED
          BY <5>1, <5>2 DEF Submitting
      <4>3. QED
        BY <1>2, <4>1, <4>2, OutcomeMoves DEF Quiet
    <3>4. QED
      BY <3>1, <3>2, <3>3
  <2>6. QED
    BY <2>3, <2>4, <2>5
<1>3. QED
  BY <1>1, <1>2

\* Once there is a receipt the outcome is what the provider says of the job, as
\* long as no release of the command line's lease fails.
THEOREM OutcomesAreOfficial == JournalSpec /\ ReleasesSucceed => []OutcomeIsOfficial
<1>1. JournalInv /\ OutcomeInv => OutcomeIsOfficial
  BY DEF JournalInv, TaskInv, Valid, OutcomeInv, IsOfficial, OutcomeIsOfficial
<1>2. QED
  BY <1>1, JournalInvariant, OutcomeInvInit, OutcomeInvStep, PTL DEF JournalSpec, ReleasesSucceed
=============================================================================
