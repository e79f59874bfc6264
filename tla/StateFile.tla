----------------------------- MODULE StateFile -----------------------------
(***************************************************************************)
(* How the local processes share a state file                              *)
(* (src/canvas-agent/src/dreamina-cli-state.ts): a lock that is a          *)
(* directory holding a nonce, which others take over once its owner has    *)
(* not refreshed it for two minutes, and a replacement of the file that    *)
(* moves the old one aside where the system refuses to rename over it.     *)
(*                                                                         *)
(* Each call of the file system is a step; a process may crash between any *)
(* two.  What the file holds is the set of writes it reflects; the writes  *)
(* in Removal take a record away (removablePreSpawnIntent), the others add *)
(* or update one.                                                          *)
(***************************************************************************)
EXTENDS Naturals, FiniteSets

CONSTANTS
    Process,        \* processes that use the file
    Removal,        \* writes that remove a record
    RenameDenied,   \* whether renaming over a file is refused (Windows)
    MaxWrites,      \* bound: writes attempted
    MaxProcessCrashes      \* bound: crashes

ASSUME StateFileAssumption ==
    /\ Process \cap {"none", "unowned"} = {}
    /\ RenameDenied \in BOOLEAN
    /\ MaxWrites \in Nat /\ MaxProcessCrashes \in Nat
    /\ Removal \subseteq 1..MaxWrites

VARIABLES
    lock,       \* the lock directory
    primary,    \* the state file
    backup,     \* the file moved aside, ".replace-backup"
    proc,       \* proc[p]: what p is doing
    acked,      \* writes reported as done
    writes,     \* writes attempted so far
    stolen,     \* the lock of a live owner has been moved away by another
    crashes     \* crashes so far

fileVars == <<lock, primary, backup, proc, acked, writes, stolen, crashes>>

WriteId == 1..MaxWrites
Unowned == "unowned"
Absent == [there |-> FALSE, holds |-> {}]
FileWith(ws) == [there |-> TRUE, holds |-> ws]

\* stale: the lease file has not been touched for LOCK_STALE_MS.
NoLock == [owner |-> "none", stale |-> FALSE]

IdleProc == [pc |-> "idle", write |-> 0, read |-> {}, seen |-> "none", moved |-> NoLock]

ProcRow == [pc : {"idle", "taking", "moved", "owned", "recovered", "replacing", "displaced",
                  "replaced", "restoring", "committed", "releasing", "renaming", "checking"},
            write : WriteId \cup {0},
            read : SUBSET WriteId,                       \* the file as p read it
            seen : Process \cup {Unowned, "none"},      \* whose stale lock it observed
            moved : [owner : Process \cup {Unowned, "none"}, stale : BOOLEAN]]

StateFileTypeOK ==
    /\ lock \in [owner : Process \cup {Unowned, "none"}, stale : BOOLEAN]
    /\ primary \in [there : BOOLEAN, holds : SUBSET WriteId]
    /\ backup \in [there : BOOLEAN, holds : SUBSET WriteId]
    /\ proc \in [Process -> ProcRow]
    /\ acked \subseteq WriteId /\ stolen \in BOOLEAN
    /\ writes \in 0..MaxWrites /\ crashes \in 0..MaxProcessCrashes

StateFileInit ==
    /\ lock = NoLock
    /\ primary = Absent /\ backup = Absent
    /\ proc = [p \in Process |-> IdleProc]
    /\ acked = {} /\ writes = 0 /\ stolen = FALSE /\ crashes = 0

Goes(p, pc) == proc' = [proc EXCEPT ![p].pc = pc]

\* assertOwned
OwnsLock(p) == lock.owner = p

\* A failed operation goes to the release of its finally block.
Abandon(p) == Goes(p, "releasing")

-----------------------------------------------------------------------------
\* acquireStateLock: the directory is made and named; a crash in between
\* leaves one that nobody owns.
TakeLock(p) ==
    /\ proc[p].pc = "idle" /\ writes < MaxWrites
    /\ lock = NoLock
    /\ \/ /\ lock' = [owner |-> p, stale |-> FALSE]
          /\ writes' = writes + 1
          /\ proc' = [proc EXCEPT ![p].pc = "owned", ![p].write = writes + 1]
          /\ UNCHANGED crashes
       \/ /\ crashes < MaxProcessCrashes /\ crashes' = crashes + 1
          /\ lock' = [owner |-> Unowned, stale |-> FALSE]
          /\ UNCHANGED <<writes, proc>>
    /\ UNCHANGED <<primary, backup, acked, stolen>>

\* takeoverStaleLease in its three calls: see that the lease is stale, move
\* the directory, and look at what has been moved.
ObserveStaleLock(p) ==
    /\ proc[p].pc = "idle" /\ lock.stale
    /\ proc' = [proc EXCEPT ![p].pc = "taking", ![p].seen = lock.owner]
    /\ UNCHANGED <<lock, primary, backup, acked, writes, stolen, crashes>>

MoveStaleLock(p) ==
    /\ proc[p].pc = "taking"
    /\ proc' = [proc EXCEPT ![p].pc = IF lock = NoLock THEN "idle" ELSE "moved", ![p].moved = lock]
    /\ lock' = NoLock
    /\ stolen' = (stolen \/ lock.owner \in Process \ {p})
    /\ UNCHANGED <<primary, backup, acked, writes, crashes>>

\* A lock that is not the stale one is put back; if another has been made
\* meanwhile it is lost.
JudgeMovedLock(p) ==
    /\ proc[p].pc = "moved"
    /\ lock' = IF proc[p].moved = [owner |-> proc[p].seen, stale |-> TRUE] \/ lock # NoLock
               THEN lock
               ELSE proc[p].moved
    /\ proc' = [proc EXCEPT ![p] = IdleProc]
    /\ UNCHANGED <<primary, backup, acked, writes, stolen, crashes>>

-----------------------------------------------------------------------------
\* assertProgression: a file that replaced another keeps all its records.
Progresses(old, new) == old \subseteq new /\ (new \ old) \cap Removal = {}

\* Mutant: a file that was moved aside is taken for a left-over.
RecoverWithoutBackup(p) ==
    /\ proc[p].pc = "owned"
    /\ IF ~OwnsLock(p) THEN Abandon(p) /\ UNCHANGED backup
       ELSE /\ proc' = [proc EXCEPT ![p].pc = "recovered", ![p].read = primary.holds]
            /\ backup' = Absent
    /\ UNCHANGED <<lock, primary, acked, writes, stolen, crashes>>

\* recoverStateReplacement, then the file is read.
RecoverFile(p) ==
    /\ proc[p].pc = "owned"
    /\ IF ~OwnsLock(p) THEN Abandon(p) /\ UNCHANGED <<primary, backup>>
       ELSE IF ~backup.there
            THEN /\ proc' = [proc EXCEPT ![p].pc = "recovered", ![p].read = primary.holds]
                 /\ UNCHANGED <<primary, backup>>
       ELSE IF ~primary.there
            THEN primary' = backup /\ backup' = Absent /\ UNCHANGED proc
       ELSE IF Progresses(backup.holds, primary.holds)
            THEN backup' = Absent /\ UNCHANGED <<primary, proc>>
       ELSE Abandon(p) /\ UNCHANGED <<primary, backup>>
    /\ UNCHANGED <<lock, acked, writes, stolen, crashes>>

\* persistRuntimeDiskState writes a temporary file and checks the lock again.
WriteTemporary(p) ==
    /\ proc[p].pc = "recovered"
    /\ Goes(p, IF OwnsLock(p) THEN "replacing" ELSE "releasing")
    /\ UNCHANGED <<lock, primary, backup, acked, writes, stolen, crashes>>

NewFile(p) == FileWith(proc[p].read \cup {proc[p].write})

\* replaceStateFile where one rename does it.
RenameOver(p) ==
    /\ proc[p].pc = "replacing"
    /\ ~(RenameDenied /\ primary.there)
    /\ primary' = NewFile(p)
    /\ Goes(p, "committed")
    /\ UNCHANGED <<lock, backup, acked, writes, stolen, crashes>>

\* ... where it is refused: the old file is moved aside,
MoveAside(p) ==
    /\ proc[p].pc = "replacing"
    /\ RenameDenied /\ primary.there
    /\ IF OwnsLock(p) /\ ~backup.there
       THEN backup' = primary /\ primary' = Absent /\ Goes(p, "displaced")
       ELSE Abandon(p) /\ UNCHANGED <<primary, backup>>
    /\ UNCHANGED <<lock, acked, writes, stolen, crashes>>

\* the new one takes its place,
MoveIn(p) ==
    /\ proc[p].pc = "displaced"
    /\ IF OwnsLock(p) /\ ~primary.there
       THEN primary' = NewFile(p) /\ Goes(p, "replaced")
       ELSE Goes(p, "restoring") /\ UNCHANGED primary
    /\ UNCHANGED <<lock, backup, acked, writes, stolen, crashes>>

\* and the old one is removed; removing it may fail.
DropBackup(p) ==
    /\ proc[p].pc = "replaced"
    /\ IF OwnsLock(p)
       THEN \/ backup' = Absent /\ Goes(p, "committed")
            \/ Goes(p, "restoring") /\ UNCHANGED backup
       ELSE Goes(p, "restoring") /\ UNCHANGED backup
    /\ UNCHANGED <<lock, primary, acked, writes, stolen, crashes>>

\* restoreBackup: a backup without a file becomes the file again.
RestoreBackup(p) ==
    /\ proc[p].pc = "restoring"
    /\ IF OwnsLock(p) /\ ~primary.there /\ backup.there
       THEN primary' = backup /\ backup' = Absent
       ELSE UNCHANGED <<primary, backup>>
    /\ Abandon(p)
    /\ UNCHANGED <<lock, acked, writes, stolen, crashes>>

\* The last check of the lock; then the write is reported as done.
Report(p) ==
    /\ proc[p].pc = "committed"
    /\ acked' = IF OwnsLock(p) THEN acked \cup {proc[p].write} ELSE acked
    /\ Abandon(p)
    /\ UNCHANGED <<lock, primary, backup, writes, stolen, crashes>>

-----------------------------------------------------------------------------
\* The release: look, move the directory, look again.
BeginRelease(p) ==
    /\ proc[p].pc = "releasing"
    /\ IF OwnsLock(p) THEN Goes(p, "renaming") ELSE proc' = [proc EXCEPT ![p] = IdleProc]
    /\ UNCHANGED <<lock, primary, backup, acked, writes, stolen, crashes>>

MoveReleased(p) ==
    /\ proc[p].pc = "renaming"
    /\ proc' = [proc EXCEPT ![p].pc = IF lock = NoLock THEN "idle" ELSE "checking", ![p].moved = lock]
    /\ lock' = NoLock
    /\ stolen' = (stolen \/ lock.owner \in Process \ {p})
    /\ UNCHANGED <<primary, backup, acked, writes, crashes>>

JudgeReleased(p) ==
    /\ proc[p].pc = "checking"
    /\ lock' = IF proc[p].moved.owner = p \/ lock # NoLock THEN lock ELSE proc[p].moved
    /\ proc' = [proc EXCEPT ![p] = IdleProc]
    /\ UNCHANGED <<primary, backup, acked, writes, stolen, crashes>>

-----------------------------------------------------------------------------
\* The owner has crashed, or has left before its lock was put back.
OwnerGone ==
    \/ lock.owner = Unowned
    \/ lock.owner \in Process /\ proc[lock.owner].pc \in {"idle", "taking", "moved"}

\* A lock goes stale when its owner is gone; a live owner refreshes it.
LockGoesStale ==
    /\ ~lock.stale
    /\ OwnerGone
    /\ lock' = [lock EXCEPT !.stale = TRUE]
    /\ UNCHANGED <<primary, backup, proc, acked, writes, stolen, crashes>>

CrashProcess(p) ==
    /\ proc[p].pc # "idle"
    /\ crashes < MaxProcessCrashes /\ crashes' = crashes + 1
    /\ proc' = [proc EXCEPT ![p] = IdleProc]
    /\ lock' = IF OwnsLock(p) THEN [lock EXCEPT !.owner = Unowned] ELSE lock
    /\ UNCHANGED <<primary, backup, acked, writes, stolen>>

StateFileStep(p) ==
    \/ ObserveStaleLock(p) \/ MoveStaleLock(p) \/ JudgeMovedLock(p)
    \/ RecoverFile(p) \/ WriteTemporary(p) \/ RenameOver(p)
    \/ MoveAside(p) \/ MoveIn(p) \/ DropBackup(p) \/ RestoreBackup(p) \/ Report(p)
    \/ BeginRelease(p) \/ MoveReleased(p) \/ JudgeReleased(p)

StateFileNext ==
    \/ \E p \in Process : TakeLock(p) \/ StateFileStep(p) \/ CrashProcess(p)
    \/ LockGoesStale

StateFileSpec == StateFileInit /\ [][StateFileNext]_fileVars

\* Time passes; a live process looks at a lock it waits for every 25 ms.
StateFileFairness ==
    /\ WF_fileVars(LockGoesStale)
    /\ \A p \in Process : WF_fileVars(StateFileStep(p))

-----------------------------------------------------------------------------
\* What the next owner of the lock will find.
Recoverable == IF primary.there THEN primary.holds ELSE backup.holds

\* A write reported as done is never lost, whoever crashes and takes over.
AckedWritesKept == ~stolen => acked \subseteq Recoverable

\* "The fixed backup leaves a recoverable state at every interruption point":
\* two files never contradict each other in a way recovery refuses.
AlwaysRecoverable ==
    ~stolen /\ primary.there /\ backup.there => Progresses(backup.holds, primary.holds)

\* The lock of an owner who is gone does not keep the others out for ever.
LockIsHandedOn == OwnerGone ~> ~OwnerGone
=============================================================================
