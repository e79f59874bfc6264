-------------------------- MODULE AgentFilesProofs --------------------------
(***************************************************************************)
(* Proofs about the two files that the processes of the agent share, for   *)
(* any number of processes, crashes and missed heartbeats: CliArbiter      *)
(* (part 1) says who may run the command line, StateFile (part 2) how a    *)
(* file is locked and replaced.                                            *)
(*                                                                         *)
(* In part 2 a process checks that it still has the lock before some of    *)
(* its steps and not before others (a rename).  What makes it right is     *)
(* that, while no lock of a live owner has been moved away, the processes  *)
(* in the critical section and the owner of the lock are the same one      *)
(* (LockInv), and that this one knows what the two files hold (Knows).     *)
(***************************************************************************)
EXTENDS CliArbiter, StateFile, TLAPS

-----------------------------------------------------------------------------
(* Part 1: the arbiter.                                                    *)

\* Tickets are handed out once; a waiting caller's entry is in the file unless
\* its deadline has passed.
TicketsInOrder ==
    /\ arbiter.active.ticket < arbiter.nextTicket
    /\ \A c \in Call : call[c].ticket < arbiter.nextTicket
    /\ \A c, d \in Call : c # d /\ call[c].ticket = call[d].ticket => call[c].ticket = 0
    /\ \A c \in Call : call[c].pc = "waiting" =>
         /\ call[c].ticket # 0
         /\ call[c].ticket # arbiter.active.ticket
         /\ call[c].ticket \in arbiter.queue \cup overdue

\* Fences are handed out once, and the active lease has the newest.
FencesInOrder ==
    /\ \A c \in Call : call[c].fence < arbiter.nextFence
    /\ \A c, d \in Call : c # d /\ call[c].fence = call[d].fence => call[c].fence = 0
    /\ \/ arbiter.active = NoLease
       \/ arbiter.active.fence = arbiter.nextFence - 1 /\ arbiter.active.fence # 0

ArbiterInv == ArbiterTypeOK /\ TicketsInOrder /\ FencesInOrder /\ LeaseKeepsItsSession

\* Every reachable state of the arbiter and of its callers is well formed.
LEMMA ArbiterInitTyped == ArbiterInit => ArbiterTypeOK
  <1>1. IdleCall \in CallRow
    BY DEF IdleCall, CallRow, Session, Command
  <1> SUFFICES ASSUME ArbiterInit PROVE ArbiterTypeOK
    OBVIOUS
  <1>2. /\ arbiter \in [nextTicket : Nat \ {0}, nextFence : Nat \ {0}, queue : SUBSET Nat,
                        active : [ticket : Nat, fence : Nat]]
        /\ session \in Session
    <2>1. [epoch |-> 0, bound |-> FALSE] \in Session /\ [epoch |-> 1, bound |-> TRUE] \in Session
      BY DEF Session
    <2>2. session \in Session
      BY <2>1 DEF ArbiterInit
    <2>3. QED
      BY <2>2 DEF ArbiterInit, NoLease
  <1>3. /\ call \in [Call -> CallRow]
        /\ flow \in [Service -> {"none", "pending", "redeemed"}]
        /\ boundTo \in [Epoch -> Account \cup {NoAccount}]
    BY <1>1 DEF ArbiterInit
  <1>4. QED
    BY <1>2, <1>3 DEF ArbiterInit, ArbiterTypeOK

\* The file as the type invariant describes it.
ArbiterFile == [nextTicket : Nat \ {0}, nextFence : Nat \ {0}, queue : SUBSET Nat,
                active : [ticket : Nat, fence : Nat]]

\* pruneExpired keeps the file well formed and touches nothing but the queue
\* and the active lease.
LEMMA PrunedTyped ==
    ASSUME ArbiterTypeOK
    PROVE /\ Pruned \in ArbiterFile
          /\ Pruned.nextTicket = arbiter.nextTicket
          /\ Pruned.nextFence = arbiter.nextFence
          /\ Pruned.queue = arbiter.queue \ overdue
          /\ Pruned.active = IF leaseOver THEN NoLease ELSE arbiter.active
  BY DEF ArbiterTypeOK, Pruned, NoLease, ArbiterFile

\* What the actions make of an invocation's row, and of the file.
LEMMA RowUpdates ==
    ASSUME NEW r \in CallRow
    PROVE /\ \A pc \in {"queueing", "waiting", "leaving", "granted", "ran", "checked",
                        "committed", "confirmed", "failed"} :
               /\ [r EXCEPT !.pc = pc] \in CallRow
               /\ \A ok \in BOOLEAN : [r EXCEPT !.pc = pc, !.ok = ok] \in CallRow
               /\ \A n \in Nat : [r EXCEPT !.pc = pc, !.ticket = n] \in CallRow
               /\ \A s \in Session : [r EXCEPT !.pc = pc, !.seen = s] \in CallRow
               /\ \A n \in Nat, s \in Session :
                     [r EXCEPT !.pc = pc, !.fence = n, !.seen = s] \in CallRow
               /\ \A cmd \in Command, n \in Nat :
                     [r EXCEPT !.pc = pc, !.cmd = cmd, !.expected = n] \in CallRow
          /\ [r EXCEPT !.stale = TRUE] \in CallRow
          /\ [r EXCEPT !.lost = TRUE] \in CallRow
  <1>1. ASSUME NEW pc \in {"queueing", "waiting", "leaving", "granted", "ran", "checked",
                           "committed", "confirmed", "failed"}
        PROVE /\ [r EXCEPT !.pc = pc] \in CallRow
              /\ \A ok \in BOOLEAN : [r EXCEPT !.pc = pc, !.ok = ok] \in CallRow
              /\ \A n \in Nat : [r EXCEPT !.pc = pc, !.ticket = n] \in CallRow
              /\ \A s \in Session : [r EXCEPT !.pc = pc, !.seen = s] \in CallRow
              /\ \A n \in Nat, s \in Session :
                    [r EXCEPT !.pc = pc, !.fence = n, !.seen = s] \in CallRow
              /\ \A cmd \in Command, n \in Nat :
                    [r EXCEPT !.pc = pc, !.cmd = cmd, !.expected = n] \in CallRow
    BY <1>1 DEF CallRow
  <1>2. [r EXCEPT !.stale = TRUE] \in CallRow /\ [r EXCEPT !.lost = TRUE] \in CallRow
    BY DEF CallRow
  <1>3. QED
    BY <1>1, <1>2

\* The row of a caller that has left or crashed.
LEMMA IdleTyped == IdleCall \in CallRow
  BY DEF IdleCall, CallRow, Session, Command

LEMMA FileUpdates ==
    ASSUME NEW a \in ArbiterFile, NEW n \in Nat, NEW m \in Nat, NEW k \in Nat \ {0}
    PROVE /\ [a EXCEPT !.queue = @ \cup {n}, !.nextTicket = k] \in ArbiterFile
          /\ [a EXCEPT !.queue = @ \ {n}] \in ArbiterFile
          /\ [a EXCEPT !.active = NoLease] \in ArbiterFile
          /\ [a EXCEPT !.queue = @ \ {n}, !.nextFence = k,
                       !.active = [ticket |-> n, fence |-> m]] \in ArbiterFile
  BY DEF ArbiterFile, NoLease

LEMMA ArbiterStepTyped == ArbiterTypeOK /\ [ArbiterNext]_arbiterVars => ArbiterTypeOK'
  <1> SUFFICES ASSUME ArbiterTypeOK, [ArbiterNext]_arbiterVars
               PROVE ArbiterTypeOK'
    OBVIOUS
  <1> DEFINE Flows == [Service -> {"none", "pending", "redeemed"}]
  <1>a. /\ arbiter \in ArbiterFile
        /\ call \in [Call -> CallRow]
        /\ session \in Session
        /\ arbiter.nextTicket \in Nat \ {0} /\ arbiter.nextTicket + 1 \in Nat \ {0}
        /\ arbiter.nextFence \in Nat \ {0} /\ arbiter.nextFence + 1 \in Nat \ {0}
    BY DEF ArbiterTypeOK, ArbiterFile
  <1>b. /\ Pruned \in ArbiterFile
        /\ Pruned.nextTicket = arbiter.nextTicket
        /\ Pruned.nextFence = arbiter.nextFence
    BY PrunedTyped
  <1>c. \A c \in Call : call[c] \in CallRow /\ call[c].ticket \in Nat /\ call[c].fence \in Nat
    BY <1>a DEF CallRow
  <1>d. ASSUME /\ arbiter' \in ArbiterFile /\ call' \in [Call -> CallRow]
               /\ session' \in Session /\ overdue' \subseteq Nat /\ leaseOver' \in BOOLEAN
               /\ flow' \in Flows /\ account' \in Account \cup {NoAccount}
               /\ boundTo' \in [Epoch -> Account \cup {NoAccount}]
               /\ lastWriter' \in Nat /\ cliCrashes' \in Nat
        PROVE ArbiterTypeOK'
    BY <1>d DEF ArbiterTypeOK, ArbiterFile
  <1>1. ASSUME NEW c \in Call, NEW cmd \in Tried, Begin(c, cmd)
        PROVE ArbiterTypeOK'
    <2>1. cmd \in Command
      BY <1>1, ArbiterAssumption DEF Command
    <2>2. \A e \in (IF cmd = "query" THEN {n \in Epoch : boundTo[n] # NoAccount} ELSE {0}) : e \in Nat
      BY ArbiterAssumption DEF Epoch
    <2>3. PICK e \in Nat :
              call' = [d \in Call |->
                    IF d = c THEN [IdleCall EXCEPT !.pc = "queueing", !.cmd = cmd, !.expected = e]
                    ELSE IF cmd = "logout" /\ ServiceOf[d] = ServiceOf[c] /\ call[d].pc # "idle"
                            /\ call[d].cmd # "query"
                         THEN [call[d] EXCEPT !.stale = TRUE]
                         ELSE call[d]]
      BY <1>1, <2>2, Zenon DEF Begin
    <2>4. call' \in [Call -> CallRow]
      BY <1>c, <2>1, <2>3, IdleTyped, RowUpdates
    <2>5. flow' \in Flows
      BY <1>1, ArbiterAssumption DEF Begin, ArbiterTypeOK
    <2>6. QED
      BY <1>1, <1>a, <1>d, <2>4, <2>5 DEF Begin, ArbiterTypeOK
  <1>2. ASSUME NEW c \in Call, TakeTicket(c)
        PROVE ArbiterTypeOK'
    <2>1. arbiter' \in ArbiterFile
      BY <1>2, <1>a, <1>b, FileUpdates DEF TakeTicket
    <2>2. call' \in [Call -> CallRow]
      BY <1>2, <1>a, <1>c, RowUpdates DEF TakeTicket
    <2>3. QED
      BY <1>2, <1>d, <2>1, <2>2 DEF TakeTicket, ArbiterTypeOK
  <1>3. ASSUME NEW c \in Call, Grant(c)
        PROVE ArbiterTypeOK'
    <2>1. arbiter' \in ArbiterFile
      BY <1>3, <1>a, <1>b, <1>c, FileUpdates DEF Grant
    <2>2. call' \in [Call -> CallRow]
      <3>1. /\ [call[c] EXCEPT !.pc = "granted", !.fence = arbiter.nextFence,
                               !.seen = session] \in CallRow
            /\ [call[c] EXCEPT !.pc = "leaving"] \in CallRow
        BY <1>a, <1>c, RowUpdates
      <3>2. QED
        BY <1>3, <1>a, <3>1 DEF Grant, Enter
    <2>3. QED
      BY <1>3, <1>d, <2>1, <2>2 DEF Grant, ArbiterTypeOK
  <1>4. ASSUME NEW c \in Call, KeepWaiting(c)
        PROVE ArbiterTypeOK'
    <2>1. leaseOver' \in BOOLEAN
      BY <1>4 DEF KeepWaiting
    <2>2. QED
      BY <1>4, <1>b, <1>d, <2>1 DEF KeepWaiting, ArbiterTypeOK
  <1>5. ASSUME NEW c \in Call, Enter(c, call'[c].pc), call'[c].pc \in
               {"leaving", "checked", "committed", "confirmed", "failed"},
               UNCHANGED <<arbiter, session, overdue, leaseOver, flow, account, boundTo,
                           lastWriter, cliCrashes>>
        PROVE ArbiterTypeOK'
    <2>1. call' \in [Call -> CallRow]
      <3>1. [call[c] EXCEPT !.pc = call'[c].pc] \in CallRow
        BY <1>5, <1>c, RowUpdates
      <3>2. QED
        BY <1>5, <1>a, <3>1 DEF Enter
    <2>2. QED
      BY <1>5, <1>a, <1>d, <2>1 DEF ArbiterTypeOK
  <1>6. ASSUME NEW c \in Call, Refused(c) \/ CheckLease(c) \/ KeepSession(c) \/ ConfirmSession(c)
        PROVE ArbiterTypeOK'
    <2>1. \A pc \in {"leaving", "checked", "committed", "confirmed", "failed"} :
             Enter(c, pc) => call'[c].pc = pc
      BY <1>a, <1>c DEF Enter, CallRow
    <2>2. QED
      BY <1>5, <1>6, <2>1 DEF Refused, CheckLease, KeepSession, ConfirmSession
  <1>7. ASSUME NEW c \in Call, Leave(c)
        PROVE ArbiterTypeOK'
    <2>1. arbiter' \in ArbiterFile
      BY <1>7, <1>a, <1>c, FileUpdates DEF Leave
    <2>2. QED
      BY <1>7, <1>a, <1>d, <2>1, IdleTyped DEF Leave, ArbiterTypeOK
  <1>8. ASSUME NEW c \in Call, RunCommand(c)
        PROVE ArbiterTypeOK'
    <2>1. account' \in Account \cup {NoAccount}
      BY <1>8 DEF RunCommand, ArbiterTypeOK
    <2>2. flow' \in Flows
      BY <1>8, ArbiterAssumption DEF RunCommand, ArbiterTypeOK
    <2>3. call' \in [Call -> CallRow]
      <3>1. PICK ok \in BOOLEAN, pc \in {"ran", "failed"} :
                 call' = [call EXCEPT ![c].pc = pc, ![c].ok = ok]
        BY <1>8 DEF RunCommand
      <3>2. [call[c] EXCEPT !.pc = pc, !.ok = ok] \in CallRow
        BY <1>c, RowUpdates
      <3>3. QED
        BY <1>a, <3>1, <3>2
    <2>4. QED
      BY <1>8, <1>a, <1>d, <2>1, <2>2, <2>3 DEF RunCommand, ArbiterTypeOK
  <1>9. ASSUME NEW c \in Call, CommitSession(c)
        PROVE ArbiterTypeOK'
    <2>1. session' \in Session
      BY <1>9, <1>a DEF CommitSession, Binds, Session, CallRow, ArbiterTypeOK
    <2>2. call' \in [Call -> CallRow]
      <3>1. /\ [call[c] EXCEPT !.pc = "committed", !.seen = session'] \in CallRow
            /\ [call[c] EXCEPT !.pc = "failed"] \in CallRow
        BY <1>c, <2>1, RowUpdates
      <3>2. QED
        BY <1>9, <1>a, <3>1 DEF CommitSession, Enter
    <2>3. boundTo' \in [Epoch -> Account \cup {NoAccount}]
      BY <1>9 DEF CommitSession, ArbiterTypeOK
    <2>4. QED
      BY <1>9, <1>a, <1>c, <1>d, <2>1, <2>2, <2>3 DEF CommitSession, ArbiterTypeOK
  <1>10. ASSUME NEW c \in Call, Release(c)
         PROVE ArbiterTypeOK'
    <2>1. arbiter' \in ArbiterFile /\ leaseOver' \in BOOLEAN
      <3>1. \/ arbiter' = [arbiter EXCEPT !.active = NoLease] /\ leaseOver' = FALSE
            \/ UNCHANGED <<arbiter, leaseOver>>
        BY <1>10 DEF Release
      <3>2. QED
        BY <1>a, <3>1, FileUpdates DEF ArbiterTypeOK
    <2>2. flow' \in Flows
      BY <1>10, ArbiterAssumption DEF Release, FlowAfter, ArbiterTypeOK
    <2>3. QED
      BY <1>10, <1>a, <1>d, <2>1, <2>2, IdleTyped DEF Release, ArbiterTypeOK
  <1>11. ASSUME NEW c \in Call, Heartbeat(c)
         PROVE ArbiterTypeOK'
    <2>1. call' \in [Call -> CallRow]
      <3>1. [call[c] EXCEPT !.lost = TRUE] \in CallRow
        BY <1>c, RowUpdates
      <3>2. QED
        BY <1>11, <1>a, <3>1 DEF Heartbeat
    <2>2. leaseOver' \in BOOLEAN
      BY <1>11 DEF Heartbeat, ArbiterTypeOK
    <2>3. QED
      BY <1>11, <1>a, <1>d, <2>1, <2>2 DEF Heartbeat, ArbiterTypeOK
  <1>12. CASE LeaseRunsOut
    BY <1>12, <1>a, <1>d DEF LeaseRunsOut, ArbiterTypeOK
  <1>13. ASSUME NEW t \in Ticket, DeadlinePasses(t)
         PROVE ArbiterTypeOK'
    BY <1>13, <1>a, <1>d DEF DeadlinePasses, Ticket, ArbiterTypeOK
  <1>14. ASSUME NEW s \in Service, LoginFlowExpires(s)
         PROVE ArbiterTypeOK'
    <2>1. flow' \in Flows
      BY <1>14 DEF LoginFlowExpires, ArbiterTypeOK
    <2>2. QED
      BY <1>14, <1>a, <1>d, <2>1 DEF LoginFlowExpires, ArbiterTypeOK
  <1>15. ASSUME NEW s \in Service, Crash(s)
         PROVE ArbiterTypeOK'
    <2>1. flow' \in Flows /\ call' \in [Call -> CallRow]
      BY <1>15, <1>c, IdleTyped DEF Crash, ArbiterTypeOK
    <2>2. QED
      BY <1>15, <1>a, <1>d, <2>1 DEF Crash, ArbiterTypeOK
  <1>16. CASE UNCHANGED arbiterVars
    BY <1>16, <1>a, <1>d DEF arbiterVars, ArbiterTypeOK
  <1> QED
    BY <1>1, <1>2, <1>3, <1>4, <1>6, <1>7, <1>8, <1>9, <1>10, <1>11, <1>12, <1>13,
       <1>14, <1>15, <1>16 DEF ArbiterNext, ArbiterStep

-----------------------------------------------------------------------------
\* A step that neither queues a caller nor grants the lease hands out nothing:
\* rows keep their ticket and fence or become idle, the lease stays or goes,
\* and the entry of whoever waits stays until its deadline.
Frame ==
    /\ arbiter'.nextTicket = arbiter.nextTicket
    /\ arbiter'.nextFence = arbiter.nextFence
    /\ arbiter'.active \in {arbiter.active, NoLease}
    /\ \A d \in Call : /\ call'[d].ticket \in {0, call[d].ticket}
                       /\ call'[d].fence \in {0, call[d].fence}
                       /\ call'[d].pc = "waiting" =>
                            /\ call[d].pc = "waiting"
                            /\ call'[d].ticket = call[d].ticket
                            /\ call[d].ticket \in arbiter'.queue \cup overdue'

LEMMA StepFrame ==
    ASSUME ArbiterTypeOK, TicketsInOrder, [ArbiterNext]_arbiterVars,
           \A c \in Call : ~TakeTicket(c) /\ ~Grant(c)
    PROVE Frame
  <1> DEFINE Keeps(d) == /\ call'[d].ticket \in {0, call[d].ticket}
                         /\ call'[d].fence \in {0, call[d].fence}
                         /\ call'[d].pc = "waiting" =>
                              call[d].pc = "waiting" /\ call'[d].ticket = call[d].ticket
  <1>a. call \in [Call -> CallRow] /\ arbiter \in ArbiterFile
    BY DEF ArbiterTypeOK, ArbiterFile
  <1>b. \A c \in Call : call[c] \in CallRow
    BY <1>a
  <1>c. ASSUME /\ \A d \in Call : Keeps(d)
               /\ arbiter'.nextTicket = arbiter.nextTicket
               /\ arbiter'.nextFence = arbiter.nextFence
               /\ arbiter'.active \in {arbiter.active, NoLease}
               /\ arbiter.queue \cup overdue \subseteq arbiter'.queue \cup overdue'
        PROVE Frame
    BY <1>c DEF Frame, TicketsInOrder
  <1>d. ASSUME NEW c \in Call,
               NEW pc \in {"leaving", "checked", "committed", "confirmed", "failed"}, Enter(c, pc)
        PROVE \A d \in Call : Keeps(d)
    BY <1>a, <1>b, <1>d DEF Enter, CallRow
  <1>e. UNCHANGED call => \A d \in Call : Keeps(d)
    OBVIOUS
  <1>1. ASSUME NEW c \in Call, NEW cmd \in Tried, Begin(c, cmd)
        PROVE Frame
    <2>1. PICK e : call' = [d \in Call |->
                    IF d = c THEN [IdleCall EXCEPT !.pc = "queueing", !.cmd = cmd, !.expected = e]
                    ELSE IF cmd = "logout" /\ ServiceOf[d] = ServiceOf[c] /\ call[d].pc # "idle"
                            /\ call[d].cmd # "query"
                         THEN [call[d] EXCEPT !.stale = TRUE]
                         ELSE call[d]]
      BY <1>1, Zenon DEF Begin
    <2>2. call'[c].ticket = 0 /\ call'[c].fence = 0 /\ call'[c].pc = "queueing"
      BY <2>1 DEF IdleCall
    <2>3. ASSUME NEW d \in Call, d # c
          PROVE Keeps(d)
      <3>1. call'[d] \in {call[d], [call[d] EXCEPT !.stale = TRUE]}
        BY <2>1, <2>3
      <3>2. QED
        BY <1>b, <3>1 DEF CallRow
    <2>4. QED
      BY <1>1, <1>c, <2>2, <2>3 DEF Begin
  <1>2. ASSUME NEW c \in Call, KeepWaiting(c)
        PROVE Frame
    BY <1>2, <1>c, <1>e, PrunedTyped DEF KeepWaiting
  <1>3. ASSUME NEW c \in Call, Refused(c) \/ CheckLease(c) \/ KeepSession(c) \/ ConfirmSession(c)
        PROVE Frame
    <2>1. \E pc \in {"leaving", "checked", "committed", "confirmed", "failed"} : Enter(c, pc)
      BY <1>3 DEF Refused, CheckLease, KeepSession, ConfirmSession
    <2>2. \A d \in Call : Keeps(d)
      BY <1>d, <2>1
    <2>3. UNCHANGED <<arbiter, overdue>>
      BY <1>3 DEF Refused, CheckLease, KeepSession, ConfirmSession
    <2>4. QED
      BY <1>c, <2>2, <2>3
  <1>4. ASSUME NEW c \in Call, Leave(c)
        PROVE Frame
    <2>1. call' = [call EXCEPT ![c] = IdleCall] /\ call[c].pc = "leaving"
      BY <1>4 DEF Leave
    <2>2. \A d \in Call : Keeps(d) /\ (call'[d].pc = "waiting" => d # c)
      BY <1>a, <2>1 DEF IdleCall
    <2>3. /\ arbiter'.nextTicket = arbiter.nextTicket
          /\ arbiter'.nextFence = arbiter.nextFence
          /\ arbiter'.active = arbiter.active
          /\ arbiter.queue \ {call[c].ticket} \subseteq arbiter'.queue
          /\ overdue' = overdue
      BY <1>4, <1>a DEF Leave, ArbiterFile
    <2>4. QED
      BY <2>2, <2>3 DEF Frame, TicketsInOrder
  <1>5. ASSUME NEW c \in Call, RunCommand(c)
        PROVE Frame
    <2>1. PICK ok \in BOOLEAN, pc \in {"ran", "failed"} :
               call' = [call EXCEPT ![c].pc = pc, ![c].ok = ok]
      BY <1>5 DEF RunCommand
    <2>2. \A d \in Call : Keeps(d)
      BY <1>a, <1>b, <2>1 DEF CallRow
    <2>3. QED
      BY <1>5, <1>c, <2>2 DEF RunCommand
  <1>6. ASSUME NEW c \in Call, CommitSession(c)
        PROVE Frame
    <2>1. \A d \in Call : Keeps(d)
      <3>1. CASE call' = [call EXCEPT ![c].pc = "committed", ![c].seen = session']
        BY <1>a, <1>b, <3>1 DEF CallRow
      <3>2. CASE Enter(c, "failed")
        BY <1>d, <3>2
      <3>3. QED
        BY <1>6, <3>1, <3>2 DEF CommitSession
    <2>2. QED
      BY <1>6, <1>c, <2>1 DEF CommitSession
  <1>7. ASSUME NEW c \in Call, Release(c)
        PROVE Frame
    <2>1. call' = [call EXCEPT ![c] = IdleCall]
      BY <1>7 DEF Release
    <2>2. \A d \in Call : Keeps(d)
      BY <1>a, <2>1 DEF IdleCall
    <2>3. /\ arbiter'.nextTicket = arbiter.nextTicket
          /\ arbiter'.nextFence = arbiter.nextFence
          /\ arbiter'.active \in {arbiter.active, NoLease}
          /\ arbiter'.queue = arbiter.queue /\ overdue' = overdue
      BY <1>7, <1>a DEF Release, ArbiterFile
    <2>4. QED
      BY <1>c, <2>2, <2>3
  <1>8. ASSUME NEW c \in Call, Heartbeat(c)
        PROVE Frame
    <2>1. \A d \in Call : Keeps(d)
      BY <1>8, <1>a, <1>b DEF Heartbeat, CallRow
    <2>2. QED
      BY <1>8, <1>c, <2>1 DEF Heartbeat
  <1>9. CASE LeaseRunsOut
    BY <1>9, <1>c, <1>e DEF LeaseRunsOut
  <1>10. ASSUME NEW t \in Ticket, DeadlinePasses(t)
         PROVE Frame
    BY <1>10, <1>c, <1>e DEF DeadlinePasses
  <1>11. ASSUME NEW s \in Service, LoginFlowExpires(s)
         PROVE Frame
    BY <1>11, <1>c, <1>e DEF LoginFlowExpires
  <1>12. ASSUME NEW s \in Service, Crash(s)
         PROVE Frame
    <2>1. \A d \in Call : Keeps(d)
      BY <1>12 DEF Crash, IdleCall
    <2>2. QED
      BY <1>12, <1>c, <2>1 DEF Crash
  <1>13. CASE UNCHANGED arbiterVars
    BY <1>13, <1>c, <1>e DEF arbiterVars
  <1> QED
    BY <1>1, <1>2, <1>3, <1>4, <1>5, <1>6, <1>7, <1>8, <1>9, <1>10, <1>11, <1>12, <1>13
       DEF ArbiterNext, ArbiterStep

\* The order of tickets and fences survives every step.
LEMMA OrderKept ==
    ASSUME ArbiterTypeOK, TicketsInOrder, FencesInOrder, [ArbiterNext]_arbiterVars
    PROVE TicketsInOrder' /\ FencesInOrder'
  <1>a. /\ call \in [Call -> CallRow] /\ arbiter \in ArbiterFile
        /\ arbiter.nextTicket \in Nat \ {0} /\ arbiter.nextFence \in Nat \ {0}
    BY DEF ArbiterTypeOK, ArbiterFile
  <1>b. \A c \in Call : call[c].ticket \in Nat /\ call[c].fence \in Nat
    BY <1>a DEF CallRow
  <1>c. /\ Pruned.queue = arbiter.queue \ overdue
        /\ Pruned.active \in {arbiter.active, NoLease}
        /\ Pruned.nextTicket = arbiter.nextTicket /\ Pruned.nextFence = arbiter.nextFence
        /\ Pruned \in ArbiterFile
    BY PrunedTyped
  <1>1. ASSUME NEW c \in Call, TakeTicket(c)
        PROVE TicketsInOrder' /\ FencesInOrder'
    <2>1. /\ call'[c].ticket = arbiter.nextTicket /\ call'[c].pc = "waiting"
          /\ call'[c].fence = call[c].fence
      BY <1>1, <1>a DEF TakeTicket, CallRow
    <2>2. \A d \in Call : d # c => call'[d] = call[d]
      BY <1>1, <1>a DEF TakeTicket
    <2>3. /\ arbiter'.nextTicket = arbiter.nextTicket + 1
          /\ arbiter'.nextFence = arbiter.nextFence
          /\ arbiter'.active \in {arbiter.active, NoLease}
          /\ arbiter'.queue = (arbiter.queue \ overdue) \cup {arbiter.nextTicket}
          /\ overdue' = overdue
      BY <1>1, <1>c DEF TakeTicket, ArbiterFile
    <2>4. arbiter.active.ticket < arbiter.nextTicket
      BY DEF TicketsInOrder
    <2>5. QED
      <3>1. arbiter'.active.ticket < arbiter'.nextTicket
        <4>1. arbiter.active.ticket \in Nat /\ NoLease.ticket = 0
          BY <1>a DEF ArbiterFile, NoLease
        <4>2. arbiter'.active.ticket \in {arbiter.active.ticket, 0}
          BY <2>3, <4>1
        <4>3. QED
          BY <1>a, <2>3, <2>4, <4>1, <4>2
      <3>2. \A d \in Call : call'[d].ticket < arbiter'.nextTicket
        BY <1>a, <1>b, <2>1, <2>2, <2>3 DEF TicketsInOrder
      <3>3. \A d, e \in Call : d # e /\ call'[d].ticket = call'[e].ticket => call'[d].ticket = 0
        BY <1>a, <1>b, <2>1, <2>2 DEF TicketsInOrder
      <3>4. ASSUME NEW d \in Call, call'[d].pc = "waiting"
            PROVE /\ call'[d].ticket # 0 /\ call'[d].ticket # arbiter'.active.ticket
                  /\ call'[d].ticket \in arbiter'.queue \cup overdue'
        <4>1. CASE d = c
          BY <1>a, <2>1, <2>3, <2>4, <4>1 DEF NoLease
        <4>2. CASE d # c
          BY <2>2, <2>3, <3>4, <4>2 DEF TicketsInOrder, NoLease
        <4>3. QED
          BY <4>1, <4>2
      <3>5. FencesInOrder'
        BY <1>a, <1>b, <2>1, <2>2, <2>3 DEF FencesInOrder
      <3>6. QED
        BY <3>1, <3>2, <3>3, <3>4, <3>5 DEF TicketsInOrder
  <1>2. ASSUME NEW c \in Call, Grant(c)
        PROVE TicketsInOrder' /\ FencesInOrder'
    <2>1. /\ call'[c].ticket = call[c].ticket /\ call'[c].pc # "waiting"
          /\ call'[c].fence \in {call[c].fence, arbiter.nextFence}
      BY <1>2, <1>a DEF Grant, Enter, CallRow
    <2>2. \A d \in Call : d # c => call'[d] = call[d]
      BY <1>2, <1>a DEF Grant, Enter
    <2>3. /\ arbiter'.nextTicket = arbiter.nextTicket
          /\ arbiter'.nextFence = arbiter.nextFence + 1
          /\ arbiter'.active = [ticket |-> call[c].ticket, fence |-> arbiter.nextFence]
          /\ arbiter'.queue = (arbiter.queue \ overdue) \ {call[c].ticket}
          /\ overdue' = overdue /\ call[c].pc = "waiting"
      BY <1>2, <1>c DEF Grant, ArbiterFile
    <2>4. QED
      BY <1>a, <1>b, <2>1, <2>2, <2>3 DEF TicketsInOrder, FencesInOrder, NoLease
  <1>3. ASSUME \A c \in Call : ~TakeTicket(c) /\ ~Grant(c)
        PROVE TicketsInOrder' /\ FencesInOrder'
    <2>1. Frame
      BY <1>3, StepFrame
    <2>2. QED
      BY <1>a, <1>b, <2>1 DEF Frame, TicketsInOrder, FencesInOrder, NoLease
  <1> QED
    BY <1>1, <1>2, <1>3

\* Whoever holds the unexpired lease with an expectation still finds its session.
LEMMA SessionKept ==
    ASSUME ArbiterTypeOK, FencesInOrder, LeaseKeepsItsSession, [ArbiterNext]_arbiterVars
    PROVE LeaseKeepsItsSession'
  <1>a. /\ call \in [Call -> CallRow] /\ arbiter \in ArbiterFile
        /\ arbiter.nextFence \in Nat
    BY DEF ArbiterTypeOK, ArbiterFile
  <1>b. \A c \in Call : call[c].ticket \in Nat /\ call[c].fence \in Nat
    BY <1>a DEF CallRow
  <1> SUFFICES ASSUME NEW c \in Call, call'[c].pc \in {"granted", "ran"}, call'[c].cmd = "query",
                      NamesLeaseOf(c)', ~leaseOver'
               PROVE SessionExpected(call[c].expected)' /\ call'[c].expected = call[c].expected
    BY DEF LeaseKeepsItsSession, SessionExpected
  <1>c. /\ call'[c].fence # 0 /\ call'[c].pc \notin {"idle", "queueing", "waiting"}
        /\ arbiter'.active.fence = call'[c].fence /\ arbiter'.active # NoLease
    BY DEF NamesLeaseOf, NoLease
  <1>d. ASSUME call[c].pc \in {"granted", "ran"}, call'[c].cmd = call[c].cmd,
               call'[c].expected = call[c].expected, call'[c].fence = call[c].fence,
               call'[c].ticket = call[c].ticket,
               arbiter'.active = arbiter.active, ~leaseOver, session' = session
        PROVE SessionExpected(call[c].expected)' /\ call'[c].expected = call[c].expected
    BY <1>d DEF LeaseKeepsItsSession, NamesLeaseOf, SessionExpected
  <1>1. ASSUME NEW d \in Call, NEW cmd \in Tried, Begin(d, cmd)
        PROVE SessionExpected(call[c].expected)' /\ call'[c].expected = call[c].expected
    <2>1. PICK e : call' = [x \in Call |->
                    IF x = d THEN [IdleCall EXCEPT !.pc = "queueing", !.cmd = cmd, !.expected = e]
                    ELSE IF cmd = "logout" /\ ServiceOf[x] = ServiceOf[d] /\ call[x].pc # "idle"
                            /\ call[x].cmd # "query"
                         THEN [call[x] EXCEPT !.stale = TRUE]
                         ELSE call[x]]
      BY <1>1, Zenon DEF Begin
    <2>2. c # d
      BY <1>c, <2>1 DEF IdleCall
    <2>3. call'[c] \in {call[c], [call[c] EXCEPT !.stale = TRUE]}
      BY <2>1, <2>2
    <2>4. /\ call'[c].pc = call[c].pc /\ call'[c].cmd = call[c].cmd
          /\ call'[c].expected = call[c].expected /\ call'[c].fence = call[c].fence
          /\ call'[c].ticket = call[c].ticket
      BY <1>a, <2>3 DEF CallRow
    <2>5. QED
      BY <1>1, <1>d, <2>4 DEF Begin
  <1>2. ASSUME NEW d \in Call, TakeTicket(d)
        PROVE SessionExpected(call[c].expected)' /\ call'[c].expected = call[c].expected
    <2>1. call'[d].pc = "waiting"
      BY <1>2, <1>a DEF TakeTicket, CallRow
    <2>2. call'[c] = call[c]
      BY <1>2, <1>a, <1>c, <2>1 DEF TakeTicket
    <2>3. arbiter'.active = IF leaseOver THEN NoLease ELSE arbiter.active
      BY <1>2, PrunedTyped DEF TakeTicket, ArbiterFile
    <2>4. QED
      BY <1>2, <1>c, <1>d, <2>2, <2>3 DEF TakeTicket
  <1>3. ASSUME NEW d \in Call, Grant(d)
        PROVE SessionExpected(call[c].expected)' /\ call'[c].expected = call[c].expected
    <2>1. arbiter'.active.fence = arbiter.nextFence
      BY <1>3, PrunedTyped DEF Grant, ArbiterFile
    <2>2. CASE c = d
      BY <1>3, <1>a, <2>2 DEF Grant, Enter, SessionExpected, CallRow
    <2>3. CASE c # d
      <3>1. call'[c] = call[c]
        BY <1>3, <1>a, <2>3 DEF Grant, Enter
      <3>2. QED
        <4>1. call[c].fence < arbiter.nextFence
          BY DEF FencesInOrder
        <4>2. call[c].fence = arbiter.nextFence
          BY <1>c, <2>1, <3>1
        <4>3. QED
          BY <1>a, <1>b, <4>1, <4>2
    <2>4. QED
      BY <2>2, <2>3
  <1>4. ASSUME NEW d \in Call, KeepWaiting(d)
        PROVE SessionExpected(call[c].expected)' /\ call'[c].expected = call[c].expected
    <2>1. arbiter'.active = IF leaseOver THEN NoLease ELSE arbiter.active
      BY <1>4, PrunedTyped DEF KeepWaiting
    <2>2. QED
      BY <1>4, <1>c, <1>d, <2>1 DEF KeepWaiting
  <1>5. ASSUME NEW d \in Call, CommitSession(d)
        PROVE SessionExpected(call[c].expected)' /\ call'[c].expected = call[c].expected
    <2>1. /\ call[d].pc = "checked" /\ call[d].fence # 0 /\ arbiter.active.fence = call[d].fence
          /\ arbiter' = arbiter
      BY <1>5 DEF CommitSession, MayWriteSession
    <2>2. c # d
      BY <1>5, <1>a, <1>c DEF CommitSession, Enter, CallRow
    <2>3. call'[c] = call[c]
      BY <1>5, <1>a, <2>2 DEF CommitSession, Enter
    <2>4. QED
      BY <1>c, <2>1, <2>2, <2>3 DEF FencesInOrder
  <1>6. ASSUME NEW d \in Call, Heartbeat(d)
        PROVE SessionExpected(call[c].expected)' /\ call'[c].expected = call[c].expected
    <2>1. CASE NamesLeaseOf(d) /\ SessionExpected(call[d].expected) /\ call' = call
      BY <1>6, <1>c, <2>1 DEF Heartbeat, NamesLeaseOf, FencesInOrder, SessionExpected
    <2>2. CASE call' = [call EXCEPT ![d].lost = TRUE] /\ leaseOver' = leaseOver
      BY <1>6, <1>a, <1>d, <2>2 DEF Heartbeat, CallRow
    <2>3. QED
      BY <1>6, <2>1, <2>2 DEF Heartbeat
  <1>7. ASSUME NEW d \in Call, RunCommand(d)
        PROVE SessionExpected(call[c].expected)' /\ call'[c].expected = call[c].expected
    <2>1. PICK ok \in BOOLEAN, pc \in {"ran", "failed"} :
               call' = [call EXCEPT ![d].pc = pc, ![d].ok = ok]
      BY <1>7 DEF RunCommand
    <2>2. /\ call[c].pc \in {"granted", "ran"} /\ call'[c].cmd = call[c].cmd
          /\ call'[c].expected = call[c].expected /\ call'[c].fence = call[c].fence
          /\ call'[c].ticket = call[c].ticket
      BY <1>7, <1>a, <2>1 DEF RunCommand, CallRow
    <2>3. QED
      BY <1>7, <1>d, <2>2 DEF RunCommand
  <1>8. ASSUME NEW d \in Call, Refused(d) \/ CheckLease(d) \/ KeepSession(d) \/ ConfirmSession(d)
        PROVE SessionExpected(call[c].expected)' /\ call'[c].expected = call[c].expected
    <2>1. \E pc \in {"leaving", "checked", "committed", "confirmed", "failed"} : Enter(d, pc)
      BY <1>8 DEF Refused, CheckLease, KeepSession, ConfirmSession
    <2>2. call'[c] = call[c]
      BY <1>a, <1>c, <2>1 DEF Enter, CallRow
    <2>3. UNCHANGED <<arbiter, session, leaseOver>>
      BY <1>8 DEF Refused, CheckLease, KeepSession, ConfirmSession
    <2>4. QED
      BY <1>d, <2>2, <2>3
  <1>9. ASSUME NEW d \in Call, Leave(d)
        PROVE SessionExpected(call[c].expected)' /\ call'[c].expected = call[c].expected
    BY <1>9, <1>a, <1>c, <1>d DEF Leave, IdleCall, ArbiterFile
  <1>10. ASSUME NEW d \in Call, Release(d)
         PROVE SessionExpected(call[c].expected)' /\ call'[c].expected = call[c].expected
    <2>1. c # d /\ call'[c] = call[c]
      BY <1>10, <1>a, <1>c DEF Release, IdleCall
    <2>2. UNCHANGED <<arbiter, leaseOver, session>>
      BY <1>10, <1>a, <1>c DEF Release, ArbiterFile
    <2>3. QED
      BY <1>d, <2>1, <2>2
  <1>11. CASE LeaseRunsOut
    BY <1>11, <1>d DEF LeaseRunsOut
  <1>12. ASSUME NEW t \in Ticket, DeadlinePasses(t)
         PROVE SessionExpected(call[c].expected)' /\ call'[c].expected = call[c].expected
    BY <1>12, <1>d DEF DeadlinePasses
  <1>13. ASSUME NEW s \in Service, LoginFlowExpires(s)
         PROVE SessionExpected(call[c].expected)' /\ call'[c].expected = call[c].expected
    BY <1>13, <1>d DEF LoginFlowExpires
  <1>14. ASSUME NEW s \in Service, Crash(s)
         PROVE SessionExpected(call[c].expected)' /\ call'[c].expected = call[c].expected
    BY <1>14, <1>c, <1>d DEF Crash, IdleCall
  <1>15. CASE UNCHANGED arbiterVars
    BY <1>15, <1>d DEF arbiterVars
  <1> QED
    BY <1>1, <1>2, <1>3, <1>4, <1>5, <1>6, <1>7, <1>8, <1>9, <1>10, <1>11, <1>12, <1>13,
       <1>14, <1>15 DEF ArbiterNext, ArbiterStep

\* ArbiterInv holds in every reachable state.
LEMMA ArbiterInvHolds == ArbiterSpec => []ArbiterInv
  <1>1. ArbiterInit => ArbiterInv
    <2>1. ArbiterInit => ArbiterTypeOK
      BY ArbiterInitTyped
    <2>2. ArbiterInit => TicketsInOrder /\ FencesInOrder /\ LeaseKeepsItsSession
      BY DEF ArbiterInit, TicketsInOrder, FencesInOrder, LeaseKeepsItsSession, IdleCall, NoLease
    <2>3. QED
      BY <2>1, <2>2 DEF ArbiterInv
  <1>2. ArbiterInv /\ [ArbiterNext]_arbiterVars => ArbiterInv'
    BY ArbiterStepTyped, OrderKept, SessionKept DEF ArbiterInv
  <1>3. QED
    BY <1>1, <1>2, PTL DEF ArbiterSpec

\* Every reachable state of the arbiter's file and of the invocations is well typed.
THEOREM ArbiterTypeCorrect == ArbiterSpec => []ArbiterTypeOK
  BY ArbiterInvHolds, PTL DEF ArbiterInv

\* A query with an unexpired lease never finds another account's session.
THEOREM LeaseKeepsSession == ArbiterSpec => []LeaseKeepsItsSession
  BY ArbiterInvHolds, PTL DEF ArbiterInv

\* The session is only ever written under the newest fence.
THEOREM WritesAreFenced == ArbiterSpec => FencedWrites
  <1>1. ArbiterInv /\ [ArbiterNext]_arbiterVars
        => (session' # session => lastWriter' = arbiter.nextFence - 1)
    <2> SUFFICES ASSUME ArbiterInv, [ArbiterNext]_arbiterVars, session' # session
                 PROVE lastWriter' = arbiter.nextFence - 1
      OBVIOUS
    <2>1. PICK c \in Call : CommitSession(c)
      BY DEF ArbiterNext, ArbiterStep, arbiterVars, Begin, TakeTicket, Grant, KeepWaiting, Refused,
             Leave, RunCommand, CheckLease, KeepSession, ConfirmSession, Release, Heartbeat,
             LeaseRunsOut, DeadlinePasses, LoginFlowExpires, Crash
    <2>2. QED
      BY <2>1 DEF CommitSession, MayWriteSession, ArbiterInv, FencesInOrder, NoLease
  <1>2. QED
    BY <1>1, ArbiterInvHolds, PTL DEF ArbiterSpec, FencedWrites

\* No caller is granted the lease before one that queued earlier and has time left.
THEOREM QueueIsFair == ArbiterSpec => NoOvertaking
  <1> DEFINE Overtakes(c, d) ==
        /\ call[c].pc = "waiting" /\ arbiter'.active.ticket = call[c].ticket
        /\ call[d].pc = "waiting" /\ call[d].ticket < call[c].ticket
  <1>1. ArbiterInv /\ [ArbiterNext]_arbiterVars
        => \A c, d \in Call : Overtakes(c, d) => call[d].ticket \in overdue
    <2> SUFFICES ASSUME ArbiterInv, [ArbiterNext]_arbiterVars,
                        NEW c \in Call, NEW d \in Call, Overtakes(c, d)
                 PROVE call[d].ticket \in overdue
      OBVIOUS
    <2> USE DEF ArbiterInv
    <2>0. \A e \in Call : call[e].ticket \in Nat
      BY DEF ArbiterTypeOK, CallRow
    <2>1. ASSUME NEW e \in Call, Grant(e)
          PROVE call[d].ticket \in overdue
      <3>1. /\ arbiter'.active.ticket = call[e].ticket
            /\ FirstInLine(call[e].ticket, arbiter.queue \ overdue)
        BY <2>1, PrunedTyped DEF Grant, ArbiterFile
      <3>2. QED
        BY <2>0, <3>1 DEF FirstInLine, TicketsInOrder
    <2>2. ASSUME NEW e \in Call, TakeTicket(e)
          PROVE FALSE
      <3>1. arbiter'.active \in {arbiter.active, NoLease}
        BY <2>2, PrunedTyped DEF TakeTicket, ArbiterFile
      <3>2. QED
        BY <3>1 DEF TicketsInOrder, NoLease
    <2>3. ASSUME \A e \in Call : ~TakeTicket(e) /\ ~Grant(e)
          PROVE FALSE
      BY <2>3, StepFrame DEF Frame, TicketsInOrder, NoLease
    <2>4. QED
      BY <2>1, <2>2, <2>3
  <1>2. QED
    BY <1>1, ArbiterInvHolds, PTL DEF ArbiterSpec, NoOvertaking

-----------------------------------------------------------------------------
(* Part 2: the state file.                                                 *)

Critical == {"owned", "recovered", "replacing", "displaced", "replaced", "restoring",
            "committed", "releasing", "renaming"}

\* The owner of the lock is the process in the critical section; what a process
\* has moved is a lock left behind, or its own.
OwnedBy(p, x, l) ==
    /\ x.pc \in Critical <=> l.owner = p
    /\ x.pc = "moved" => x.moved.owner = Unowned
    /\ x.pc = "checking" => x.moved.owner = p

LockInv ==
    ~stolen => /\ lock.owner = "none" => lock = NoLock
               /\ \A p \in Process : OwnedBy(p, proc[p], lock)

\* What the process in the critical section knows of the two files f and b.
Knows(x, f, b) ==
    /\ x.pc \in {"recovered", "replacing"} => ~b.there /\ x.read = f.holds
    /\ x.pc = "displaced" => RenameDenied /\ ~f.there /\ b.there /\ x.read = b.holds
    /\ x.pc \in {"replaced", "committed"} => f.there /\ x.write \in f.holds

Sound(f) == ~f.there => f.holds = {}

\* Two files at once are an interrupted replacement: the new one has grown.
Grown == primary.there /\ backup.there => RenameDenied /\ backup.holds \subseteq primary.holds

FilesInv ==
    /\ Sound(primary) /\ Sound(backup)
    /\ ~stolen => /\ Grown
                  /\ acked \subseteq Recoverable
                  /\ \A p \in Process : Knows(proc[p], primary, backup)

\* Whoever is in the critical section, rightly or not, has something to write.
HoldersWrite == \A p \in Process : proc[p].pc \in Critical => proc[p].write \in WriteId

FileInv == StateFileTypeOK /\ HoldersWrite /\ LockInv /\ FilesInv

-----------------------------------------------------------------------------
LEMMA ProcsAreTyped ==
    ASSUME StateFileTypeOK, NEW p \in Process
    PROVE  /\ proc[p] \in ProcRow
           /\ proc[p].pc \in {"idle", "taking", "moved", "owned", "recovered", "replacing",
                 "displaced", "replaced", "restoring", "committed", "releasing", "renaming",
                 "checking"}
           /\ proc[p].write \in WriteId \cup {0}
           /\ proc[p].read \in SUBSET WriteId
           /\ proc[p].seen \in Process \cup {Unowned, "none"}
           /\ proc[p].moved \in [owner : Process \cup {Unowned, "none"}, stale : BOOLEAN]
  BY DEF StateFileTypeOK, ProcRow

LEMMA FileInvInit == StateFileInit => FileInv
<1> SUFFICES ASSUME StateFileInit PROVE FileInv
  OBVIOUS
<1> USE StateFileAssumption DEF StateFileInit
<1>1. StateFileTypeOK
  <2>1. NoLock \in [owner : Process \cup {Unowned, "none"}, stale : BOOLEAN]
    BY DEF NoLock
  <2>2. Absent \in [there : BOOLEAN, holds : SUBSET WriteId]
    BY DEF Absent
  <2>3. IdleProc \in ProcRow
    BY <2>1 DEF IdleProc, ProcRow
  <2>4. 0 \in 0..MaxWrites /\ 0 \in 0..MaxProcessCrashes
    OBVIOUS
  <2>5. proc \in [Process -> ProcRow]
    BY <2>3
  <2>6. QED
    BY <2>1, <2>2, <2>4, <2>5 DEF StateFileTypeOK
<1>2. LockInv
  BY DEF LockInv, OwnedBy, Critical, IdleProc, NoLock, Unowned
<1>3. FilesInv
  BY DEF FilesInv, Knows, Critical, IdleProc, Absent, Sound, Grown, Recoverable
<1>4. HoldersWrite
  BY DEF HoldersWrite, Critical, IdleProc
<1>5. QED
  BY <1>1, <1>2, <1>3, <1>4 DEF FileInv

-----------------------------------------------------------------------------
(* Steps of one process.                                                   *)

PcType == {"idle", "taking", "moved", "owned", "recovered", "replacing", "displaced",
           "replaced", "restoring", "committed", "releasing", "renaming", "checking"}

\* A process that takes the next step, c.
LEMMA GoesIsTyped ==
    ASSUME StateFileTypeOK, NEW p \in Process, NEW c \in PcType, Goes(p, c)
    PROVE  /\ proc' \in [Process -> ProcRow]
           /\ \A q \in Process : q # p => proc'[q] = proc[q]
           /\ proc'[p].pc = c /\ proc'[p].write = proc[p].write
           /\ proc'[p].read = proc[p].read /\ proc'[p].moved = proc[p].moved
  BY DEF StateFileTypeOK, ProcRow, Goes, PcType

LEMMA IdleIsTyped ==
    ASSUME StateFileTypeOK, NEW p \in Process, proc' = [proc EXCEPT ![p] = IdleProc]
    PROVE  /\ proc' \in [Process -> ProcRow]
           /\ \A q \in Process : q # p => proc'[q] = proc[q]
           /\ proc'[p] = IdleProc /\ proc'[p].pc = "idle"
<1>1. IdleProc \in ProcRow
  BY DEF IdleProc, ProcRow, NoLock
<1>2. IdleProc.pc = "idle"
  BY DEF IdleProc
<1>3. QED
  BY <1>1, <1>2 DEF StateFileTypeOK

\* One process moves within the critical section, or within its outside.
StaysInside(x, y) ==
    /\ x.pc \in Critical <=> y.pc \in Critical
    /\ y.pc = "moved" => y.moved.owner = Unowned
    /\ y.pc \notin {"checking"}

LEMMA InsideKeepsLock ==
    ASSUME FileInv, NEW p \in Process,
           UNCHANGED <<lock, stolen>>,
           \A q \in Process : q # p => proc'[q] = proc[q],
           ~stolen => StaysInside(proc[p], proc'[p])
    PROVE  LockInv'
  BY DEF FileInv, LockInv, OwnedBy, StaysInside

\* While no lock was stolen, there is only one process in the critical section.
LEMMA HolderIsAlone ==
    ASSUME FileInv, ~stolen, NEW p \in Process, NEW q \in Process,
           proc[p].pc \in Critical, proc[q].pc \in Critical
    PROVE  p = q
  BY DEF FileInv, LockInv, OwnedBy

\* A process outside knows nothing of the files.
LEMMA OutsideKnowsNothing ==
    ASSUME NEW x, NEW f, NEW b, x.pc \notin Critical
    PROVE  Knows(x, f, b)
  BY DEF Knows, Critical

-----------------------------------------------------------------------------
LEMMA TakeLockKeeps ==
    ASSUME FileInv, NEW p \in Process, TakeLock(p)
    PROVE  FileInv'
<1> USE StateFileAssumption
<1>0. StateFileTypeOK /\ HoldersWrite /\ LockInv /\ FilesInv
  BY DEF FileInv
<1>1. CASE /\ lock' = [owner |-> p, stale |-> FALSE]
           /\ writes' = writes + 1
           /\ proc' = [proc EXCEPT ![p].pc = "owned", ![p].write = writes + 1]
           /\ UNCHANGED crashes
  <2>1. writes + 1 \in WriteId /\ writes + 1 \in 0..MaxWrites
    BY <1>0 DEF TakeLock, WriteId, StateFileTypeOK
  <2>2. /\ proc' \in [Process -> ProcRow]
        /\ \A q \in Process : q # p => proc'[q] = proc[q]
        /\ proc'[p].pc = "owned" /\ proc'[p].write = writes + 1
    <3> DEFINE z == [proc EXCEPT ![p].pc = "owned"]
    <3>1. z \in [Process -> ProcRow] /\ \A q \in Process : q # p => z[q] = proc[q]
      BY <1>0 DEF StateFileTypeOK, ProcRow
    <3>2. z[p].pc = "owned"
      BY <1>0 DEF StateFileTypeOK, ProcRow
    <3>3. proc' = [z EXCEPT ![p].write = writes + 1]
      BY <1>1
    <3> HIDE DEF z
    <3>4. QED
      BY <2>1, <3>1, <3>2, <3>3 DEF ProcRow
  <2>3. StateFileTypeOK'
    BY <1>0, <1>1, <2>1, <2>2 DEF StateFileTypeOK, TakeLock
  <2>4. LockInv'
    BY <1>0, <1>1, <2>2 DEF LockInv, OwnedBy, Critical, NoLock, TakeLock
  <2>5. FilesInv'
    <3>1. ~stolen => \A q \in Process : Knows(proc'[q], primary, backup)
      BY <1>0, <2>1, <2>2 DEF FilesInv, Knows
    <3>2. QED
      BY <1>0, <3>1 DEF FilesInv, TakeLock, Grown, Recoverable, Sound
  <2>6. HoldersWrite'
    BY <1>0, <2>1, <2>2 DEF HoldersWrite
  <2>7. QED
    BY <2>3, <2>4, <2>5, <2>6 DEF FileInv
<1>2. CASE /\ crashes < MaxProcessCrashes /\ crashes' = crashes + 1
           /\ lock' = [owner |-> Unowned, stale |-> FALSE]
           /\ UNCHANGED <<writes, proc>>
  <2>1. StateFileTypeOK'
    BY <1>0, <1>2 DEF StateFileTypeOK, TakeLock, Unowned
  <2>2. LockInv'
    BY <1>0, <1>2 DEF LockInv, OwnedBy, Critical, NoLock, TakeLock, Unowned
  <2>3. FilesInv'
    BY <1>0, <1>2 DEF FilesInv, TakeLock, Grown, Recoverable, Sound, Knows
  <2>4. HoldersWrite'
    BY <1>0, <1>2 DEF HoldersWrite
  <2>5. QED
    BY <2>1, <2>2, <2>3, <2>4 DEF FileInv
<1>3. QED
  BY <1>1, <1>2 DEF TakeLock

\* Looking at a stale lock and moving it away.
LEMMA ObserveStaleKeeps ==
    ASSUME FileInv, NEW p \in Process, ObserveStaleLock(p)
    PROVE  FileInv'
<1>0. StateFileTypeOK /\ HoldersWrite /\ LockInv /\ FilesInv
  BY DEF FileInv
<1>1. /\ proc' \in [Process -> ProcRow]
      /\ \A q \in Process : q # p => proc'[q] = proc[q]
      /\ proc'[p].pc = "taking"
  <2>1. lock.owner \in Process \cup {Unowned, "none"}
    BY <1>0 DEF StateFileTypeOK
  <2>2. QED
    <3> DEFINE z == [proc EXCEPT ![p].pc = "taking"]
    <3>1. z \in [Process -> ProcRow] /\ \A q \in Process : q # p => z[q] = proc[q]
      BY <1>0 DEF StateFileTypeOK, ProcRow
    <3>2. z[p].pc = "taking"
      BY <1>0 DEF StateFileTypeOK, ProcRow
    <3>3. proc' = [z EXCEPT ![p].seen = lock.owner]
      BY DEF ObserveStaleLock
    <3> HIDE DEF z
    <3>4. QED
      BY <2>1, <3>1, <3>2, <3>3 DEF ProcRow
<1>2. StateFileTypeOK'
  BY <1>0, <1>1 DEF StateFileTypeOK, ObserveStaleLock
<1>3. LockInv'
  BY <1>1, InsideKeepsLock DEF StaysInside, Critical, ObserveStaleLock
<1>4. FilesInv'
  BY <1>0, <1>1 DEF FilesInv, ObserveStaleLock, Grown, Recoverable, Sound, Knows, Critical
<1>5. HoldersWrite'
  BY <1>0, <1>1 DEF HoldersWrite, Critical
<1>6. QED
  BY <1>2, <1>3, <1>4, <1>5 DEF FileInv

LEMMA MoveStaleKeeps ==
    ASSUME FileInv, NEW p \in Process, MoveStaleLock(p)
    PROVE  FileInv'
<1> USE StateFileAssumption
<1>0. StateFileTypeOK /\ HoldersWrite /\ LockInv /\ FilesInv
  BY DEF FileInv
<1>1. /\ proc' \in [Process -> ProcRow]
      /\ \A q \in Process : q # p => proc'[q] = proc[q]
      /\ proc'[p].pc = IF lock = NoLock THEN "idle" ELSE "moved"
      /\ proc'[p].moved = lock
  <2>1. lock \in [owner : Process \cup {Unowned, "none"}, stale : BOOLEAN]
    BY <1>0 DEF StateFileTypeOK
  <2>2. QED
    <3> DEFINE c == IF lock = NoLock THEN "idle" ELSE "moved"
               z == [proc EXCEPT ![p].pc = c]
    <3>1. c \in {"idle", "moved"}
      OBVIOUS
    <3>2. proc' = [z EXCEPT ![p].moved = lock]
      BY DEF MoveStaleLock
    <3> HIDE DEF c
    <3>3. z \in [Process -> ProcRow] /\ \A q \in Process : q # p => z[q] = proc[q]
      BY <1>0, <3>1 DEF StateFileTypeOK, ProcRow
    <3>4. z[p].pc = c
      BY <1>0 DEF StateFileTypeOK, ProcRow
    <3> HIDE DEF z
    <3>5. proc'[p].pc = c /\ proc'[p].moved = lock
      BY <2>1, <3>2, <3>3, <3>4 DEF ProcRow
    <3>6. QED
      BY <2>1, <3>2, <3>3, <3>5 DEF ProcRow, c
<1>2. lock' = NoLock /\ (~stolen' => ~stolen /\ lock.owner \notin Process \ {p})
  BY <1>0 DEF MoveStaleLock, StateFileTypeOK
<1>3. StateFileTypeOK'
  <2>1. lock' \in [owner : Process \cup {Unowned, "none"}, stale : BOOLEAN] /\ stolen' \in BOOLEAN
    BY <1>0, <1>2 DEF StateFileTypeOK, MoveStaleLock, NoLock
  <2>2. QED
    BY <1>0, <1>1, <2>1 DEF StateFileTypeOK, MoveStaleLock
<1>4. LockInv'
  <2> SUFFICES ASSUME ~stolen', NEW q \in Process
               PROVE OwnedBy(q, proc'[q], lock')
    BY <1>2 DEF LockInv
  <2>1. ~stolen /\ proc[p].pc = "taking" /\ lock.owner \notin Process
    BY <1>0, <1>2 DEF MoveStaleLock, LockInv, OwnedBy, Critical
  <2>2. lock # NoLock => lock.owner = Unowned
    BY <1>0, <2>1 DEF StateFileTypeOK, NoLock, LockInv
  <2>3. QED
    BY <1>0, <1>1, <1>2, <2>1, <2>2 DEF LockInv, OwnedBy, Critical, NoLock
<1>5. FilesInv'
  BY <1>0, <1>1, <1>2 DEF FilesInv, MoveStaleLock, Grown, Recoverable, Sound, Knows, Critical
<1>6. HoldersWrite'
  BY <1>0, <1>1 DEF HoldersWrite, Critical
<1>7. QED
  BY <1>3, <1>4, <1>5, <1>6 DEF FileInv

LEMMA JudgeMovedKeeps ==
    ASSUME FileInv, NEW p \in Process, JudgeMovedLock(p)
    PROVE  FileInv'
<1> USE StateFileAssumption
<1>0. StateFileTypeOK /\ HoldersWrite /\ LockInv /\ FilesInv
  BY DEF FileInv
<1>1. /\ proc' \in [Process -> ProcRow]
      /\ \A q \in Process : q # p => proc'[q] = proc[q]
      /\ proc'[p].pc = "idle"
  BY <1>0, IdleIsTyped DEF JudgeMovedLock
<1>2. lock' \in {lock, proc[p].moved} /\ (lock' # lock => lock = NoLock)
  BY DEF JudgeMovedLock
<1>3. StateFileTypeOK'
  <2>1. lock' \in [owner : Process \cup {Unowned, "none"}, stale : BOOLEAN]
    BY <1>0, <1>2, ProcsAreTyped DEF StateFileTypeOK
  <2>2. QED
    BY <1>0, <1>1, <2>1 DEF StateFileTypeOK, JudgeMovedLock
<1>4. LockInv'
  <2> SUFFICES ASSUME ~stolen'
               PROVE /\ lock'.owner = "none" => lock' = NoLock
                     /\ \A q \in Process : OwnedBy(q, proc'[q], lock')
    BY DEF LockInv
  <2>1. ~stolen /\ proc[p].pc = "moved" /\ proc[p].moved.owner = Unowned
    BY <1>0 DEF JudgeMovedLock, LockInv, OwnedBy
  <2>3. \A q \in Process : lock'.owner = q <=> lock.owner = q
    BY <1>2, <2>1 DEF NoLock, Unowned
  <2>4. lock'.owner = "none" => lock' = NoLock
    BY <1>0, <1>2, <2>1 DEF LockInv, Unowned
  <2>5. QED
    BY <1>0, <1>1, <2>1, <2>3, <2>4 DEF LockInv, OwnedBy, Critical
<1>5. FilesInv'
  BY <1>0, <1>1 DEF FilesInv, JudgeMovedLock, Grown, Recoverable, Sound, Knows, Critical
<1>6. HoldersWrite'
  BY <1>0, <1>1 DEF HoldersWrite, Critical
<1>7. QED
  BY <1>3, <1>4, <1>5, <1>6 DEF FileInv

-----------------------------------------------------------------------------
(* The critical section.                                                   *)

FileType == [there : BOOLEAN, holds : SUBSET WriteId]

\* A step within the critical section keeps the invariant if it keeps what is
\* said of the files and of the one process that is there.
LEMMA HolderKeeps ==
    ASSUME FileInv, NEW p \in Process,
           proc[p].pc \in Critical,
           proc' \in [Process -> ProcRow],
           \A q \in Process : q # p => proc'[q] = proc[q],
           proc'[p].pc \notin {"moved", "checking"}, proc'[p].write = proc[p].write,
           UNCHANGED <<lock, writes, stolen, crashes>>,
           primary' \in FileType, backup' \in FileType, Sound(primary)', Sound(backup)',
           acked' \subseteq WriteId,
           ~stolen => /\ proc'[p].pc \in Critical
                      /\ Grown' /\ acked' \subseteq Recoverable'
                      /\ Knows(proc'[p], primary', backup')
    PROVE  FileInv'
<1>0. StateFileTypeOK /\ HoldersWrite /\ LockInv /\ FilesInv
  BY DEF FileInv
<1>1. StateFileTypeOK'
  BY <1>0 DEF StateFileTypeOK, FileType
<1>2. LockInv'
  BY <1>0 DEF LockInv, OwnedBy
<1>3. ~stolen => \A q \in Process : q # p => proc'[q].pc \notin Critical
  BY HolderIsAlone
<1>4. FilesInv'
  BY <1>3, OutsideKnowsNothing DEF FilesInv
<1>5. HoldersWrite'
  BY <1>0 DEF HoldersWrite
<1>6. QED
  BY <1>1, <1>2, <1>4, <1>5 DEF FileInv

\* What is known of the holder, and of the files it has not touched.
LEMMA HolderKnows ==
    ASSUME FileInv, NEW p \in Process
    PROVE  /\ StateFileTypeOK
           /\ primary \in FileType /\ backup \in FileType
           /\ Sound(primary) /\ Sound(backup) /\ acked \subseteq WriteId
           /\ ~stolen => /\ proc[p].pc \in Critical => OwnsLock(p)
                         /\ Grown /\ acked \subseteq Recoverable
                         /\ Knows(proc[p], primary, backup)
  BY DEF FileInv, StateFileTypeOK, FileType, FilesInv, LockInv, OwnedBy, OwnsLock

LEMMA AbsentIsTyped == Absent \in FileType /\ ~Absent.there /\ Absent.holds = {} /\ Sound(Absent)
  BY DEF Absent, FileType, Sound

\* A process that leaves the files alone and goes to its release.
LEMMA AbandonKeeps ==
    ASSUME FileInv, NEW p \in Process, proc[p].pc \in Critical, Abandon(p),
           UNCHANGED <<lock, primary, backup, acked, writes, stolen, crashes>>
    PROVE  FileInv'
<1>1. /\ proc' \in [Process -> ProcRow]
      /\ \A q \in Process : q # p => proc'[q] = proc[q]
      /\ proc'[p].pc = "releasing" /\ proc'[p].write = proc[p].write
  BY HolderKnows, GoesIsTyped DEF Abandon, PcType
<1>2. "releasing" \in Critical
  BY DEF Critical
<1>3. ~stolen => Knows(proc'[p], primary', backup')
  BY <1>1, HolderKnows DEF Knows
<1>4. QED
  BY <1>1, <1>2, <1>3, HolderKnows, HolderKeeps DEF Sound, Grown, Recoverable

LEMMA RecoverKeeps ==
    ASSUME FileInv, NEW p \in Process, RecoverFile(p)
    PROVE  FileInv'
<1>0. proc[p].pc \in Critical /\ proc[p].pc = "owned"
  BY DEF RecoverFile, Critical
<1>1. CASE Abandon(p) /\ UNCHANGED <<primary, backup>>
  BY <1>0, <1>1, AbandonKeeps DEF RecoverFile
<1>2. CASE /\ ~backup.there
           /\ proc' = [proc EXCEPT ![p].pc = "recovered", ![p].read = primary.holds]
           /\ UNCHANGED <<primary, backup>>
  <2>1. /\ proc' \in [Process -> ProcRow]
        /\ \A q \in Process : q # p => proc'[q] = proc[q]
        /\ proc'[p].pc = "recovered" /\ proc'[p].write = proc[p].write
        /\ proc'[p].read = primary.holds
    <3> DEFINE z == [proc EXCEPT ![p].pc = "recovered"]
    <3>2. /\ z \in [Process -> ProcRow]
          /\ \A q \in Process : q # p => z[q] = proc[q]
          /\ z[p].pc = "recovered" /\ z[p].write = proc[p].write
      BY HolderKnows DEF StateFileTypeOK, ProcRow
    <3>3. proc' = [z EXCEPT ![p].read = primary.holds]
      BY <1>2
    <3>4. primary.holds \in SUBSET WriteId
      BY HolderKnows DEF FileType
    <3> HIDE DEF z
    <3>5. QED
      BY <3>2, <3>3, <3>4 DEF ProcRow
  <2>2. "recovered" \in Critical
    BY DEF Critical
  <2>3. ~stolen => Knows(proc'[p], primary', backup')
    BY <1>0, <1>2, <2>1, HolderKnows DEF Knows
  <2>4. QED
    BY <1>0, <1>2, <2>1, <2>2, <2>3, HolderKnows, HolderKeeps
       DEF RecoverFile, Sound, Grown, Recoverable
<1>3. CASE /\ backup.there /\ ~primary.there
           /\ primary' = backup /\ backup' = Absent /\ UNCHANGED proc
  <2>1. ~stolen => Knows(proc'[p], primary', backup')
    BY <1>0, <1>3, HolderKnows DEF Knows
  <2>2. ~stolen => Grown' /\ acked' \subseteq Recoverable'
    BY <1>3, HolderKnows, AbsentIsTyped DEF Grown, Recoverable, RecoverFile
  <2>3. proc' \in [Process -> ProcRow] /\ proc'[p] = proc[p]
    BY <1>3, HolderKnows DEF StateFileTypeOK
  <2>4. QED
    BY <1>0, <1>3, <2>1, <2>2, <2>3, HolderKnows, HolderKeeps, AbsentIsTyped
       DEF RecoverFile, Sound
<1>4. CASE /\ backup.there /\ primary.there
           /\ backup' = Absent /\ UNCHANGED <<primary, proc>>
  <2>1. ~stolen => Knows(proc'[p], primary', backup')
    BY <1>0, <1>4, HolderKnows DEF Knows
  <2>2. ~stolen => Grown' /\ acked' \subseteq Recoverable'
    BY <1>4, HolderKnows, AbsentIsTyped DEF Grown, Recoverable, RecoverFile
  <2>3. proc' \in [Process -> ProcRow] /\ proc'[p] = proc[p]
    BY <1>4, HolderKnows DEF StateFileTypeOK
  <2>4. QED
    BY <1>0, <1>4, <2>1, <2>2, <2>3, HolderKnows, HolderKeeps, AbsentIsTyped
       DEF RecoverFile, Sound
<1>5. QED
  BY <1>1, <1>2, <1>3, <1>4 DEF RecoverFile

LEMMA WriteTemporaryKeeps ==
    ASSUME FileInv, NEW p \in Process, WriteTemporary(p)
    PROVE  FileInv'
<1>1. proc[p].pc = "recovered" /\ "recovered" \in Critical /\ "replacing" \in Critical
  BY DEF WriteTemporary, Critical
<1>2. CASE OwnsLock(p)
  <2>1. /\ proc' \in [Process -> ProcRow]
        /\ \A q \in Process : q # p => proc'[q] = proc[q]
        /\ proc'[p].pc = "replacing" /\ proc'[p].write = proc[p].write
        /\ proc'[p].read = proc[p].read
    BY <1>2, HolderKnows, GoesIsTyped DEF WriteTemporary, PcType
  <2>2. ~stolen => Knows(proc'[p], primary', backup')
    BY <1>1, <2>1, HolderKnows DEF Knows, WriteTemporary
  <2>3. QED
    BY <1>1, <2>1, <2>2, HolderKnows, HolderKeeps
       DEF WriteTemporary, Sound, Grown, Recoverable
<1>3. CASE ~OwnsLock(p)
  BY <1>1, <1>3, AbandonKeeps DEF WriteTemporary, Abandon
<1>4. QED
  BY <1>2, <1>3

\* The new file holds what was read, and with it every write reported.
LEMMA NewFileIsTyped ==
    ASSUME FileInv, NEW p \in Process, proc[p].pc \in Critical
    PROVE  /\ NewFile(p) \in FileType /\ NewFile(p).there /\ Sound(NewFile(p))
           /\ NewFile(p).holds = proc[p].read \cup {proc[p].write}
<1>1. proc[p].write \in WriteId /\ proc[p].read \in SUBSET WriteId
  BY ProcsAreTyped DEF FileInv, HoldersWrite
<1>2. QED
  BY <1>1 DEF NewFile, FileWith, FileType, Sound

LEMMA RenameOverKeeps ==
    ASSUME FileInv, NEW p \in Process, RenameOver(p)
    PROVE  FileInv'
<1>1. proc[p].pc = "replacing" /\ "replacing" \in Critical /\ "committed" \in Critical
  BY DEF RenameOver, Critical
<1>2. /\ proc' \in [Process -> ProcRow]
      /\ \A q \in Process : q # p => proc'[q] = proc[q]
      /\ proc'[p].pc = "committed" /\ proc'[p].write = proc[p].write
  BY HolderKnows, GoesIsTyped DEF RenameOver, PcType
<1>3. /\ primary' \in FileType /\ primary'.there /\ Sound(primary)'
      /\ primary'.holds = proc[p].read \cup {proc[p].write}
      /\ UNCHANGED <<lock, backup, acked, writes, stolen, crashes>>
  BY <1>1, NewFileIsTyped DEF RenameOver, Sound
<1>4. ~stolen => ~backup.there /\ proc[p].read = primary.holds
  BY <1>1, HolderKnows DEF Knows
<1>5. ~stolen => acked \subseteq proc[p].read
  BY <1>4, HolderKnows DEF Recoverable, Sound
<1>6. ~stolen => Knows(proc'[p], primary', backup')
  BY <1>2, <1>3 DEF Knows
<1>7. ~stolen => Grown' /\ acked' \subseteq Recoverable'
  BY <1>3, <1>4, <1>5 DEF Grown, Recoverable
<1>8. QED
  BY <1>1, <1>2, <1>3, <1>6, <1>7, HolderKnows, HolderKeeps DEF Sound

LEMMA MoveAsideKeeps ==
    ASSUME FileInv, NEW p \in Process, MoveAside(p)
    PROVE  FileInv'
<1>1. proc[p].pc = "replacing" /\ "replacing" \in Critical /\ "displaced" \in Critical
  BY DEF MoveAside, Critical
<1>2. CASE /\ ~backup.there /\ backup' = primary /\ primary' = Absent
           /\ Goes(p, "displaced")
  <2>1. /\ proc' \in [Process -> ProcRow]
        /\ \A q \in Process : q # p => proc'[q] = proc[q]
        /\ proc'[p].pc = "displaced" /\ proc'[p].write = proc[p].write
        /\ proc'[p].read = proc[p].read
    BY <1>2, HolderKnows, GoesIsTyped DEF PcType
  <2>2. ~stolen => Knows(proc'[p], primary', backup')
    BY <1>1, <1>2, <2>1, HolderKnows, AbsentIsTyped DEF Knows, MoveAside
  <2>3. ~stolen => Grown' /\ acked' \subseteq Recoverable'
    BY <1>2, HolderKnows, AbsentIsTyped DEF Grown, Recoverable, MoveAside
  <2>4. QED
    BY <1>1, <1>2, <2>1, <2>2, <2>3, HolderKnows, HolderKeeps, AbsentIsTyped
       DEF MoveAside, Sound
<1>3. CASE Abandon(p) /\ UNCHANGED <<primary, backup>>
  BY <1>1, <1>3, AbandonKeeps DEF MoveAside
<1>4. QED
  BY <1>2, <1>3 DEF MoveAside

\* A process that goes on to c and leaves the files alone.
LEMMA WaitingKeeps ==
    ASSUME FileInv, NEW p \in Process, proc[p].pc \in Critical,
           NEW c \in {"restoring", "releasing", "renaming"}, Goes(p, c),
           UNCHANGED <<lock, primary, backup, acked, writes, stolen, crashes>>
    PROVE  FileInv'
<1>1. /\ proc' \in [Process -> ProcRow]
      /\ \A q \in Process : q # p => proc'[q] = proc[q]
      /\ proc'[p].pc = c /\ proc'[p].write = proc[p].write
  BY HolderKnows, GoesIsTyped DEF PcType
<1>2. c \in Critical
  BY DEF Critical
<1>3. ~stolen => Knows(proc'[p], primary', backup')
  BY <1>1 DEF Knows
<1>4. QED
  BY <1>1, <1>2, <1>3, HolderKnows, HolderKeeps DEF Sound, Grown, Recoverable

LEMMA MoveInKeeps ==
    ASSUME FileInv, NEW p \in Process, MoveIn(p)
    PROVE  FileInv'
<1>1. proc[p].pc = "displaced" /\ "displaced" \in Critical /\ "replaced" \in Critical
  BY DEF MoveIn, Critical
<1>2. CASE OwnsLock(p) /\ ~primary.there
  <2>1. /\ proc' \in [Process -> ProcRow]
        /\ \A q \in Process : q # p => proc'[q] = proc[q]
        /\ proc'[p].pc = "replaced" /\ proc'[p].write = proc[p].write
    BY <1>2, HolderKnows, GoesIsTyped DEF MoveIn, PcType
  <2>2. /\ primary' \in FileType /\ primary'.there /\ Sound(primary)'
        /\ primary'.holds = proc[p].read \cup {proc[p].write}
        /\ UNCHANGED <<lock, backup, acked, writes, stolen, crashes>>
    BY <1>1, <1>2, NewFileIsTyped DEF MoveIn, Sound
  <2>3. ~stolen => backup.there /\ proc[p].read = backup.holds /\ acked \subseteq backup.holds
    BY <1>1, <1>2, HolderKnows DEF Knows, Recoverable
  <2>4. ~stolen => RenameDenied
    BY <1>1, HolderKnows DEF Knows
  <2>5. ~stolen => Knows(proc'[p], primary', backup')
    BY <2>1, <2>2 DEF Knows
  <2>6. ~stolen => Grown' /\ acked' \subseteq Recoverable'
    BY <2>2, <2>3, <2>4 DEF Grown, Recoverable
  <2>7. QED
    BY <1>1, <2>1, <2>2, <2>5, <2>6, HolderKnows, HolderKeeps DEF Sound
<1>3. CASE Goes(p, "restoring") /\ UNCHANGED primary
  BY <1>1, <1>3, WaitingKeeps DEF MoveIn
<1>4. QED
  BY <1>2, <1>3 DEF MoveIn

LEMMA DropBackupKeeps ==
    ASSUME FileInv, NEW p \in Process, DropBackup(p)
    PROVE  FileInv'
<1>1. proc[p].pc = "replaced" /\ "replaced" \in Critical /\ "committed" \in Critical
  BY DEF DropBackup, Critical
<1>2. CASE backup' = Absent /\ Goes(p, "committed")
  <2>1. /\ proc' \in [Process -> ProcRow]
        /\ \A q \in Process : q # p => proc'[q] = proc[q]
        /\ proc'[p].pc = "committed" /\ proc'[p].write = proc[p].write
    BY <1>2, HolderKnows, GoesIsTyped DEF PcType
  <2>2. ~stolen => Knows(proc'[p], primary', backup') /\ primary.there
    BY <1>1, <2>1, HolderKnows DEF Knows, DropBackup
  <2>3. ~stolen => Grown' /\ acked' \subseteq Recoverable'
    BY <1>2, <2>2, HolderKnows, AbsentIsTyped DEF Grown, Recoverable, DropBackup
  <2>4. QED
    BY <1>1, <1>2, <2>1, <2>2, <2>3, HolderKnows, HolderKeeps, AbsentIsTyped
       DEF DropBackup, Sound
<1>3. CASE Goes(p, "restoring") /\ UNCHANGED backup
  BY <1>1, <1>3, WaitingKeeps DEF DropBackup
<1>4. QED
  BY <1>2, <1>3 DEF DropBackup

LEMMA RestoreKeeps ==
    ASSUME FileInv, NEW p \in Process, RestoreBackup(p)
    PROVE  FileInv'
<1>1. proc[p].pc = "restoring" /\ "restoring" \in Critical /\ "releasing" \in Critical
  BY DEF RestoreBackup, Critical
<1>2. CASE ~primary.there /\ backup.there /\ primary' = backup /\ backup' = Absent
  <2>1. /\ proc' \in [Process -> ProcRow]
        /\ \A q \in Process : q # p => proc'[q] = proc[q]
        /\ proc'[p].pc = "releasing" /\ proc'[p].write = proc[p].write
    BY HolderKnows, GoesIsTyped DEF RestoreBackup, Abandon, PcType
  <2>2. ~stolen => Knows(proc'[p], primary', backup')
    BY <2>1 DEF Knows
  <2>3. ~stolen => Grown' /\ acked' \subseteq Recoverable'
    BY <1>2, HolderKnows, AbsentIsTyped DEF Grown, Recoverable, RestoreBackup
  <2>4. QED
    BY <1>1, <1>2, <2>1, <2>2, <2>3, HolderKnows, HolderKeeps, AbsentIsTyped
       DEF RestoreBackup, Sound
<1>3. CASE UNCHANGED <<primary, backup>>
  BY <1>1, <1>3, AbandonKeeps DEF RestoreBackup
<1>4. QED
  BY <1>2, <1>3 DEF RestoreBackup

LEMMA ReportKeeps ==
    ASSUME FileInv, NEW p \in Process, Report(p)
    PROVE  FileInv'
<1>1. proc[p].pc = "committed" /\ "committed" \in Critical /\ "releasing" \in Critical
  BY DEF Report, Critical
<1>2. /\ proc' \in [Process -> ProcRow]
      /\ \A q \in Process : q # p => proc'[q] = proc[q]
      /\ proc'[p].pc = "releasing" /\ proc'[p].write = proc[p].write
  BY HolderKnows, GoesIsTyped DEF Report, Abandon, PcType
<1>3. proc[p].write \in WriteId
  BY <1>1 DEF FileInv, HoldersWrite
<1>4. ~stolen => primary.there /\ proc[p].write \in primary.holds
  BY <1>1, HolderKnows DEF Knows
<1>5. ~stolen => Knows(proc'[p], primary', backup')
  BY <1>2 DEF Knows
<1>6. acked' \subseteq WriteId
  BY <1>3, HolderKnows DEF Report
<1>7. ~stolen => Grown' /\ acked' \subseteq Recoverable'
  BY <1>4, HolderKnows DEF Grown, Recoverable, Report
<1>8. QED
  BY <1>1, <1>2, <1>5, <1>6, <1>7, HolderKnows, HolderKeeps DEF Report, Sound

-----------------------------------------------------------------------------
(* The release, and what happens to those who are gone.                    *)

LEMMA BeginReleaseKeeps ==
    ASSUME FileInv, NEW p \in Process, BeginRelease(p)
    PROVE  FileInv'
<1>1. proc[p].pc = "releasing" /\ "releasing" \in Critical
  BY DEF BeginRelease, Critical
<1>2. CASE Goes(p, "renaming")
  BY <1>1, <1>2, WaitingKeeps DEF BeginRelease
<1>3. CASE ~OwnsLock(p) /\ proc' = [proc EXCEPT ![p] = IdleProc]
  <2>0. StateFileTypeOK /\ HoldersWrite /\ LockInv /\ FilesInv
    BY DEF FileInv
  <2>1. /\ proc' \in [Process -> ProcRow]
        /\ \A q \in Process : q # p => proc'[q] = proc[q]
        /\ proc'[p].pc = "idle"
    BY <1>3, HolderKnows, IdleIsTyped
  <2>2. stolen /\ stolen'
    BY <1>1, <1>3, HolderKnows DEF BeginRelease
  <2>3. QED
    BY <2>0, <2>1, <2>2
       DEF FileInv, StateFileTypeOK, HoldersWrite, LockInv, FilesInv, Sound, Critical, BeginRelease
<1>4. QED
  BY <1>2, <1>3 DEF BeginRelease

LEMMA MoveReleasedKeeps ==
    ASSUME FileInv, NEW p \in Process, MoveReleased(p)
    PROVE  FileInv'
<1> USE StateFileAssumption
<1>0. StateFileTypeOK /\ HoldersWrite /\ LockInv /\ FilesInv
  BY DEF FileInv
<1>1. /\ proc' \in [Process -> ProcRow]
      /\ \A q \in Process : q # p => proc'[q] = proc[q]
      /\ proc'[p].pc = IF lock = NoLock THEN "idle" ELSE "checking"
      /\ proc'[p].moved = lock
  <2>1. lock \in [owner : Process \cup {Unowned, "none"}, stale : BOOLEAN]
    BY <1>0 DEF StateFileTypeOK
  <2>2. QED
    <3> DEFINE c == IF lock = NoLock THEN "idle" ELSE "checking"
               z == [proc EXCEPT ![p].pc = c]
    <3>1. c \in {"idle", "checking"}
      OBVIOUS
    <3>2. proc' = [z EXCEPT ![p].moved = lock]
      BY DEF MoveReleased
    <3> HIDE DEF c
    <3>3. z \in [Process -> ProcRow] /\ \A q \in Process : q # p => z[q] = proc[q]
      BY <1>0, <3>1 DEF StateFileTypeOK, ProcRow
    <3>4. z[p].pc = c
      BY <1>0 DEF StateFileTypeOK, ProcRow
    <3> HIDE DEF z
    <3>5. proc'[p].pc = c /\ proc'[p].moved = lock
      BY <2>1, <3>2, <3>3, <3>4 DEF ProcRow
    <3>6. QED
      BY <2>1, <3>2, <3>3, <3>5 DEF ProcRow, c
<1>2. lock' = NoLock /\ (~stolen' => ~stolen)
  BY <1>0 DEF MoveReleased, StateFileTypeOK
<1>3. StateFileTypeOK'
  <2>1. lock' \in [owner : Process \cup {Unowned, "none"}, stale : BOOLEAN] /\ stolen' \in BOOLEAN
    BY <1>0, <1>2 DEF StateFileTypeOK, MoveReleased, NoLock
  <2>2. QED
    BY <1>0, <1>1, <2>1 DEF StateFileTypeOK, MoveReleased
<1>4. LockInv'
  <2> SUFFICES ASSUME ~stolen', NEW q \in Process
               PROVE OwnedBy(q, proc'[q], lock')
    BY <1>2 DEF LockInv
  <2>1. ~stolen /\ proc[p].pc = "renaming" /\ lock.owner = p
    BY <1>0, <1>2 DEF MoveReleased, LockInv, OwnedBy, Critical
  <2>2. QED
    BY <1>0, <1>1, <1>2, <2>1 DEF LockInv, OwnedBy, Critical, NoLock
<1>5. FilesInv'
  BY <1>0, <1>1, <1>2 DEF FilesInv, MoveReleased, Grown, Recoverable, Sound, Knows, Critical
<1>6. HoldersWrite'
  BY <1>0, <1>1 DEF HoldersWrite, Critical
<1>7. QED
  BY <1>3, <1>4, <1>5, <1>6 DEF FileInv

LEMMA JudgeReleasedKeeps ==
    ASSUME FileInv, NEW p \in Process, JudgeReleased(p)
    PROVE  FileInv'
<1>0. StateFileTypeOK /\ HoldersWrite /\ LockInv /\ FilesInv
  BY DEF FileInv
<1>1. /\ proc' \in [Process -> ProcRow]
      /\ \A q \in Process : q # p => proc'[q] = proc[q]
      /\ proc'[p].pc = "idle"
  BY <1>0, IdleIsTyped DEF JudgeReleased
<1>2. lock' \in {lock, proc[p].moved} /\ (~stolen => lock' = lock)
  BY <1>0 DEF JudgeReleased, LockInv, OwnedBy
<1>3. StateFileTypeOK'
  <2>1. lock' \in [owner : Process \cup {Unowned, "none"}, stale : BOOLEAN]
    BY <1>0, <1>2, ProcsAreTyped DEF StateFileTypeOK
  <2>2. QED
    BY <1>0, <1>1, <2>1 DEF StateFileTypeOK, JudgeReleased
<1>4. LockInv'
  BY <1>0, <1>1, <1>2 DEF LockInv, OwnedBy, Critical, JudgeReleased
<1>5. FilesInv'
  BY <1>0, <1>1 DEF FilesInv, JudgeReleased, Grown, Recoverable, Sound, Knows, Critical
<1>6. HoldersWrite'
  BY <1>0, <1>1 DEF HoldersWrite, Critical
<1>7. QED
  BY <1>3, <1>4, <1>5, <1>6 DEF FileInv

LEMMA StaleKeeps ==
    ASSUME FileInv, LockGoesStale
    PROVE  FileInv'
<1>0. StateFileTypeOK /\ HoldersWrite /\ LockInv /\ FilesInv
  BY DEF FileInv
<1>1. /\ lock' \in [owner : Process \cup {Unowned, "none"}, stale : BOOLEAN]
      /\ lock'.owner = lock.owner /\ lock'.owner # "none"
  BY <1>0, StateFileAssumption DEF StateFileTypeOK, LockGoesStale, OwnerGone, Unowned
<1>2. StateFileTypeOK'
  BY <1>0, <1>1 DEF StateFileTypeOK, LockGoesStale
<1>3. LockInv'
  BY <1>0, <1>1 DEF LockInv, OwnedBy, LockGoesStale
<1>4. FilesInv' /\ HoldersWrite'
  BY <1>0 DEF FilesInv, HoldersWrite, LockGoesStale, Grown, Recoverable, Sound
<1>5. QED
  BY <1>2, <1>3, <1>4 DEF FileInv

LEMMA CrashKeeps ==
    ASSUME FileInv, NEW p \in Process, CrashProcess(p)
    PROVE  FileInv'
<1> USE StateFileAssumption
<1>0. StateFileTypeOK /\ HoldersWrite /\ LockInv /\ FilesInv
  BY DEF FileInv
<1>1. /\ proc' \in [Process -> ProcRow]
      /\ \A q \in Process : q # p => proc'[q] = proc[q]
      /\ proc'[p].pc = "idle"
  BY <1>0, IdleIsTyped DEF CrashProcess
<1>2. /\ lock' \in [owner : Process \cup {Unowned, "none"}, stale : BOOLEAN]
      /\ lock.owner = p => lock'.owner = Unowned
      /\ lock.owner # p => lock' = lock
  BY <1>0 DEF StateFileTypeOK, CrashProcess, OwnsLock
<1>3. StateFileTypeOK'
  <2>1. crashes' \in 0..MaxProcessCrashes
    BY <1>0 DEF StateFileTypeOK, CrashProcess
  <2>2. QED
    BY <1>0, <1>1, <1>2, <2>1 DEF StateFileTypeOK, CrashProcess
<1>4. LockInv'
  BY <1>0, <1>1, <1>2 DEF LockInv, OwnedBy, Critical, CrashProcess, Unowned
<1>5. FilesInv'
  BY <1>0, <1>1 DEF FilesInv, CrashProcess, Grown, Recoverable, Sound, Knows, Critical
<1>6. HoldersWrite'
  BY <1>0, <1>1 DEF HoldersWrite, Critical
<1>7. QED
  BY <1>3, <1>4, <1>5, <1>6 DEF FileInv

-----------------------------------------------------------------------------
LEMMA FileInvStep == FileInv /\ [StateFileNext]_fileVars => FileInv'
<1> SUFFICES ASSUME FileInv, [StateFileNext]_fileVars
             PROVE  FileInv'
  OBVIOUS
<1>1. CASE UNCHANGED fileVars
  BY <1>1 DEF FileInv, fileVars, StateFileTypeOK, HoldersWrite, LockInv, FilesInv, Sound,
              Grown, Recoverable
<1>2. ASSUME NEW p \in Process, TakeLock(p) \/ StateFileStep(p) \/ CrashProcess(p)
      PROVE  FileInv'
  BY <1>2, TakeLockKeeps, ObserveStaleKeeps, MoveStaleKeeps, JudgeMovedKeeps, RecoverKeeps,
     WriteTemporaryKeeps, RenameOverKeeps, MoveAsideKeeps, MoveInKeeps, DropBackupKeeps,
     RestoreKeeps, ReportKeeps, BeginReleaseKeeps, MoveReleasedKeeps, JudgeReleasedKeeps,
     CrashKeeps DEF StateFileStep
<1>3. QED
  BY <1>1, <1>2, StaleKeeps DEF StateFileNext

\* Every step of every process, and every crash, keeps the owner of the lock and
\* what it knows of the files in agreement.
THEOREM FileInvariant == StateFileSpec => []FileInv
  BY FileInvInit, FileInvStep, PTL DEF StateFileSpec

\* The lock, the files and the processes keep values of their types.
THEOREM StateFileTypes == StateFileSpec => []StateFileTypeOK
<1>1. FileInv => StateFileTypeOK
  BY DEF FileInv
<1>2. QED
  BY <1>1, FileInvariant, PTL

\* A write reported as done is in the file or in its backup, where the next
\* owner of the lock finds it, after any crash and any takeover of a stale lock.
THEOREM AcknowledgedWritesKept == StateFileSpec => []AckedWritesKept
<1>1. FileInv => AckedWritesKept
  BY DEF FileInv, FilesInv, AckedWritesKept
<1>2. QED
  BY <1>1, FileInvariant, PTL

\* Two files never contradict each other in a way recovery refuses, unless a
\* write removes a record on a system that does not rename over a file: the
\* comment of replaceStateFile is right everywhere else.
THEOREM RecoverableWithoutRemoval ==
    StateFileSpec => [](Removal = {} \/ ~RenameDenied => AlwaysRecoverable)
<1>1. FileInv => (Removal = {} \/ ~RenameDenied => AlwaysRecoverable)
  BY DEF FileInv, FilesInv, Grown, AlwaysRecoverable, Progresses
<1>2. QED
  BY <1>1, FileInvariant, PTL

-----------------------------------------------------------------------------
(* As long as nobody crashes no lock goes stale, so none is taken over.    *)

NothingStale ==
    crashes = 0 =>
      /\ ~stolen /\ ~lock.stale /\ lock.owner # Unowned
      /\ \A p \in Process : proc[p].pc \notin {"taking", "moved"}

LEMMA NothingStaleStep ==
    FileInv /\ NothingStale /\ [StateFileNext]_fileVars => NothingStale'
<1> USE StateFileAssumption
<1> SUFFICES ASSUME FileInv, NothingStale, [StateFileNext]_fileVars, crashes' = 0
             PROVE  /\ ~stolen' /\ ~lock'.stale /\ lock'.owner # Unowned
                    /\ \A q \in Process : proc'[q].pc \notin {"taking", "moved"}
  BY DEF NothingStale
<1>0. StateFileTypeOK /\ LockInv
  BY DEF FileInv
<1>1. CASE UNCHANGED fileVars
  BY <1>1 DEF fileVars, NothingStale
<1>2. crashes \in Nat /\ (crashes' = crashes \/ crashes' = crashes + 1) => crashes = 0
  OBVIOUS
<1>3. crashes \in Nat
  BY <1>0 DEF StateFileTypeOK
<1>4. ASSUME NEW p \in Process, TakeLock(p)
      PROVE  /\ ~stolen' /\ ~lock'.stale /\ lock'.owner # Unowned
             /\ \A q \in Process : proc'[q].pc \notin {"taking", "moved"}
  <2>1. crashes = 0 /\ UNCHANGED stolen /\ lock' = [owner |-> p, stale |-> FALSE]
        /\ proc' = [proc EXCEPT ![p].pc = "owned", ![p].write = writes + 1]
    BY <1>2, <1>3, <1>4 DEF TakeLock
  <2>2. \A q \in Process : proc'[q].pc \in {proc[q].pc, "owned"}
    BY <1>0, <2>1 DEF StateFileTypeOK, ProcRow
  <2>3. QED
    BY <2>1, <2>2 DEF NothingStale, Unowned
<1>5. ASSUME NEW p \in Process, CrashProcess(p)
      PROVE  FALSE
  BY <1>3, <1>5 DEF CrashProcess
<1>6. CASE LockGoesStale
  <2>1. /\ crashes = 0 /\ lock.owner \in Process
        /\ proc[lock.owner].pc \in {"idle", "taking", "moved"}
    BY <1>6 DEF LockGoesStale, OwnerGone, NothingStale
  <2>2. FALSE
    BY <1>0, <2>1 DEF NothingStale, LockInv, OwnedBy, Critical
  <2>3. QED
    BY <2>2
<1>7. ASSUME NEW p \in Process, StateFileStep(p)
      PROVE  /\ ~stolen' /\ ~lock'.stale /\ lock'.owner # Unowned
             /\ \A q \in Process : proc'[q].pc \notin {"taking", "moved"}
  <2>1. crashes = 0
    BY <1>7 DEF StateFileStep, ObserveStaleLock, MoveStaleLock, JudgeMovedLock, RecoverFile,
       WriteTemporary, RenameOver, MoveAside, MoveIn, DropBackup, RestoreBackup, Report,
       BeginRelease, MoveReleased, JudgeReleased
  <2>2. /\ ~stolen /\ ~lock.stale /\ lock.owner # Unowned
        /\ \A q \in Process : proc[q].pc \notin {"taking", "moved"}
    BY <2>1 DEF NothingStale
  <2>3. CASE MoveReleased(p)
    <3>1. lock.owner = p
      BY <1>0, <2>2, <2>3 DEF MoveReleased, LockInv, OwnedBy, Critical
    <3>2. lock' = NoLock /\ ~stolen'
      BY <2>2, <2>3, <3>1 DEF MoveReleased
    <3>3. \A q \in Process : proc'[q].pc \in {proc[q].pc, "idle", "checking"}
      BY <1>0, <2>3 DEF StateFileTypeOK, ProcRow, MoveReleased
    <3>4. QED
      BY <2>2, <3>2, <3>3 DEF NoLock, Unowned
  <2>4. CASE JudgeReleased(p)
    <3>1. lock' = lock /\ ~stolen'
      BY <1>0, <2>2, <2>4 DEF JudgeReleased, LockInv, OwnedBy
    <3>2. \A q \in Process : proc'[q].pc \in {proc[q].pc, "idle"}
      BY <1>0, <2>4, IdleIsTyped DEF JudgeReleased
    <3>3. QED
      BY <2>2, <3>1, <3>2
  <2>5. CASE BeginRelease(p)
    <3>1. \A q \in Process : proc'[q].pc \in {proc[q].pc, "renaming", "idle"}
      BY <1>0, <2>5, IdleIsTyped, GoesIsTyped DEF BeginRelease, PcType
    <3>2. QED
      BY <2>2, <2>5, <3>1 DEF BeginRelease
  <2>6. CASE RecoverFile(p)
    <3>1. \A q \in Process : proc'[q].pc \in {proc[q].pc, "recovered", "releasing"}
      BY <1>0, <2>6 DEF RecoverFile, Abandon, Goes, StateFileTypeOK, ProcRow
    <3>2. QED
      BY <2>2, <2>6, <3>1 DEF RecoverFile
  <2>7. CASE WriteTemporary(p) \/ RenameOver(p) \/ MoveAside(p) \/ MoveIn(p) \/ DropBackup(p)
             \/ RestoreBackup(p) \/ Report(p)
    <3>1. PICK c \in PcType \ {"taking", "moved"} : Goes(p, c)
      BY <2>7 DEF WriteTemporary, RenameOver, MoveAside, MoveIn, DropBackup, RestoreBackup,
         Report, Abandon, PcType
    <3>2. \A q \in Process : proc'[q].pc \in {proc[q].pc, c}
      BY <1>0, <3>1, GoesIsTyped
    <3>3. UNCHANGED <<lock, stolen>>
      BY <2>7 DEF WriteTemporary, RenameOver, MoveAside, MoveIn, DropBackup, RestoreBackup,
         Report
    <3>4. QED
      BY <2>2, <3>1, <3>2, <3>3
  <2>8. ~(ObserveStaleLock(p) \/ MoveStaleLock(p) \/ JudgeMovedLock(p))
    BY <2>2 DEF ObserveStaleLock, MoveStaleLock, JudgeMovedLock
  <2>9. QED
    BY <1>7, <2>3, <2>4, <2>5, <2>6, <2>7, <2>8 DEF StateFileStep
<1>8. QED
  BY <1>1, <1>4, <1>5, <1>6, <1>7 DEF StateFileNext

\* Until the first crash the lock is as good as a real one: no lock is taken
\* from a live owner, and what was reported as done is kept without reserve.
THEOREM KeptUntilACrash ==
    StateFileSpec => [](crashes = 0 => ~stolen /\ acked \subseteq Recoverable)
<1>1. StateFileInit => NothingStale
  BY DEF StateFileInit, NothingStale, NoLock, IdleProc, Unowned
<1>2. FileInv /\ NothingStale => (crashes = 0 => ~stolen /\ acked \subseteq Recoverable)
  BY DEF FileInv, FilesInv, NothingStale
<1>3. QED
  BY <1>1, <1>2, NothingStaleStep, FileInvariant, PTL DEF StateFileSpec
=============================================================================
