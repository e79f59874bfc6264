----------------------------- MODULE CliArbiter -----------------------------
(***************************************************************************)
(* The arbiter that lets one process at a time run the Dreamina command    *)
(* line of a machine (src/canvas-agent/src/dreamina-cli-arbiter.ts), and   *)
(* the invocations that go through it: the lifecycle commands of           *)
(* dreamina-cli.ts (status, login, logout) and the queries of tasks bound  *)
(* to an account session.                                                  *)
(*                                                                         *)
(* The arbiter is a file.  Each of its operations reads and replaces it    *)
(* under the file's lock (module StateFile), hence is one step; everything *)
(* may happen between two of them.  Times are kept as facts: a deadline or *)
(* a lease has run out or has not.                                         *)
(***************************************************************************)
EXTENDS Naturals

CONSTANTS
    Service,        \* DreaminaCliService instances, one per Runtime process
    Call,           \* concurrent CLI invocations
    ServiceOf,      \* ServiceOf[c]: the process invocation c runs in
    PatientCall,    \* invocations whose wait is not cut short by its deadline
    Account,        \* accounts a user may log the CLI in to
    Tried,          \* the commands issued
    LeaseMayLapse,  \* whether a live, healthy holder may miss its heartbeats
    MaxTickets,     \* bound: invocations
    MaxCrashes      \* bound: process crashes

ASSUME ArbiterAssumption ==
    /\ ServiceOf \in [Call -> Service]
    /\ PatientCall \subseteq Call
    /\ Tried \subseteq {"credit", "headless", "check", "logout", "query"}
    /\ LeaseMayLapse \in BOOLEAN
    /\ MaxTickets \in Nat /\ MaxCrashes \in Nat

VARIABLES
    arbiter,    \* the arbiter's file: tickets, fences, queue and active lease
    session,    \* the account session in that file
    overdue,    \* tickets whose deadline has passed
    leaseOver,  \* the active lease has passed its expiry time
    call,       \* call[c]: an invocation
    flow,       \* flow[s]: the login that s waits for the user to confirm
    account,    \* the account the CLI is logged in to
    boundTo,    \* boundTo[e]: the account logged in when epoch e was bound
    lastWriter, \* fence of the last writer of the session
    cliCrashes  \* number of crashes so far

arbiterVars == <<arbiter, session, overdue, leaseOver, call, flow, account,
                 boundTo, lastWriter, cliCrashes>>

NoAccount == "no account"
Ticket == 1..MaxTickets

\* A binding is 32 random bytes drawn whenever the epoch is raised to bind an
\* account; the epoch identifies it.
Epoch == 1..(MaxTickets + 1)
Session == [epoch : Nat, bound : BOOLEAN]

NoLease == [ticket |-> 0, fence |-> 0]
Command == {"credit", "headless", "check", "logout", "query"}

IdleCall == [pc |-> "idle", cmd |-> "query", ticket |-> 0, fence |-> 0, expected |-> 0,
             seen |-> [epoch |-> 0, bound |-> FALSE], ok |-> FALSE,
             stale |-> FALSE, lost |-> FALSE]

CallRow == [pc : {"idle", "queueing", "waiting", "leaving", "granted", "ran", "checked",
                  "committed", "confirmed", "failed"},
            cmd : Command,
            ticket : Nat,       \* its entry in the queue, 0: none taken
            fence : Nat,        \* fenceEpoch of the lease it was given, 0: none
            expected : Nat,     \* epoch of the session it insists on, 0: any
            seen : Session,     \* the session it last read or wrote
            ok : BOOLEAN,       \* exit code 0
            stale : BOOLEAN,    \* its service was logged out since it began
            lost : BOOLEAN]     \* a heartbeat of its lease has failed

ArbiterTypeOK ==
    /\ arbiter \in [nextTicket : Nat \ {0}, nextFence : Nat \ {0}, queue : SUBSET Nat,
                    active : [ticket : Nat, fence : Nat]]
    /\ session \in Session
    /\ overdue \subseteq Nat
    /\ leaseOver \in BOOLEAN
    /\ call \in [Call -> CallRow]
    /\ flow \in [Service -> {"none", "pending", "redeemed"}]
    /\ account \in Account \cup {NoAccount}
    /\ boundTo \in [Epoch -> Account \cup {NoAccount}]
    /\ lastWriter \in Nat
    /\ cliCrashes \in Nat

ArbiterInit ==
    /\ arbiter = [nextTicket |-> 1, nextFence |-> 1, queue |-> {}, active |-> NoLease]
    /\ session \in {[epoch |-> 0, bound |-> FALSE], [epoch |-> 1, bound |-> TRUE]}
    /\ overdue = {}
    /\ leaseOver = FALSE
    /\ call = [c \in Call |-> IdleCall]
    /\ flow = [s \in Service |-> "none"]
    /\ account \in Account \cup {NoAccount}   \* the CLI may be logged in already,
    /\ session.bound => account # NoAccount    \* and an earlier process have bound it
    /\ boundTo = [e \in Epoch |-> IF session.bound /\ e = 1 THEN account ELSE NoAccount]
    /\ lastWriter = 0
    /\ cliCrashes = 0

-----------------------------------------------------------------------------
\* Mutant: an expired lease is not dropped.
PrunedOfWaiting == [arbiter EXCEPT !.queue = @ \ overdue]

\* pruneExpired: what a mutation of the file by acquire starts from.
Pruned ==
    [arbiter EXCEPT !.queue = @ \ overdue,
                    !.active = IF leaseOver THEN NoLease ELSE @]

\* The file still names the lease of c, expired or not.
NamesLeaseOf(c) ==
    /\ call[c].fence # 0
    /\ arbiter.active = [ticket |-> call[c].ticket, fence |-> call[c].fence]

\* assertExpectedSession
SessionExpected(e) == e # 0 => session = [epoch |-> e, bound |-> TRUE]

\* assertCurrent and assertLeaseState: c holds the active, unexpired lease.
Current(c) == NamesLeaseOf(c) /\ ~leaseOver /\ ~call[c].lost
\* Mutant: any lease ever given will do.
MayEverWrite(c) == call[c].fence # 0

MayWriteSession(c) ==
    /\ call[c].fence # 0
    /\ arbiter.active.fence = call[c].fence
    /\ ~leaseOver

Holding == {"granted", "ran", "checked", "committed", "confirmed", "failed"}

Enter(c, pc) == call' = [call EXCEPT ![c].pc = pc]

-----------------------------------------------------------------------------
\* A command begins.  A pending login is checked instead of starting another
\* one; a logout drops the pending login and the other commands of its service.
Begin(c, cmd) ==
    LET s == ServiceOf[c] IN
    /\ call[c].pc = "idle"
    /\ arbiter.nextTicket <= MaxTickets
    /\ cmd = "check" => flow[s] # "none"
    /\ cmd \in {"credit", "headless"} => flow[s] = "none"
    /\ \E e \in (IF cmd = "query" THEN {n \in Epoch : boundTo[n] # NoAccount} ELSE {0}) :
         call' = [d \in Call |->
                    IF d = c THEN [IdleCall EXCEPT !.pc = "queueing", !.cmd = cmd, !.expected = e]
                    ELSE IF cmd = "logout" /\ ServiceOf[d] = s /\ call[d].pc # "idle" /\ call[d].cmd # "query"
                         THEN [call[d] EXCEPT !.stale = TRUE]
                         ELSE call[d]]
    /\ flow' = IF cmd = "logout" THEN [flow EXCEPT ![s] = "none"] ELSE flow
    /\ UNCHANGED <<arbiter, session, overdue, leaseOver, account, boundTo, lastWriter, cliCrashes>>

\* acquire, first mutation: join the queue.
TakeTicket(c) ==
    /\ call[c].pc = "queueing"
    /\ arbiter.nextTicket <= MaxTickets
    /\ arbiter' = [Pruned EXCEPT !.queue = @ \cup {arbiter.nextTicket},
                                 !.nextTicket = @ + 1]
    /\ leaseOver' = FALSE
    /\ call' = [call EXCEPT ![c].pc = "waiting", ![c].ticket = arbiter.nextTicket]
    /\ UNCHANGED <<session, overdue, flow, account, boundTo, lastWriter, cliCrashes>>

\* Mutant: anybody in the queue is served.
InLine(t, queue) == t \in queue

FirstInLine(t, queue) == t \in queue /\ \A u \in queue : t <= u

\* acquire, a round of its loop that grants the lease.  The mutation may be
\* reported as failed after the file was replaced: the lease is then active
\* and nobody knows that he holds it.
Grant(c) ==
    /\ call[c].pc = "waiting"
    /\ Pruned.active = NoLease
    /\ FirstInLine(call[c].ticket, Pruned.queue)
    /\ SessionExpected(call[c].expected)
    /\ arbiter' = [Pruned EXCEPT !.queue = @ \ {call[c].ticket},
                                 !.nextFence = @ + 1,
                                 !.active = [ticket |-> call[c].ticket, fence |-> arbiter.nextFence]]
    /\ leaseOver' = FALSE
    /\ \/ call' = [call EXCEPT ![c].pc = "granted", ![c].fence = arbiter.nextFence,
                               ![c].seen = session]
       \/ Enter(c, "leaving")
    /\ UNCHANGED <<session, overdue, flow, account, boundTo, lastWriter, cliCrashes>>

\* ... that finds the lease taken or others first, and prunes.
KeepWaiting(c) ==
    /\ call[c].pc = "waiting"
    /\ call[c].ticket \in Pruned.queue
    /\ \/ Pruned.active # NoLease
       \/ ~FirstInLine(call[c].ticket, Pruned.queue)
    /\ arbiter' = Pruned
    /\ leaseOver' = (leaseOver /\ Pruned.active # NoLease)
    /\ UNCHANGED <<session, overdue, call, flow, account, boundTo, lastWriter, cliCrashes>>

\* ... that throws: the entry is gone, or the session is not the expected one.
\* Nothing is written.  A caller may also be aborted or find its time over.
Refused(c) ==
    /\ call[c].pc = "waiting"
    /\ \/ call[c].ticket \notin Pruned.queue
       \/ /\ Pruned.active = NoLease
          /\ FirstInLine(call[c].ticket, Pruned.queue)
          /\ ~SessionExpected(call[c].expected)
       \/ call[c].stale
       \/ call[c].ticket \in overdue
    /\ Enter(c, "leaving")
    /\ UNCHANGED <<arbiter, session, overdue, leaseOver, flow, account, boundTo, lastWriter, cliCrashes>>

\* removeQueued, whose own failure is swallowed.
Leave(c) ==
    /\ call[c].pc = "leaving"
    /\ arbiter' \in {arbiter, [arbiter EXCEPT !.queue = @ \ {call[c].ticket}]}
    /\ call' = [call EXCEPT ![c] = IdleCall]
    /\ UNCHANGED <<session, overdue, leaseOver, flow, account, boundTo, lastWriter, cliCrashes>>

-----------------------------------------------------------------------------
\* The command runs.  Its exit code and its effect on the account the CLI is
\* logged in to are the provider's, a login code being good for one login; the
\* command may also be killed half way.
RunCommand(c) ==
    LET s == ServiceOf[c] IN
    /\ call[c].pc = "granted"
    /\ \E ok \in BOOLEAN :
         /\ call[c].cmd = "credit" /\ ok => account # NoAccount
         /\ call[c].cmd = "check" /\ ok => flow[s] = "pending"
         /\ flow' = IF call[c].cmd = "check" /\ ok THEN [flow EXCEPT ![s] = "redeemed"] ELSE flow
         /\ account' \in CASE call[c].cmd = "check" /\ ok -> Account
                           [] call[c].cmd = "logout" -> IF ok THEN {NoAccount} ELSE {account, NoAccount}
                           [] OTHER -> {account}
         /\ \E pc \in {"ran", "failed"} : call' = [call EXCEPT ![c].pc = pc, ![c].ok = ok]
    /\ UNCHANGED <<arbiter, session, overdue, leaseOver, boundTo, lastWriter, cliCrashes>>

\* assertEpoch and assertCurrent after the command.
CheckLease(c) ==
    /\ call[c].pc = "ran"
    /\ Enter(c, IF call[c].stale \/ ~Current(c) \/ ~SessionExpected(call[c].expected)
                THEN "failed"
                ELSE IF call[c].cmd = "query" THEN "confirmed" ELSE "checked")
    /\ UNCHANGED <<arbiter, session, overdue, leaseOver, flow, account, boundTo, lastWriter, cliCrashes>>

\* What the command makes of the session: commitSession with a new binding if
\* the CLI is logged in and the session was unbound when the lease was granted
\* (ensureAuthenticatedSession), advanceSession if the login is known to be over.
Binds(c) == call[c].cmd \in {"credit", "check"} /\ call[c].ok /\ ~call[c].seen.bound
Advances(c) ==
    \/ call[c].cmd = "credit" /\ ~call[c].ok /\ call[c].seen.bound
    \/ call[c].cmd \in {"headless", "logout"} /\ call[c].ok

CommitSession(c) ==
    /\ call[c].pc = "checked"
    /\ Binds(c) \/ Advances(c)
    /\ MayWriteSession(c)
    /\ session' = [epoch |-> session.epoch + 1, bound |-> Binds(c)]
    /\ boundTo' = IF Binds(c) THEN [boundTo EXCEPT ![session.epoch + 1] = account] ELSE boundTo
    /\ lastWriter' = call[c].fence
    /\ \/ call' = [call EXCEPT ![c].pc = "committed", ![c].seen = session']
       \/ Enter(c, "failed")
    /\ UNCHANGED <<arbiter, overdue, leaseOver, flow, account, cliCrashes>>

KeepSession(c) ==
    /\ call[c].pc = "checked"
    /\ IF Binds(c) \/ Advances(c)
       THEN ~MayWriteSession(c) /\ Enter(c, "failed")
       ELSE Enter(c, "committed")
    /\ UNCHANGED <<arbiter, session, overdue, leaseOver, flow, account, boundTo, lastWriter, cliCrashes>>

\* assertCurrent(session) after the commit.
ConfirmSession(c) ==
    /\ call[c].pc = "committed"
    /\ Enter(c, IF Current(c) /\ session = call[c].seen THEN "confirmed" ELSE "failed")
    /\ UNCHANGED <<arbiter, session, overdue, leaseOver, flow, account, boundTo, lastWriter, cliCrashes>>

\* startLogin and readStatus: a command that succeeded has started a login flow,
\* or ended one.
FlowAfter(c) ==
    IF call[c].pc = "confirmed" /\ call[c].ok /\ ~call[c].stale /\ call[c].cmd \in {"headless", "check"}
    THEN IF call[c].cmd = "headless" THEN "pending" ELSE "none"
    ELSE flow[ServiceOf[c]]

\* release, which may fail and leave the lease to run out; the caller then
\* notes the login flow.
Release(c) ==
    /\ call[c].pc \in {"confirmed", "failed"}
    /\ \E done \in BOOLEAN :
         /\ IF done /\ NamesLeaseOf(c)
            THEN arbiter' = [arbiter EXCEPT !.active = NoLease] /\ leaseOver' = FALSE
            ELSE UNCHANGED <<arbiter, leaseOver>>
         /\ flow' = IF done THEN [flow EXCEPT ![ServiceOf[c]] = FlowAfter(c)] ELSE flow
    /\ call' = [call EXCEPT ![c] = IdleCall]
    /\ UNCHANGED <<session, overdue, account, boundTo, lastWriter, cliCrashes>>

-----------------------------------------------------------------------------
\* refreshLease, from the heartbeat timer: it prolongs the lease even past its
\* expiry as long as the file names it; a failure ends the heartbeats.
Heartbeat(c) ==
    /\ call[c].pc \in Holding /\ ~call[c].lost
    /\ \/ /\ NamesLeaseOf(c) /\ SessionExpected(call[c].expected)
          /\ leaseOver
          /\ leaseOver' = FALSE
          /\ UNCHANGED call
       \/ /\ call' = [call EXCEPT ![c].lost = TRUE]
          /\ UNCHANGED leaseOver
    /\ UNCHANGED <<arbiter, session, overdue, flow, account, boundTo, lastWriter, cliCrashes>>

\* Time passes.
LeaseRunsOut ==
    /\ arbiter.active # NoLease /\ ~leaseOver
    /\ \/ LeaseMayLapse
       \/ ~\E c \in Call : call[c].pc \in Holding /\ NamesLeaseOf(c) /\ ~call[c].lost
    /\ leaseOver' = TRUE
    /\ UNCHANGED <<arbiter, session, overdue, call, flow, account, boundTo, lastWriter, cliCrashes>>

DeadlinePasses(t) ==
    /\ t \in arbiter.queue \ overdue
    /\ ~\E c \in PatientCall : call[c].pc = "waiting" /\ call[c].ticket = t
    /\ overdue' = overdue \cup {t}
    /\ UNCHANGED <<arbiter, session, leaseOver, call, flow, account, boundTo, lastWriter, cliCrashes>>

LoginFlowExpires(s) ==
    /\ flow[s] # "none"
    /\ flow' = [flow EXCEPT ![s] = "none"]
    /\ UNCHANGED <<arbiter, session, overdue, leaseOver, call, account, boundTo, lastWriter, cliCrashes>>

Crash(s) ==
    /\ cliCrashes < MaxCrashes
    /\ cliCrashes' = cliCrashes + 1
    /\ call' = [c \in Call |-> IF ServiceOf[c] = s THEN IdleCall ELSE call[c]]
    /\ flow' = [flow EXCEPT ![s] = "none"]
    /\ UNCHANGED <<arbiter, session, overdue, leaseOver, account, boundTo, lastWriter>>

ArbiterStep(c) ==
    \/ TakeTicket(c) \/ Grant(c) \/ KeepWaiting(c) \/ Refused(c) \/ Leave(c)
    \/ RunCommand(c) \/ CheckLease(c) \/ CommitSession(c) \/ KeepSession(c)
    \/ ConfirmSession(c) \/ Release(c)

ArbiterNext ==
    \/ \E c \in Call : ArbiterStep(c) \/ Heartbeat(c) \/ \E cmd \in Tried : Begin(c, cmd)
    \/ LeaseRunsOut
    \/ \E t \in Ticket : DeadlinePasses(t)
    \/ \E s \in Service : LoginFlowExpires(s) \/ Crash(s)

ArbiterSpec == ArbiterInit /\ [][ArbiterNext]_arbiterVars

\* A live process polls every 25 ms, and time passes.
ArbiterFairness ==
    /\ \A c \in Call : WF_arbiterVars(ArbiterStep(c))
    /\ WF_arbiterVars(LeaseRunsOut)
    /\ \A t \in Ticket : WF_arbiterVars(DeadlinePasses(t))

-----------------------------------------------------------------------------
\* commitSession and advanceSession: once a newer lease has been granted, the
\* holder of an older one can no longer change the session, however late it is.
FencedWrites ==
    [][session' # session => lastWriter' = arbiter.nextFence - 1]_arbiterVars

\* acquire: whoever queued first and still has time is served first, whatever
\* was pruned, withdrawn or lost in between.
NoOvertaking ==
    [][\A c, d \in Call :
         /\ call[c].pc = "waiting" /\ arbiter'.active.ticket = call[c].ticket
         /\ call[d].pc = "waiting" /\ call[d].ticket < call[c].ticket
         => call[d].ticket \in overdue]_arbiterVars

\* A query that holds an unexpired lease finds the session its task is bound
\* to, from its grant to its end: no command of another process can switch it.
LeaseKeepsItsSession ==
    \A c \in Call :
        call[c].pc \in {"granted", "ran"} /\ call[c].cmd = "query" /\ NamesLeaseOf(c) /\ ~leaseOver
        => SessionExpected(call[c].expected)

\* "Accepted work is queried only under its bound account across manual refresh
\* and restart" (canvas-agent/test/dreamina-cli-arbiter.test.ts): a query runs
\* while the command line is logged in to the account its task is bound to.
QueriesUnderBoundAccount ==
    [][\A c \in Call :
         call[c].cmd = "query" /\ call[c].pc = "granted" /\ call'[c].pc = "ran"
         => account \in {NoAccount, boundTo[call[c].expected]}]_arbiterVars

\* acquire: a call whose deadline is far away gets the lease or an answer, even
\* when holders and others in the queue crash.
EveryWaitEnds == \A c \in PatientCall : call[c].pc = "waiting" ~> call[c].pc # "waiting"
=============================================================================
