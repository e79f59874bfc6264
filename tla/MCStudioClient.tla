-------------------------- MODULE MCStudioClient --------------------------
(***************************************************************************)
(* Small instances of the components of the canvas agent and the web       *)
(* client.  They share no state, so that a behaviour takes one of them,    *)
(* its part, and leaves the others as they are initially: a run checks     *)
(* what it would check of each component alone.                            *)
(***************************************************************************)
EXTENDS CliArbiter, StateFile, DreaminaJournal, TaskProjection, TaskEffects,
        CanvasDocument, GenerationEffects, RemoteSync, TLC

CONSTANTS Parts, m1, m2, s1, s2, g1, g2, o1, k1, k2, k3, t1, t2, u1, u2

VARIABLE part

\* Two calls of two services, two consumers of two tabs, three effects of two
\* tasks.
TwoServices == (m1 :> s1) @@ (m2 :> s2)
TwoPages == [c \in Consumer |-> IF c = m1 THEN g1 ELSE g2]
SameOutcome == [c \in Consumer |-> o1]
SoleTarget == [e \in Effect |-> CHOOSE n \in Node : TRUE]
TwoTasks == [k \in EffectKey |-> IF k = k3 THEN t2 ELSE t1]

clientVars == <<arbiterVars, fileVars, journalVars, projectionVars, taskEffectVars,
                canvasVars, effectsVars, syncVars, part>>

ClientInit ==
    /\ part \in Parts
    /\ ArbiterInit /\ StateFileInit /\ JournalInit /\ ProjectionInit /\ TaskEffectsInit
    /\ CanvasInit /\ EffectsInit /\ SyncInit
    /\ part # "arbiter" => account = NoAccount
    /\ accountNow = m1

\* The journal has one task, two processes and a fault or a restart; or
\* ("slots") two tasks, one process and changes of the account.
JournalPart ==
    IF part = "journal"
    THEN /\ \A t \in Task \ {t1} : journal'[t] = journal[t]
         /\ nextTicket' <= 2 /\ switches' = 0 /\ faults' + restarts' <= 1
    ELSE /\ \A r \in Runtime \ {m1} : memory'[r] = memory[r] /\ poller'[r] = poller[r]
         /\ \A t \in Task : journal'[t].state # "deleted" /\ ~journal'[t].hidden
         /\ faults' + restarts' = 0

\* The processes that write a file are alike: the first to write is a given one.
\* Of what follows the theft of a live lock only two writes are of interest.
FilePart ==
    /\ stolen => writes' <= 2
    /\ writes = 0 => \A p \in Process \ {CHOOSE q \in Process : TRUE} : proc'[p].pc # "owned"

ClientNext ==
    \/ /\ part = "arbiter" /\ ArbiterNext
       /\ UNCHANGED <<part, fileVars, journalVars, projectionVars, taskEffectVars,
                     canvasVars, effectsVars, syncVars>>
    \/ /\ part = "file" /\ StateFileNext /\ FilePart
       /\ UNCHANGED <<part, arbiterVars, journalVars, projectionVars, taskEffectVars,
                     canvasVars, effectsVars, syncVars>>
    \/ /\ part \in {"journal", "slots"} /\ JournalNext /\ JournalPart
       /\ UNCHANGED <<part, arbiterVars, fileVars, projectionVars, taskEffectVars,
                     canvasVars, effectsVars, syncVars>>
    \/ /\ part = "projection" /\ ProjectionNext
       /\ UNCHANGED <<part, arbiterVars, fileVars, journalVars, taskEffectVars,
                     canvasVars, effectsVars, syncVars>>
    \/ /\ part = "inbox" /\ TaskEffectsNext
       /\ UNCHANGED <<part, arbiterVars, fileVars, journalVars, projectionVars,
                     canvasVars, effectsVars, syncVars>>
    \/ /\ part = "canvas" /\ CanvasNext /\ writeFaults' + reloads' <= 1
       /\ UNCHANGED <<part, arbiterVars, fileVars, journalVars, projectionVars,
                     taskEffectVars, effectsVars, syncVars>>
    \/ /\ part = "effects" /\ EffectsNext
       /\ UNCHANGED <<part, arbiterVars, fileVars, journalVars, projectionVars,
                     taskEffectVars, canvasVars, syncVars>>
    \/ /\ part = "sync" /\ SyncNext
       /\ UNCHANGED <<part, arbiterVars, fileVars, journalVars, projectionVars,
                     taskEffectVars, canvasVars, effectsVars>>

ClientSpec == ClientInit /\ [][ClientNext]_clientVars

LiveClientSpec ==
    /\ ClientSpec
    /\ ArbiterFairness /\ StateFileFairness
    /\ JournalFairness /\ ProjectionFairness
    /\ CanvasFairness /\ EffectsFairness
    /\ SyncFairness

-----------------------------------------------------------------------------
\* Every reachable state of the components of the agent is well formed.
AgentTypesOK ==
    ArbiterTypeOK /\ StateFileTypeOK /\ JournalTypeOK /\ ProjectionTypeOK /\ TaskEffectsTypeOK

\* And of those of the web client.
WebTypesOK == CanvasTypeOK /\ EffectsTypeOK /\ SyncTypeOK

\* Accounts of one browser stay apart: no generation is consumed for another
\* account than the active one, and nothing one account made is uploaded or
\* shown under another.
AccountsStayApart == WorkStaysInAccount /\ DataStaysWithMember

\* Nobody waits for ever: a call in the arbiter's queue whose deadline is far
\* away, and the processes behind a lock whose owner has crashed.
WaitsEnd == EveryWaitEnds /\ LockIsHandedOn

\* Accepted work that is due is settled, and the product's tasks come to show
\* what the journal says, across restarts and lost leases.
JournalSettles == DueWorkIsSettled /\ ProjectionsCatchUp

\* What a tab has begun is finished: a queued save, the effect of a generation,
\* a call that consumes an outcome, an account switch, an upload; and then the
\* document is what the tab shows.
WorkIsSaved == WritesComplete /\ ConsumersEnd /\ EditsReachServer /\ []SoleTabIsSaved
=============================================================================
