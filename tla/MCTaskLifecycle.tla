-------------------------- MODULE MCTaskLifecycle --------------------------
(***************************************************************************)
(* Small instances of TaskLifecycle.                                       *)
(***************************************************************************)
EXTENDS TaskLifecycle, TLC

CONSTANTS p1, p2, w1, w2, c1, c2

OwnProcesses == (w1 :> p1) @@ (w2 :> p2)
SameProcess == (w1 :> p1) @@ (w2 :> p1)
OneWorker == w1 :> p1

\* Processes may be swapped together with the workers that run in them.
ProcessSymmetry ==
    {f \in Permutations(Process \cup Worker) :
        \A w \in Worker : f[w] \in Worker /\ ProcessOf[f[w]] = f[ProcessOf[w]]}

\* A behaviour is followed until the task has been both cancelled and retried:
\* beyond that the properties claim less (README, section 8).
CancelledOrRetried ==
    \/ task.status # "cancelled" /\ \A c \in CancelRequest : cancel[c].pc = "idle"
    \/ ~retrying /\ \A r \in Run \ {task.run} : bill[r].status = "none"
=============================================================================
