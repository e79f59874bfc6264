\* Two processes, leases that may lapse under a live worker, an
\* interface whose jobs are deferred to a later poll.
SPECIFICATION Spec
CONSTANTS
    p1 = p1  p2 = p2
    w1 = w1  w2 = w2
    c1 = c1  c2 = c2
    Process = {p1, p2}
    Worker = {w1, w2}
    ProcessOf <- OwnProcesses
    CancelRequest = {}
    Interface = {"deferrable"}
    MaxAttempts = 3
    MaxRuns = 1
    MaxJobs = 2
    MaxCrashes = 0
    LeaseMayLapse = TRUE
INVARIANT ChargedForOwnJob
PROPERTY SucceededIsFinal
SYMMETRY ProcessSymmetry
\* A task that has ended and is not retried stops for good.
CHECK_DEADLOCK FALSE
