\* One process with two workers, and one cancel request, or one retry; both
\* kinds of interface.
SPECIFICATION Spec
CONSTANTS
    p1 = p1  p2 = p2
    w1 = w1  w2 = w2
    c1 = c1  c2 = c2
    Process = {p1}
    Worker = {w1, w2}
    ProcessOf <- SameProcess
    CancelRequest = {c1}
    Interface = {"cancellable", "deferrable"}
    MaxAttempts = 3
    MaxRuns = 2
    MaxJobs = 2
    MaxCrashes = 0
    LeaseMayLapse = FALSE
INVARIANTS TypeOK BillIsRight QueuedCancelIsFree StatusMatchesBill OneJobPerRun
PROPERTY SucceededIsFinal
CONSTRAINT CancelledOrRetried
SYMMETRY ProcessSymmetry
\* A task that has ended and is not retried stops for good.
CHECK_DEADLOCK FALSE
