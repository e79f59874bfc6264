\* One worker, one cancel request, one crash.
SPECIFICATION FairSpec
CONSTANTS
    p1 = p1  p2 = p2
    w1 = w1  w2 = w2
    c1 = c1  c2 = c2
    Process = {p1}
    Worker = {w1}
    ProcessOf <- OneWorker
    CancelRequest = {c1}
    Interface = {"cancellable"}
    MaxAttempts = 2
    MaxRuns = 1
    MaxJobs = 2
    MaxCrashes = 1
    LeaseMayLapse = FALSE
PROPERTIES TaskEnds CancellationEnds
\* A task that has ended and is not retried stops for good.
CHECK_DEADLOCK FALSE
