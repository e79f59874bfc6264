\* One worker on one task that nobody cancels: is a run whose job the provider
\* accepted reviewed when it fails?
SPECIFICATION Spec
CONSTANTS
    p1 = p1  p2 = p2
    w1 = w1  w2 = w2
    c1 = c1  c2 = c2
    Process = {p1}
    Worker = {w1}
    ProcessOf <- OneWorker
    CancelRequest = {}
    Interface = {"cancellable"}
    MaxAttempts = 2
    MaxRuns = 1
    MaxJobs = 1
    MaxCrashes = 0
    LeaseMayLapse = FALSE
INVARIANT AcceptedFailureIsReviewed
\* A task that has ended and is not retried stops for good.
CHECK_DEADLOCK FALSE
