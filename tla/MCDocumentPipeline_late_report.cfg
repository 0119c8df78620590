\* No fault at all: two process calls, one worker.
SPECIFICATION Spec
CONSTANTS
    d1 = d1
    p1 = p1
    p2 = p2
    i1 = i1
    i2 = i2
    None = None
    Docs <- OneDoc
    ProcessCalls <- Process2
    IndexCalls <- Index1
    DocOf <- AllOnOneDoc
    MaxRetries = 2
    WorkerCount = 1
    WithScheduler = TRUE
    Faults <- NoFaults
INVARIANT QueuedJobHoldsItsClaim
