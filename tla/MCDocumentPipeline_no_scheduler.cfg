\* The worker as app/worker.py starts it: no scheduler.
SPECIFICATION FairSpec
CONSTANTS
    d1 = d1
    p1 = p1
    p2 = p2
    i1 = i1
    i2 = i2
    None = None
    Docs <- OneDoc
    ProcessCalls <- Process2
    IndexCalls <- Index1
    DocOf <- AllOnOneDoc
    MaxRetries = 2
    WorkerCount = 1
    WithScheduler = FALSE
    Faults <- DatabaseFaults
PROPERTY ClaimsEnd
