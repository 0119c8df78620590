\* Database errors in the workers; each accepted job is retried twice and reported.
SPECIFICATION FairSpec
CONSTANTS
    d1 = d1
    p1 = p1
    p2 = p2
    i1 = i1
    i2 = i2
    None = None
    Docs <- OneDoc
    ProcessCalls <- Process2
    IndexCalls <- Index1
    DocOf <- AllOnOneDoc
    MaxRetries = 2
    WorkerCount = 2
    WithScheduler = TRUE
    Faults <- DatabaseFaults
INVARIANT ClaimHasCarrier
PROPERTY ClaimsEnd
