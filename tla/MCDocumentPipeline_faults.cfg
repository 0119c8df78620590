\* Every fault, two process calls and one index call on one document, two workers.
SPECIFICATION Spec
CONSTANTS
    d1 = d1
    p1 = p1
    p2 = p2
    i1 = i1
    i2 = i2
    None = None
    Docs <- OneDoc
    ProcessCalls <- Process2
    IndexCalls <- Index1
    DocOf <- AllOnOneDoc
    MaxRetries = 0
    WorkerCount = 2
    WithScheduler = TRUE
    Faults <- AllFaults
INVARIANTS
    TypeOK
    NeverBothActive
    HolderKeepsItsClaim
    ProcessedHasChunks
    IndexedUnlessRestored
PROPERTIES
    DerivedDataOnlyUnderClaim
    LibraryIsSearchable
SYMMETRY Symmetric
