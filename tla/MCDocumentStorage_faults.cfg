\* One document, three concurrent deletes, every fault.
SPECIFICATION Spec
CONSTANTS
    d1 = d1
    c1 = c1
    c2 = c2
    c3 = c3
    None = None
    Docs <- OneDoc
    Deletes <- ThreeDeletes
    DocOf <- AllOfOne
    Faults <- AllFaults
INVARIANTS
    TypeOK
    OneName
    ContentSurvives
CHECK_DEADLOCK FALSE
SYMMETRY Symmetric
