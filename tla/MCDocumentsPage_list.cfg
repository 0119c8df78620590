\* Pages of one row: two at first, and a third document still to be uploaded.
CONSTANTS
    d1 = d1
    d2 = d2
    d3 = d3
    t1 = t1
    t2 = t2
    None = None
    Docs <- MCDocs
    Uploaded <- MCUploaded
    PageSize = 1
    MaxAttempts = 2
    MaxClicks = 4
    Tasks <- MCTasks

SPECIFICATION Spec
SYMMETRY TaskSymmetry

INVARIANTS
    TypeOK
    StaleIsCorrected
    EmptyMeansNone

CHECK_DEADLOCK FALSE
