\* Three conversations, created or there from the start, in pages of one.
CONSTANTS
    c1 = c1
    c2 = c2
    c3 = c3
    NoConv = NoConv
    Convs <- MCConvs
    PageSize = 1
    MaxClock = 4
    MaxClicks = 5

SPECIFICATION ListSpec
SYMMETRY ConvSymmetry

INVARIANTS
    ListTypeOK
    OlderAnswersDoNotUndo

CHECK_DEADLOCK FALSE
