\* Three questions in one conversation, two documents, one reprocessing each.
SPECIFICATION Spec
CONSTANTS
    v1 = v1
    p1 = p1
    p2 = p2
    p3 = p3
    d1 = d1
    d2 = d2
    Conversations <- OneConversation
    Posts <- ThreePosts
    Docs <- TwoDocs
    ConvOf <- AllInOne
    Scope <- FirstAsksAll
    HistoryLimit = 2
    MaxGenerations = 1
INVARIANTS
    TypeOK
    SequencesAreContiguous
    AnswerFollowsQuestion
    HistoryIsWhatPreceded
    StoredEvidence
CHECK_DEADLOCK FALSE
SYMMETRY Symmetric
