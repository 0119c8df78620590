\* A chat, a search, and a search within one document.
CONSTANTS
    r1 = r1
    r2 = r2
    r3 = r3
    d1 = d1
    d2 = d2
    a1 = a1
    a2 = a2
    b1 = b1
    far = far
    near = near
    None = None
    Requests <- MCRequests
    Kind <- MCKind
    Docs <- MCDocs
    Chunks <- MCChunks
    DocOf <- MCDocOf
    Scope <- MCScope
    Questions <- MCQuestions
    Ranked <- MCRanked
    Close <- MCClose
    Cost <- MCCost
    Separator = 1
    TopK = 2
    MaxChars = 6

SPECIFICATION FairSpec

INVARIANTS
    TypeOK
    AnswerIsSupported
    OneModel

PROPERTIES
    PromptIsOfOneLibrary
    EveryRequestEnds

CHECK_DEADLOCK FALSE
