\* Two sends of the same question.
SPECIFICATION FairSpec
CONSTANTS
    s1 = s1
    s2 = s2
    q1 = q1
    None = None
    Sends <- TwoSends
    Contents <- Questions
    ContentOf <- SameQuestion
INVARIANTS
    TypeOK
    PostedAtMostOnce
    NotSavedIsTrue
    SavedQuestionIsNew
    ForgottenStaysForgotten
PROPERTY
    SubmissionsSettle
CHECK_DEADLOCK FALSE
