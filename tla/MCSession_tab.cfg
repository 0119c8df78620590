\* One tab of two people: ana registers twice at once, each logs in once.
SPECIFICATION FairSpec
CONSTANTS
    ana = ana
    bo = bo
    r1 = r1
    r2 = r2
    l1 = l1
    l2 = l2
    q1 = q1
    None = None
    Emails <- TwoPeople
    Existing <- OnlyBo
    Registrations <- TwoRegistrations
    EmailOf <- BothAna
    Logins <- TwoLogins
    AccountOf <- AnaThenBo
    Requests <- OneRequest
    MaxReloads = 1
INVARIANTS
    TypeOK
    RegistrationIsExclusive
    ShownUserOwnsToken
PROPERTY
    UserWithoutTokenEnds
CHECK_DEADLOCK FALSE
