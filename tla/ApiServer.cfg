SPECIFICATION FairSpec
CONSTANTS
    Requests = {r1, r2}
    Inputs <- MCInputs
    MaxStarts = 2
    Environments <- MCEnvironments
    Strings <- MCStrings
    TrimSpace <- MCTrimSpace
    ToLower <- MCToLower
    Atoi <- MCAtoi
CHECK_DEADLOCK FALSE
INVARIANTS
    TypeOK
    GaugeIsExact
    CallsAreAuthorized
    AuditTellsEffect
    ServesConfigured
PROPERTIES
    ClientsSeeOutline
    StartEnds
    ShutdownEnds
    IdentifiedRequestsEnd
