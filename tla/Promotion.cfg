SPECIFICATION FairSpec
CONSTANTS
    Checks <- MCChecks
    Releases <- MCReleases
    MaxOutside = 2
INVARIANTS TypeOK PromotesOnlyGated BodyNamesBranch NoCompletionMissed
PROPERTIES ReadyIsNotForgotten
CHECK_DEADLOCK FALSE
