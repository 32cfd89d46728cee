SPECIFICATION FairSpec
CONSTANTS
    Text <- MCText
    ValidPredictors <- MCValidPredictors
    CRDSizes <- MCCRDSizes
    CRDHostnames <- MCCRDHostnames
    AbsolutePaths <- MCAbsolutePaths
    Growth <- MCGrowth
    Kinds = {"Deployment", "PersistentVolumeClaim"}
    Specs <- ClaimSpecs
    ReadyCounts = {1}
    Propagation = {"Background"}
    MaxUid = 2
    MaxLag = 1
    MaxOutside = 4
INVARIANTS TypeOK StatusDescribesSpec NothingForgotten
PROPERTIES OverwritesNoStranger ClaimOutlivesMount RestIsKept KeepsItsPart Converges
CHECK_DEADLOCK FALSE
