SPECIFICATION FairSpec
CONSTANTS
    Text <- MCText
    ValidPredictors <- MCValidPredictors
    CRDSizes <- MCCRDSizes
    CRDHostnames <- MCCRDHostnames
    AbsolutePaths <- MCAbsolutePaths
    Growth <- MCGrowth
    Kinds = {"Deployment", "PersistentVolumeClaim", "HTTPRoute"}
    Specs <- BlockedSpecs
    ReadyCounts = {1}
    Propagation = {"Background"}
    MaxUid = 1
    MaxLag = 2
    MaxOutside = 3
INVARIANTS StatusDescribesSpec
PROPERTIES RestIsKept Converges
CHECK_DEADLOCK FALSE
