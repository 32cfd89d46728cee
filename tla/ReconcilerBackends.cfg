SPECIFICATION FairSpec
CONSTANTS
    Text <- MCText
    ValidPredictors <- MCValidPredictors
    CRDSizes <- MCCRDSizes
    CRDHostnames <- MCCRDHostnames
    AbsolutePaths <- MCAbsolutePaths
    Growth <- MCGrowth
    Kinds = {"Deployment", "Service", "InferenceService"}
    Specs <- BackendSpecs
    ReadyCounts = {1}
    Propagation = {"Foreground"}
    MaxUid = 2
    MaxLag = 1
    MaxOutside = 3
INVARIANTS StatusDescribesSpec
PROPERTIES Converges
CHECK_DEADLOCK FALSE
