SPECIFICATION Spec
CONSTANTS
    Text <- MCText
    ValidPredictors <- MCValidPredictors
    CRDSizes <- MCCRDSizes
    CRDHostnames <- MCCRDHostnames
    AbsolutePaths <- MCAbsolutePaths
    Growth <- MCGrowth
    Kinds = {"Deployment", "PersistentVolumeClaim"}
    Specs <- ClaimSpecs
    ReadyCounts = {1}
    Propagation = {"Background"}
    MaxUid = 1
    MaxLag = 2
    MaxOutside = 4
PROPERTIES DeletesOnlyOwn
CHECK_DEADLOCK FALSE
