SPECIFICATION FairSpec
CONSTANTS
    Text <- MCText
    ValidPredictors <- MCValidPredictors
    CRDSizes <- MCCRDSizes
    CRDHostnames <- MCCRDHostnames
    AbsolutePaths <- MCAbsolutePaths
    Growth <- MCGrowth
    Kinds = {"ServiceAccount", "Deployment", "PodDisruptionBudget", "NetworkPolicy"}
    Specs <- PolicySpecs
    ReadyCounts = {1}
    Propagation = {"Background"}
    MaxUid = 1
    MaxLag = 2
    MaxOutside = 2
PROPERTIES Converges
CHECK_DEADLOCK FALSE
