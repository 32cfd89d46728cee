SPECIFICATION Spec
CONSTANTS
    Text <- MCText
    ValidPredictors <- MCValidPredictors
    CRDSizes <- MCCRDSizes
    CRDHostnames <- MCCRDHostnames
    AbsolutePaths <- MCAbsolutePaths
    Growth <- MCGrowth
    Kinds = {"Deployment", "Service"}
    Specs <- PlainSpecs
    ReadyCounts = {1}
    Propagation = {"Background"}
    MaxUid = 1
    MaxLag = 2
    MaxOutside = 3
INVARIANTS ReadyIsAboutLatestSpec
CHECK_DEADLOCK FALSE
