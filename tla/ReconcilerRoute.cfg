SPECIFICATION Spec
CONSTANTS
    Text <- MCText
    ValidPredictors <- MCValidPredictors
    CRDSizes <- MCCRDSizes
    CRDHostnames <- MCCRDHostnames
    AbsolutePaths <- MCAbsolutePaths
    Growth <- MCGrowth
    Kinds = {"Deployment", "HTTPRoute"}
    Specs <- BlockedSpecs
    ReadyCounts = {1}
    Propagation = {"Background"}
    MaxUid = 1
    MaxLag = 2
    MaxOutside = 2
PROPERTIES SparesUnownedRoute
CHECK_DEADLOCK FALSE
