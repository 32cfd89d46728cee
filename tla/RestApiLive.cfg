SPECIFICATION FairSpec
CONSTANTS
    Text <- MCText
    ValidPredictors <- MCValidPredictors
    CRDSizes <- MCCRDSizes
    CRDHostnames <- MCCRDHostnames
    AbsolutePaths <- MCAbsolutePaths
    Quantities <- MCQuantities
    ValidHostnames <- MCValidHostnames
    Blanks <- MCBlanks
    MaxReplicas = 3
    DefaultGatewaySectionName = "fraud-model-https"
    Requests = {r1, r2}
    CreateInputs <- MCDisabling
    UpdateInputs <- MCDisabling
    PatchInputs <- MCEnabling
    AppliedSpecs <- MCAppliedSpecs
    MaxRev = 2
PROPERTIES EveryRequestAnswered KeepsToOutline KeepsItsPart
CHECK_DEADLOCK FALSE
