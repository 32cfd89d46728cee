SPECIFICATION Spec
CONSTANTS
    Text <- MCText
    ValidPredictors <- MCValidPredictors
    CRDSizes <- MCCRDSizes
    CRDHostnames <- MCCRDHostnames
    AbsolutePaths <- MCAbsolutePaths
    Quantities <- MCQuantities
    ValidHostnames <- MCValidHostnames
    Blanks <- MCBlanks
    MaxReplicas = 3
    DefaultGatewaySectionName = "fraud-model-https"
    Requests = {r1, r2}
    CreateInputs <- MCCreateInputs
    UpdateInputs <- MCUpdateInputs
    PatchInputs <- MCPatchInputs
    AppliedSpecs <- MCRootSpecs
    MaxRev = 3
PROPERTY PatchTouchesOnlyRequestedFields
CHECK_DEADLOCK FALSE
