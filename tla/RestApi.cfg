SPECIFICATION Spec
CONSTANTS
    Text <- MCText
    ValidPredictors <- MCValidPredictors
    CRDSizes <- MCCRDSizes
    CRDHostnames <- MCCRDHostnames
    AbsolutePaths <- MCAbsolutePaths
    Quantities <- MCQuantities
    ValidHostnames <- MCValidHostnames
    Blanks <- MCBlanks
    MaxReplicas = 3
    DefaultGatewaySectionName = "fraud-model-https"
    Requests = {r1, r2}
    CreateInputs <- MCCreateInputs
    UpdateInputs <- MCUpdateInputs
    PatchInputs <- MCPatchInputs
    AppliedSpecs <- MCAppliedSpecs
    MaxRev = 3
INVARIANTS TypeOK AnswerTellsEffect LateRefusalsExplained
PROPERTIES MutationsRespectGitOps WritesWhatItInspected PatchKeepsOtherFields ReadsShowWrites RetriesAreHarmless ImplementsAtomic
SYMMETRY Symmetry
CHECK_DEADLOCK FALSE
