CONSTANTS
    NTxns = 2
    NEpochs = 3
    Types <- MCTypes
    InputSize <- MCInputSize
    ParamSize <- MCParamSize
    PlanSize <- MCPlanSize
    kBaseTxnSize = 2
    Configs <- MCConfigs
SPECIFICATION Spec
CHECK_DEADLOCK FALSE
INVARIANTS
    ConsumersGetTheirs
    PackedCopyWhole
PROPERTIES
    NoWriteUnderCopy
