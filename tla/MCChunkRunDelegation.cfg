CONSTANTS
    MaxRegionDepth = 6
    NativeBounds <- MCNativeBounds
    Modules <- MCDelegationModules
    Inputs <- MCInputs
    CostCap = 1000
SPECIFICATION AttestedSpec
INVARIANT DelegatedYieldCovers
CHECK_DEADLOCK FALSE
