CONSTANTS
    MaxRegionDepth = 6
    NativeBounds <- MCNativeBounds
    Modules <- MCMatchModules
    Inputs <- MCInputs
    CostCap = 1000
SPECIFICATION AttestedSpec
INVARIANT MatchSlotsSound
CHECK_DEADLOCK FALSE
