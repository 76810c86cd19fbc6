CONSTANTS
    MaxRegionDepth = 6
    NativeBounds <- MCNativeBounds
    Modules <- MCModules
    Inputs <- MCInputs
    CostCap = 1000
SPECIFICATION AttestedSpec
INVARIANTS TypeOK FrameIsolated InitBeforeUse CallDepthBounded SlotsSound HeapSound WcetSound ResumesBounded Productive LimitTrapJustified
PROPERTY DispatchEnds
CHECK_DEADLOCK FALSE
