SPECIFICATION Spec
CONSTANTS
    Modules = {"loop", "trap"}
    Code <- CompilerCode
    StackCapacity = 4
    FrameCapacity = 2
    Positions <- LoopPositions
    NoPos = NoPos
INVARIANTS
    TypeOK
    ProvenOperands
    CallableIsClean
    SuspensionMatches
    ProofFollowsImage
PROPERTY
    PoisonClearedClean
