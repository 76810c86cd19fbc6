SPECIFICATION Spec
CONSTANTS
    Modules = {"early"}
    Code <- HandBuiltCode
    StackCapacity = 4
    FrameCapacity = 2
    Positions = {}
    NoPos = NoPos
INVARIANT
    ProvenOperands
