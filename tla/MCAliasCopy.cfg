SPECIFICATION Spec
CONSTANTS
    Chunks <- MCChunks
    Slots = {0, 1}
    Locals = {0, 1}
    MAX_VIEWS = 1
    MAX_OPEN_LOOPS = 2
INVARIANTS ReadsAreValues
