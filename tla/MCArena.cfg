SPECIFICATION Spec
CONSTANTS
    Capacity = 3
    BaseAddr = 1
    MaxEpoch = 1
    Ids = {c1, c2}
    Zero = Zero
    Data = Data
    Sizes <- MCSizes
    Aligns <- MCAligns
SYMMETRY ClientSymmetry
INVARIANTS TypeOK RegionsOrdered VecIntact HandleIntact
PROPERTIES StaleStaysStale PersistentPreserved
