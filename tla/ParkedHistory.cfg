SPECIFICATION Spec
CONSTANTS
    Keys = {k1, k2, k3}
    MaxBatches = 2
    MaxKills = 1
    Trigger = 2
    Target = 3
    BatchRows = 2
    Casts <- NoCasts
SYMMETRY KeySymmetry
CHECK_DEADLOCK FALSE
INVARIANTS
    ParkedIsAbandoned
