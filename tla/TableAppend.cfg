SPECIFICATION Spec
CONSTANTS
    Keys = {k1, k2, k3, k4}
    MaxBatches = 5
    MaxKills = 2
    Trigger = 3
    Target = 2
    BatchRows = 2
    Casts <- MCCasts
SYMMETRY KeySymmetry
CHECK_DEADLOCK FALSE
INVARIANTS
    AppendIsExact
    OldRowsOnDisk
    StreamedIsWhole
