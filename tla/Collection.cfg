SPECIFICATION FairSpec
CONSTANTS
  Games = {g1}
  Cursors = {1, 2}
  Empty = {"injuries"}
  Changing = {"games", "odds", "props"}
  Long = {"odds"}
  MaxRetries = 1
  Keep = 4
  Cap = 8
  Pause = 5
  MaxCycles = 1
  MaxTrouble = 2
  MaxClock = 20
CHECK_DEADLOCK FALSE
INVARIANTS
    NothingBeforeItWasShown
    
    FinishedCycleIsWhole
PROPERTIES
    EvidenceExpires
    CycleEnds
