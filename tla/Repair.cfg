SPECIFICATION Spec
CONSTANTS
    Runtime = runtime
    NoProc = free
    Runs = {1, 2}
    ManualRuns = {2}
    NoEvidence = {}
    Unexecutable = {1, 2}
    Pinned = {1}
    Backlog = {2}
    Outcomes = {"SUCCESS"}
    MaxSnaps = 2
    MaxKills = 2
    Manuals = {shell}
    Operators = {op}
    Workflows = {wf}
    Ingesters = {}
    BatchLimit = 1
    ExclusionSets <- NoDeferral
    Reserve = 1
    Keep = 1
CHECK_DEADLOCK FALSE

    
PROPERTIES
    RefusalIsFinal
    KeepsLifecycle
