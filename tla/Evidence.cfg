SPECIFICATION Spec
CONSTANTS
    Runtime = runtime
    NoProc = free
    Runs = {1, 2}
    ManualRuns = {}
    NoEvidence = {}
    Unexecutable = {}
    Pinned = {}
    Backlog = {}
    Outcomes = {"SUCCESS", "FAILED"}
    MaxSnaps = 2
    MaxKills = 1
    Manuals = {}
    Operators = {}
    Workflows = {wf}
    Ingesters = {cli}
    BatchLimit = 2
    ExclusionSets <- NoDeferral
    Reserve = 1
    Keep = 1
CHECK_DEADLOCK FALSE
INVARIANTS
    TypeOK
    ResultAgreement
    EvidencePresent
