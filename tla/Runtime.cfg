SPECIFICATION FairSpec
CONSTANTS
    Runtime = runtime
    NoProc = free
    Runs = {1, 2}
    ManualRuns = {}
    NoEvidence = {2}
    Unexecutable = {}
    Pinned = {}
    Backlog = {}
    Outcomes = {"SUCCESS"}
    MaxSnaps = 2
    MaxKills = 1
    Manuals = {}
    Operators = {}
    Workflows = {wf}
    Ingesters = {}
    BatchLimit = 1
    ExclusionSets <- EveryDeferral
    Reserve = 2
    Keep = 1
CHECK_DEADLOCK FALSE
INVARIANTS
    EvidenceChain
    RetirementAudited
PROPERTIES
    ResultsComplete
    
