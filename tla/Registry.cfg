SPECIFICATION Spec
CONSTANTS
    Offered <- FourArtifacts
    Evidence <- FourValidations
    Certified <- Pin
    Enhanced = "enhanced"
    Troubles = {"rows"}
    MaxTime = 1
    MaxCalls = 5
    MaxKills = 1
\* The calls are bounded.
CHECK_DEADLOCK FALSE
INVARIANTS
    EventsAreBacked
    PointerIsRecorded
    InstallResolves
