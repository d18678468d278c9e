SPECIFICATION Spec
CONSTANTS
    Items = {"yards", "receptions"}
    Evidence <- ThreeVersions
    Registries <- OneTroubleAtMost
    MaxRetries = 2
    MaxFaults = 3
    Squads <- SecondStringers
    NDraws = 2
    Quarters = 2
    Gains <- FourYards
    LongGains <- OneYardLost
    MaxEvents = 2
    Stats = {"anytime_td", "first_td", "receiving_yards", "kicking_points", "receiving_tds", "rushing_tds"}
    Catalog <- SmallCatalog
    Quotes <- SixOffers
\* The checkpoint is executed once, the draws are drawn once, and then it is over.
CHECK_DEADLOCK FALSE
INVARIANTS
    OneComputation
    HeadersPinRows
    FailureBoundsArtifacts
    PublicIsBacked
    DrawsCohere
    
