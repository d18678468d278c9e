SPECIFICATION FairSpec
CONSTANTS
    Slots = {1, 2}
    Week <- OneWeek
    Poison = {1}
    BatchLimit = 1
    MaxTickFailures = 2
    Tick = 1
    Grace = 1
    RetryWait = 1
    Cooldown = 1
    RetryBase = 1
    RetryCap = 8
    FarCadence = 3
    NearCadence = 2
    HouseEvery = 4
    IngestEvery = 1
    IngestRetry = 1
    CollectMax = 1
    HouseMax = 1
    WorkerMax = 1
    SnapshotMax = 0
    IngestMax = 1
    MaxFaults = 1
INVARIANTS
    CollectionWaitsForOneChild
PROPERTIES
    FreshSlotsFirst
    SlotsAdvance
