SPECIFICATION Spec
CONSTANTS
  shardA = shardA
  shardB = shardB
  again = again
  h1 = h1
  h2 = h2
  i1 = i1
  i2 = i2
  v1 = v1
  Games = {1, 2, 3, 4, 5, 6}
  Histories <- Chronologies
  Dirs = {shardA, shardB, again}
  Jobs = {j1, j2}
  Idents = {i1, i2}
  Expected = "any"
  Pinned = {i1}
  FinalGames <- Finals
  Scoreable <- Labels
  Commands <- Replays
  Evaluations <- AllEvaluations
  MaxLaunches = 4
  MaxKills = 1
  Plans <- TwoPlans
  MinSamples = 2
  Experiments <- TwoExperiments
  Artifacts <- SomeArtifacts
  RunName = "dir"
  Versions = {v1, v2}
  Tables <- SomeTables
  MaxEdits = 4
  MaxReproductions = 2
  Requests <- SomeRequests
  Commits = {"main", "branch"}
  Objects = {"games", "injuries"}
  Contents = {"good", "damaged"}
  MaxTrainings = 3
  MaxFaults = 1
CHECK_DEADLOCK FALSE
INVARIANTS
    ShardIsOneReplay
    ReportIsComplete
    
    
    ReproductionIsARebuild
    EligibleIsEarned
