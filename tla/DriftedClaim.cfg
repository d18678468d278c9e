SPECIFICATION Spec
CONSTANTS
  early = early
  late = late
  Games = {early, late}
  Target = late
  Slate <- TwoWeeks
  Estimated = {early}
  EstimateAt = 1
  Backfills = {b1, b2}
  Researchers = {r}
  Scores = {1, 2, null}
  Unscored = null
  NoScore = noscore
  Lines = {1, 2}
  Kickoffs = {1, 2}
  Buffer = 1
  None = none
  MaxClock = 2
  Budgets <- DriftBudgets
CHECK_DEADLOCK FALSE
INVARIANTS ClaimKeepsItsData
