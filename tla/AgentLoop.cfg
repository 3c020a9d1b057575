SPECIFICATION AgentFairSpec
CONSTANTS
  Config = {c1, c2, c3, foreign}
  Allowed = {c1, c2, c3}
  NoConfig = NoConfig
  Costs = {1, 2}
  MaxTrials = 2
  MaxTurns = 2
  MaxCalls = 3
INVARIANTS SpendCountsTrials NoConfigRunTwice MeasurementsComeFromTrials FallbackIsCheapest
CHECK_DEADLOCK FALSE
PROPERTIES LoopTerminates
