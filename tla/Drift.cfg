SPECIFICATION FairSpec
CONSTANTS
  Level <- MCLevel
  Value <- MCValue
  Warning = 15
  Critical = 20
  NumPairs = 2
  MinSamples = 2
  MinCompute = 1
  ChannelCap = 1
  MaxSamples = 2
  SQLFaults = TRUE
INVARIANTS StatisticsSoundTo12
PROPERTIES AlertHasWitness BaselineIsSticky DetectorNeverBlocks DriftKeepsBeingReported
CHECK_DEADLOCK FALSE
