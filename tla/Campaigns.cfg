SPECIFICATION FairSpec
CONSTANTS
  Config = {c1, c2, c3}
  Allowed = {c1, c2, c3}
  ValidConfig = {c1, c2}
  NoConfig = NoConfig
  Costs = {1}
  MaxTrials = 2
  MaxTurns = 2
  MaxCalls = 2
  Delivery = {d1, d2}
  Faults = {}
INVARIANTS WorkIsRecorded
PROPERTIES CancelStopsSubmission CampaignEnds
CHECK_DEADLOCK FALSE
