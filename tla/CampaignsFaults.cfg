SPECIFICATION Spec
CONSTANTS
  Config = {c1, c2, c3}
  Allowed = {c1, c2, c3}
  ValidConfig = {c1, c2}
  NoConfig = NoConfig
  Costs = {1}
  MaxTrials = 2
  MaxTurns = 2
  MaxCalls = 2
  Delivery = {d1, d2}
  Faults = {"db", "crash"}
INVARIANTS AtMostOneLoop JobsAreBudgeted
PROPERTIES RefinesLifecycle
CHECK_DEADLOCK FALSE
