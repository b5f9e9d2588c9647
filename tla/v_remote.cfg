SPECIFICATION Spec
CONSTANTS
  Steps = {e1}
  e1 = e1
  e2 = e2
  here = here
  there = there
  either = either
  asking = asking
  barred = barred
  one = one
  pair = pair
  both = both
  loop = loop
  asker = asker
  far = far
  Tools <- AllTools
  Agents <- AllAgents
  Placement <- PlacementOf
  Asking = {asking}
  Ungranted = {barred}
  Policies <- BothPolicies
  Script <- Scripts
  AllowedTools <- AllowLists
  MaxToolCalls <- Limits
  Style <- HandlerStyles
  Candidates <- TwoCallAgents
  Containments <- BothModes
  RetryAttempts = 2
  FailMax = 2
  ResetAfter = 1
  MaxCalls = 2
INVARIANTS
  AgentsWithinLimitsFinish
CHECK_DEADLOCK FALSE
