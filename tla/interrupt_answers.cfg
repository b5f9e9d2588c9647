SPECIFICATION ManagerSpec
CONSTANTS
  None = None
  Runs = {r1}
  Threads = {}
  Steps = {s1}
  MaxPending = 2
  MaxRequests = 4
  MaxEpoch = 1
INVARIANTS
  AnsweredOnce
CHECK_DEADLOCK FALSE
PROPERTIES
  SettledStaysSettled
