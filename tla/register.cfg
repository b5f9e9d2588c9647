SPECIFICATION Spec
CONSTANTS
  Clients = {k1, k2}
  None = None
  Runs = {r1, r2}
  Threads = {t1}
  Steps = {}
  ThreadOf <- OneThread
  Statuses = {"RUNNING", "WAITING_INTERRUPT"}
  CanDelete = TRUE
  MaxWrites = 3
INVARIANTS
  HistoryComplete
PROPERTIES
  ImplementsRegister
SYMMETRY ClientSymmetry
CHECK_DEADLOCK FALSE
