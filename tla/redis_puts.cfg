SPECIFICATION Spec
CONSTANTS
  Clients = {k1, k2}
  None = None
  Runs = {r1, r2}
  Threads = {t1}
  Steps = {}
  ThreadOf <- OneThread
  Retries = 1
  CanIndex = TRUE
  CanList = TRUE
  CanDelete = TRUE
  CanExpire = TRUE
  MaxWrites = 3
  MaxOps = 5
  MaxCrashes = 1
INVARIANTS
  HistoryLostOnlyByRewriteTtlOrCrash
PROPERTIES
  EpochsAdvance
  UpdatesLostOnlyByRetry
SYMMETRY Symmetry
CHECK_DEADLOCK FALSE
