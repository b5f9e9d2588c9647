SPECIFICATION ServicesSpec
CONSTANTS
  r1 = r1
  r2 = r2
  t1 = t1
  t2 = t2
  k1 = k1
  k2 = k2
  None = None
  Runs = {r1, r2}
  Threads = {t1, t2}
  Steps = {}
  MaxThreadRuns = 2
  Tasks = {k1, k2}
  RunOf <- TaskRuns
  ThreadOf <- RunThreads
  Keys = {x}
  Secrets = {s}
  ExplicitTargets = {r1}
  MaxEvents = 3
  ChannelNames = {"merged", "appended", "pruned", "cut", "replaced", "cleared", "unknown"}
  ReducerOf <- Reducers
  Defaults <- ChannelDefaults
  Updates <- SomeValues
  MaxUpdates = 2
  MaxWidth = 2
INVARIANTS
  ArchivedOnce
  FlagsAddUp
  SecretsRedacted
  UpdatesAreWhole
CHECK_DEADLOCK FALSE
