SPECIFICATION Spec
CONSTANTS
  c1 = c1
  c2 = c2
  c3 = c3
  c4 = c4
  p1 = p1
  p2 = p2
  s1 = s1
  s2 = s2
  None = None
  End = End
  Runs = {c1, c2, c3}
  Threads = {t1}
  Steps = {s1, s2}
  Procs = {p1, p2}
  ProcOf <- TwoProcs
  Yields <- SerialWorkers
  Entry = s1
  Targets <- LoopThenEnd
  Illegal = {s2}
  Gated = {s1}
  Requires <- NeedsNothing
  Outcomes <- SecondIsPlain
  Quotes <- AnyQuote
  MaxPending = 1
  PutMayFail = FALSE
  CanRestore = TRUE
  CanExpire = TRUE
  MaxCrashes = 2
  MaxEpoch = 8
INVARIANTS
  TypeOK
  WaitHasItsRequest
  ActiveRunIsLive
  NoOrphanedRun
  Ownership
  SingleDriver
  ApprovalsNotReused
  CheckpointChain
PROPERTIES
  ImplementsLifecycle
SYMMETRY WorkerSymmetry
CHECK_DEADLOCK FALSE
