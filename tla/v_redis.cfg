SPECIFICATION Spec
CONSTANTS
  c1 = c1
  c2 = c2
  c3 = c3
  c4 = c4
  p1 = p1
  p2 = p2
  s1 = s1
  s2 = s2
  None = None
  End = End
  Runs = {c1, c2, c3}
  Threads = {t1}
  Steps = {s1, s2}
  Procs = {p1}
  ProcOf <- OneProc
  Yields <- RedisStores
  Entry = s1
  Targets <- Chain
  Illegal = {}
  Gated = {s2}
  Requires <- SecondNeedsFirst
  Outcomes <- AskThenWork
  Quotes = {None}
  MaxPending = 1
  PutMayFail = FALSE
  CanRestore = FALSE
  CanExpire = TRUE
  MaxCrashes = 0
  MaxEpoch = 20
INVARIANTS
  SingleDriver
CHECK_DEADLOCK FALSE
