SPECIFICATION Spec
CONSTANTS
  c1 = c1
  c2 = c2
  c3 = c3
  c4 = c4
  p1 = p1
  p2 = p2
  s1 = s1
  s2 = s2
  None = None
  End = End
  Runs = {c1, c2, c3}
  Threads = {t1}
  Steps = {s1, s2}
  Procs = {p1}
  ProcOf <- OneProc
  Yields <- Everywhere
  Entry = s1
  Targets <- Branch
  Illegal = {s1}
  Gated = {s1}
  Requires <- SecondIsBlocked
  Outcomes <- AnyOutcome
  Quotes = {None}
  MaxPending = 1
  PutMayFail = TRUE
  CanRestore = TRUE
  CanExpire = FALSE
  MaxCrashes = 1
  MaxEpoch = 6
INVARIANTS
  EveryVersionKept
  
SYMMETRY CallSymmetry
CHECK_DEADLOCK FALSE
