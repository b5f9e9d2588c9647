SPECIFICATION Spec
CONSTANTS
  Clients = {k1, k2}
  Kinds = {"create", "list", "clear", "get", "resolve", "sweep", "bump"}
  None = None
  Runs = {r1}
  Threads = {}
  Steps = {s1}
  MaxPending = 1
  MaxRequests = 2
  MaxOps = 2
  MaxEpoch = 1
  MaxCrashes = 1
INVARIANTS
  LostOnlyByRewriteOrCrash
PROPERTIES
  AnsweredAgainOnlyByOverlap
  QuietCreatesKeepLimit
SYMMETRY ClientSymmetry
CHECK_DEADLOCK FALSE
