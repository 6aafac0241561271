SPECIFICATION Spec
CONSTANTS
  p1 = p1
  p2 = p2
  p3 = p3
  NoPid = NoPid
  Procs = {p1, p2, p3}
  MaxLive = 2
  MaxCrashes = 0
  MaxAttempts = 3
  PromptSteps = TRUE
INVARIANTS OneStoreOwner
CHECK_DEADLOCK FALSE
