SPECIFICATION MCSpec
CONSTANTS
  p1 = p1
  p2 = p2
  NoPid = NoPid
  Procs = {p1, p2}
  MaxLive = 2
  MaxCrashes = 1
  MaxAttempts = 3
  PromptSteps = TRUE
  k1 = k1
  Keys = {k1}
  Outage = Outage
  None = None
  Cooldown = 3
  Patience = 2
  MaxTime = 5
INVARIANTS OneStoreOwner SocketIsServed Investigations
PROPERTIES SoleOwnerAcquires
CHECK_DEADLOCK FALSE
