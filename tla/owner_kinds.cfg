SPECIFICATION FairSpec
CONSTANTS
  r1 = r1
  None = None
  Requests = {r1}
  Inputs = {"song-render", "agent-run", "song-lyrics", "digital-twin", "validation"}
  Kind <- MCKind
  RestartLimit = 2
  ProgressLimit = 2
  MaxExits = 3
INVARIANTS RenderAtMostOnce HonestOutcome ToldIsBound IInv
PROPERTIES SettledIsFinal ContractSpec AdmittedSettles
