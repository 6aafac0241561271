SPECIFICATION Spec
CONSTANTS
  c1 = c1
  c2 = c2
  t1 = t1
  t2 = t2
  Brief = Brief
  None = None
  Calls = {c1, c2}
  Candidates <- MCCandidates
  CallsFail = TRUE
  Traces = {t1, t2}
SYMMETRY MCSymmetry
INVARIANTS ViewsMoveForward RenderIsApproved CompleteHasAudio
CHECK_DEADLOCK FALSE
