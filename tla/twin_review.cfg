SPECIFICATION Spec
CONSTANTS
  c1 = c1
  c2 = c2
  c3 = c3
  c4 = c4
  k1 = k1
  k2 = k2
  s1 = s1
  s2 = s2
  None = None
  Calls = {c1, c2, c3, c4}
  Kinds = {k1, k2}
  Texts = {s1, s2}
  MaxFaults = 1
SYMMETRY MCSymmetry
INVARIANTS DecisionOnRecord OneDecision CorrectionsStand
PROPERTIES DeletedStaysHidden
CHECK_DEADLOCK FALSE
