SPECIFICATION Spec
CONSTANTS
  Tasks = {t1}
  p1 = p1
  Publishers = {p1, p2, p3}
  Commits = {1, 2, 3}
  v1 = v1
  Version <- MCVersion
  Own = own
  Scratch = scratch
  None = none
  MaxEdits = 1
  MaxBuilds = 2
  MaxCrashes = 1
CONSTRAINT MCApart
INVARIANTS SnapshotsResolve WorkSurvives ResultCoversAnswer
PROPERTY EveryTaskSettles
CHECK_DEADLOCK FALSE
