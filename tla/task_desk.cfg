SPECIFICATION Spec
CONSTANTS
  c1 = c1
  c2 = c2
  b1 = b1
  b2 = b2
  n1 = n1
  n2 = n2
  Scratch = Scratch
  None = None
  Calls = {c1, c2}
  Workspaces = {Scratch, None}
  Name <- MCName
  Names = {n1, n2}
  Replies <- MCReplies
  Unwraps = 2
  Started = {1}
  Routine = {3}
  ProgressLimit = 3
  PageSize = 2
  ListLimit = 1
  Bodies = {b1, b2}
  MaxTasks = 2
  MaxEvents = 4
  MaxCaptures = 2
CONSTRAINT MCApart
SYMMETRY MCSymmetry
INVARIANTS ViewsAgree DownloadIsResult NarrationIsWhole IngestionAgrees
CHECK_DEADLOCK FALSE
