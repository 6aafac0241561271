SPECIFICATION Spec
CONSTANTS
  Calls = {1, 2}
  Clients = {1, 2}
  Sessions = {s1, s2}
  First = s1
  Task = task
  Failed = failed
  Done = done
  None = none
PROPERTY AttachmentReleased
CHECK_DEADLOCK FALSE
