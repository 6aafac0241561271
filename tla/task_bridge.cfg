SPECIFICATION FairSpec
CONSTANTS
  c1 = c1
  Clients = {c1}
  MaxPrompts = 2
INVARIANTS SettledIsSeen AnswerIsOwn FollowUpsFinish
PROPERTIES EnvironmentReleased
CHECK_DEADLOCK FALSE
