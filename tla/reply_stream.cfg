SPECIFICATION StreamSpec
CONSTANTS
  Null = Null
  Trimmed <- MCTrimmed
  Replies <- MCReplies
  Later <- MCLater
  MaxNodes = 2
  MaxEdges = 1
  MaxElements = 2
  Window = 3
  HexDigits = 2
  MaxSpoken = 2
  MaxChunk = 3
  Responses = 2
  MaxBody = 2
  MaxNodesSent = 3
  MaxElementsSent = 3
INVARIANTS SpeechOfReply ShownIsSpoken AppIsConsistent
CHECK_DEADLOCK FALSE
