CONSTANTS
  ShipQueue = 1
  Window = 1
  eventBacklog = 2
  subBuffer = 1
  Browsers = {b1}
  MaxLines = 2
  MaxOwn = 2
  MaxSessions = 2
SPECIFICATION FeedFairSpec
INVARIANTS FeedHasNoGap LateFailureSilencesNobody
PROPERTIES WarningArrives
CHECK_DEADLOCK FALSE
