CONSTANTS
  MaxMessages = 1
SPECIFICATION FairWindowSpec
PROPERTIES CloseAnswered
CHECK_DEADLOCK FALSE
