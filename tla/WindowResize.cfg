CONSTANTS
  MaxMessages = 1
SPECIFICATION WindowSpec
INVARIANT ResizeTaken
CHECK_DEADLOCK FALSE
