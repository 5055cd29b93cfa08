CONSTANTS
  MaxMessages = 2
SPECIFICATION FairWindowSpec
INVARIANTS WindowInv CrashNeedsRace ResizeAnswered InputEnds TextsInOrder
PROPERTIES TerminalEnds NoGoroutineLeft InputServed ImplementsTerminal
CHECK_DEADLOCK FALSE
