CONSTANTS
  Config = {"loud", "warn", "error"}
SPECIFICATION FairLoggingSpec
INVARIANTS NilLoggerNeedsRace NoChangeMissed LoggingInv
PROPERTY Reloads
CHECK_DEADLOCK FALSE
