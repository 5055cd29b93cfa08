CONSTANTS
  Port = {0, 9072, 65535, 65536}
  NoPort = NoPort
SPECIFICATION FairStartupSpec
INVARIANTS ConfigInv ServedAsConfigured
PROPERTY UpOrDown
CHECK_DEADLOCK FALSE
