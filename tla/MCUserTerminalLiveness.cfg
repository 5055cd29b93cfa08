CONSTANTS
  User = {u1}
  Session = {s1}
  NoTemplate = NoTemplate
  PodCacheLags = FALSE
  ApiFails = FALSE
  StatusSteps = 2
SPECIFICATION FairServiceSpec
INVARIANT NoLostWakeup
PROPERTIES WaitsEnd NothingLeftBehind Reclaimed Settles
