CONSTANTS
  User = {u1}
  NoTemplate = NoTemplate
  PodCacheLags = FALSE
  ApiFails = TRUE
  StatusSteps = 2
SPECIFICATION Spec
INVARIANT NoLostWakeup
