CONSTANTS
  User = {u1}
  NoTemplate = NoTemplate
  PodCacheLags = TRUE
  ApiFails = FALSE
  StatusSteps = 2
SPECIFICATION Spec
INVARIANT NoOrphanPod
