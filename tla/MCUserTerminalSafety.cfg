CONSTANTS
  User = {u1}
  Session = {s1, s2}
  NoTemplate = NoTemplate
  PodCacheLags = FALSE
  ApiFails = TRUE
  StatusSteps = 2
SPECIFICATION ServiceSpec
INVARIANTS SessionInv TypeOK NoOrphanPod NoPrematureKill TTLDeleteJustified StatusEarned
PROPERTIES ImplementsReconciler ImplementsWorkspace OnlyStatusForgets NothingUndone
SYMMETRY SessionSymmetry
