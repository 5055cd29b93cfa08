CONSTANTS
  User = {u1, u2}
  NoTemplate = NoTemplate
  PodCacheLags = TRUE
  ApiFails = FALSE
  StatusSteps = 1
SPECIFICATION QuietSpec
INVARIANTS IInv
PROPERTY OnlyStaleReadOrphans
SYMMETRY UserSymmetry
