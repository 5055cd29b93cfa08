CONSTANTS
  Request = {r1, r2}
  User = {u1, u2}
  NoUser = NoUser
SPECIFICATION AdmissionSpec
INVARIANTS Accounted AdmissionInv
PROPERTY ImplementsAccess
