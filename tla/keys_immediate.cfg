CONSTANTS
  k1 = k1
  k2 = k2
  r1 = r1
  r2 = r2
  a1 = a1
  a2 = a2
  NoKey = NoKey
  Keys = {k1, k2}
  Requests = {r1, r2}
  Admins = {a1, a2}
SPECIFICATION Spec
SYMMETRY Symmetry
INVARIANTS RevocationImmediate
