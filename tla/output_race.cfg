SPECIFICATION Spec
CONSTANTS
  a = a
  b = b
  p = p
  Sessions = {a, b}
  Physical = {p}
  Leftovers = {}
  MayFail = FALSE
INVARIANTS
  AppliedMode
SYMMETRY Interchangeable
