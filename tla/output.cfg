SPECIFICATION Spec
CONSTANTS
  a = a
  b = b
  p = p
  Sessions = {a, b}
  Physical = {p}
  Leftovers = {a, b}
  MayFail = TRUE
INVARIANTS
  TypeOK
  OutputStays
  LayoutKept
SYMMETRY Interchangeable
