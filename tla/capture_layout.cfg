SPECIFICATION Spec
CONSTANTS
  tiled = tiled
  linear = linear
  compressed = compressed
  None = None
  Sizes = {1, 2}
  Offers <- FormatLists
  Allowed <- Readable
  PoolSize = 2
  MaxChanges = 1
INVARIANTS
  LayoutAgrees
CHECK_DEADLOCK FALSE
