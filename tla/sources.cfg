SPECIFICATION SourcesSpec
CONSTANTS
  tiled = tiled
  linear = linear
  compressed = compressed
  None = None
  Sizes = {1, 2}
  Offers <- FormatLists
  Allowed <- Readable
  PoolSize = 3
  MaxChanges = 2
  Unset = Unset
  MaxFormats = 2
  MaxQueued = 2
INVARIANTS
  SourcesTypeOK
  BuffersExclusive
  AbsorbsOneChange
PROPERTIES
  SourcesPromise
  NextFrameReturns
CHECK_DEADLOCK FALSE
