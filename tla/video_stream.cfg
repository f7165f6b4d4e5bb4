SPECIFICATION StreamSpec
CONSTANTS
  BatchMax = 2
  MaxEvents = 4
  MaxAcks = 1
  MaxSessions = 2
  Inputs = {1, 2}
  SinkMax = 1
  NetMax = 2
  MaxFrames = 3
  MaxConnects = 2
INVARIANTS
  StreamTypeOK
  QueueKept
  ContactFollowsFinger
  AcksMatch
  InputsConserved
PROPERTIES
  NothingBlocks
CHECK_DEADLOCK FALSE
