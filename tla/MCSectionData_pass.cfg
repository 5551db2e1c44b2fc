SPECIFICATION Spec
CONSTANTS
  Byte = {"a", "b"}
  Junk = "junk"
  File <- MCFile
  Payload <- MCPayload
  Offsets <- MCOffsets
  XMax = 4
  Sizes = {1, 3}
  SizeLimits <- MCSizeLimits
INVARIANTS TypeOK BuffersFit UntouchedShowsFile
PROPERTY EagerIsByteStore
CHECK_DEADLOCK FALSE
