SPECIFICATION Spec
CONSTANTS
  Byte = {"a", "b"}
  Junk = "junk"
  File <- MCFile
  Payload <- MCPayload
  Offsets <- MCOffsets
  XMax = 4
  Sizes = {1, 3}
  SizeLimits <- MCSizeLimits
PROPERTIES SaveWritesContent
CHECK_DEADLOCK FALSE
