SPECIFICATION Spec
CONSTANTS
  Names <- MCNames
  Texts <- MCTexts
  Suffix <- MCSuffix
  Lined <- MCLined
  NameSize <- MCNameSize
  Symbols = {"f", "g"}
  SymbolSize <- MCSymbolSize
  Contents = {"odd", "even"}
  Size <- MCSize
  Files = {"in", "out"}
  Disks <- MCDisks
  MaxMembers = 2
  MaxLongNames = 2
  MaxSaves = 1
  None = None
  Unknown = Unknown
PROPERTY LocationsAreMembers
CHECK_DEADLOCK FALSE
