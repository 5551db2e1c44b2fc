SPECIFICATION ReloadSpec
CONSTANTS
  SegTables <- WithThreadLocals
  SecTables <- ThreadLocalTables
  HeaderSize = 6
  EntrySize = 4
  TableAlign = 16
  Word = 512
  Sizes = {2, 6}
  MaxSaves = 2
PROPERTY ResaveKeepsThreadLocals
CHECK_DEADLOCK FALSE
