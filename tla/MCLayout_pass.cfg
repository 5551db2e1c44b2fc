SPECIFICATION ReloadSpec
CONSTANTS
  SegTables <- MCSegTables
  SecTables <- MCSecTables
  HeaderSize = 6
  EntrySize = 4
  TableAlign = 16
  Word = 512
  Sizes = {2, 6}
  MaxSaves = 2
INVARIANTS LayoutTypeOK Disjoint SegmentsCover ImageMatches MembersFound SavedIsValid
PROPERTIES NeverBackwards ResaveKeeps
CHECK_DEADLOCK FALSE
