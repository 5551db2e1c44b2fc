SPECIFICATION Spec
CONSTANTS
  Objects = {o1, o2}
  Files <- MCFiles
  Names = {"new"}
  MaxSections = 3
  MaxSegments = 1
  MaxMembers = 1
  MaxStreams = 2
  None = None
INVARIANTS FileTypeOK SoundObjectsWork NamesSurviveSave ReadsIndependent
SYMMETRY Symmetry
CHECK_DEADLOCK FALSE
