SPECIFICATION Spec
CONSTANTS
  Accessors = {a1, a2}
  Files <- MCFiles
  NotesToAdd <- MCNotesToAdd
  Characters = {"a", "="}
  Fields <- MCFields
  Values <- MCValues
  Tags = {"NULL", "VERNEEDNUM", "VERDEFNUM"}
  Numbers = {2}
  MaxAdds = 3
INVARIANTS AccessorsTypeOK AddedIsReparsed ReadsInside VersionsFollow
CHECK_DEADLOCK FALSE
SYMMETRY Sym
