SPECIFICATION Spec
CONSTANTS
  Strings <- MCStrings
  Length <- MCLength
  Hash <- MCHash
  MaxWord = 7
  RelSections = {r1, r2}
  Objects <- MCObjects
  MaxSymbols = 5
  MaxRelocations = 1
  None = None
INVARIANTS SymbolsTypeOK RelocationsFollow SymbolsKept LocalsFirst NamesRight LookupExact
PROPERTIES ArrangingEnds
CHECK_DEADLOCK TRUE
