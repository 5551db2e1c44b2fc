SPECIFICATION Spec
CONSTANTS
  Formats <- SomeFormats
  EntriesOf <- SomeEntries
  HeaderValues <- Values
  Dumps <- SomeDumps
  MaxCalls = 3
INVARIANTS
  EncodingTypeOK
  FileDecodes
  EntriesReadBack
  LoadsAlike
