SPECIFICATION OrderSpec
CONSTANT SegTables <- UnsortedTables
INVARIANT OuterFirst
CHECK_DEADLOCK FALSE
