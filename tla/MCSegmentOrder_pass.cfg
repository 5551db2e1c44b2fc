SPECIFICATION OrderSpec
CONSTANT SegTables <- SortedTables
INVARIANTS OrderTypeOK EachSegmentOnce CountsExact ContainersFirst
PROPERTY Ordered
CHECK_DEADLOCK FALSE
