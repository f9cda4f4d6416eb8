SPECIFICATION Spec
CONSTANT MaxIDs = 8
INVARIANT TypeOK
INVARIANT FreeIsTheGaps
INVARIANT NextIDIsSmallestUnused
