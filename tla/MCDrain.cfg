SPECIFICATION LoadThenDrainSpec
CONSTANT N = 9
CONSTANT Tuples <- MCTuples
CONSTANT SearchKeys <- PrefixKeys
CONSTANT MaxLeafTuples = 4
CONSTANT MaxBranchTuples = 6
CONSTANT MaxNodes = 16
CONSTANT CountModulus = 16
CHECK_DEADLOCK FALSE
INVARIANT NeverAborts
INVARIANT CountIsExact
INVARIANT PagesHalfFull
PROPERTY ImplementsTupleStoreSafely
