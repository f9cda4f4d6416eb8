SPECIFICATION LoadThenDrainSpec
CONSTANT N = 6
CONSTANT Tuples <- MCTuples
CONSTANT SearchKeys <- PointKeys
CONSTANT MaxLeafTuples = 2
CONSTANT MaxBranchTuples = 2
CONSTANT MaxNodes = 16
CONSTANT CountModulus = 16
CHECK_DEADLOCK FALSE
INVARIANT NeverAborts
