SPECIFICATION LoadingSpec
CONSTANT N = 8
CONSTANT Tuples <- MCTuples
CONSTANT SearchKeys = {}
CONSTANT MaxLeafTuples = 2
CONSTANT MaxBranchTuples = 2
CONSTANT MaxNodes = 12
CONSTANT CountModulus = 4
CHECK_DEADLOCK FALSE
INVARIANT InvariantHolds
