SPECIFICATION ServedSpec
CONSTANT N = 31
CONSTANT Queued = 8
CONSTANT Kept = 7
CONSTANT Tuples <- MCTuples
CONSTANT Loaded <- MCLoaded
CONSTANT Logged <- MCLogged
CONSTANT SearchKeys <- PointKeys
CONSTANT MaxLeafTuples = 2
CONSTANT MaxBranchTuples = 2
CONSTANT CountModulus = 32
CONSTANT MaxNodes = 20
CHECK_DEADLOCK FALSE
INVARIANT ParentsAgree
PROPERTY ImplementsTupleStore
PROPERTY CallsReturn
