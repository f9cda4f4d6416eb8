SPECIFICATION Spec
CONSTANT N = 5
CONSTANT Tuples <- MCTuples
CONSTANT SearchKeys <- PointKeys
CONSTANT MaxLeafTuples = 2
CONSTANT MaxBranchTuples = 2
CONSTANT MaxNodes = 16
CONSTANT CountModulus = 16
CHECK_DEADLOCK FALSE
INVARIANT TypeOK
INVARIANT SiblingLinksAgree
INVARIANT FreeNodesAreBlank
INVARIANT SplitsTakeUnusedNodes
INVARIANT PagesHalfFull
INVARIANT KeysAreUnique
