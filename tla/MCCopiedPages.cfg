SPECIFICATION BothSpec
CONSTANT N = 3
CONSTANT Tuples <- MCTuples
CONSTANT SearchKeys <- MCKeys
CONSTANT MaxTuples = 2
INVARIANT BothStayInOrder
