SPECIFICATION Spec
CONSTANT N = 3
CONSTANT Tuples <- MCTuples
CONSTANT SearchKeys <- MCKeys
CONSTANT MaxTuples = 3
INVARIANT TuplesStayInOrder
