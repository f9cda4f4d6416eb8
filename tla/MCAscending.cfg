SPECIFICATION AscendingSpec
CONSTANT N = 7
CONSTANT Tuples <- MCTuples
CONSTANT SearchKeys <- PrefixKeys
CONSTANT MaxLeafTuples = 2
CONSTANT MaxBranchTuples = 2
CONSTANT MaxNodes = 16
CONSTANT CountModulus = 16
CONSTANT Payload <- MCPayload
CONSTANT PayloadValues <- MCPayloadValues
CHECK_DEADLOCK FALSE
INVARIANT LeafChainInOrder
INVARIANT IterationIsComplete
INVARIANT FindsFirstMatch
INVARIANT RangesAreExact
INVARIANT FindsTheLongKey
