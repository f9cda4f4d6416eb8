SPECIFICATION AscendingSpec
CONSTANT N = 6
CONSTANT Tuples <- MCTuples
CONSTANT SearchKeys <- PrefixKeys
CONSTANT MaxLeafTuples = 2
CONSTANT MaxBranchTuples = 2
CONSTANT MaxNodes = 12
CONSTANT CountModulus = 16
CONSTANT Payload <- MCPayload
CONSTANT PayloadValues <- MCPayloadValues
CHECK_DEADLOCK FALSE
INVARIANT LongRangesAreExact
