SPECIFICATION HandOverSpec
CONSTANT N = 4
CONSTANT Tuples <- MCTuples
CONSTANT SearchKeys <- MCKeys
CONSTANT MaxTuples = 3
INVARIANT BothPagesFit
INVARIANT BothKeepTheirSlots
INVARIANT BothStayInOrder
INVARIANT BothRangesAreExact
PROPERTY ImplementsSortedPage
