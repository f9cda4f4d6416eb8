SPECIFICATION Spec
CONSTANT MinInt <- MCMinInt
CONSTANT MaxInt = 1
CONSTANT NaN = NaN
CONSTANT SomeDoubles = {0, 1}
CONSTANT KeyDoubles <- WholeDoubles
CONSTANT Doubles <- MCDoubles
CONSTANT Uuids = {0, 1}
CONSTANT Tuples <- MCTuples
CONSTANT Keys <- MCKeys
CONSTANT Orders <- MCOrders
CONSTANT MaxTuples = 3
INVARIANT PageIsSorted
INVARIANT ColumnsAreSorted
INVARIANT KeysMatchIntervals
