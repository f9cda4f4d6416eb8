SPECIFICATION Spec
CONSTANT MinInt = 0
CONSTANT MaxInt = 1
CONSTANT NaN = NaN
CONSTANT Doubles = {0, 2, 3, 4}
CONSTANT Uuids = {0}
CONSTANT FreshTuples = {a, b}
CONSTANT InitialBuffer <- MCInitialBuffer
CONSTANT Initially = {a}
CONSTANT Backed = Backed
CONSTANT Projections <- MCProjections
CONSTANT None = None
PROPERTY ReadOnlyTuplesStay
