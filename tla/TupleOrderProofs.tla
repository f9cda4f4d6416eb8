--------------------------- MODULE TupleOrderProofs ---------------------------
(***************************************************************************)
(* Proofs about TupleOrder, for every signature and every set of tuples of *)
(* that signature without a NaN, and every list of columns.  On those the  *)
(* comparators are lexicographic orders of integers, possibly reversed, so *)
(* that not being before is transitive; and this is all that a multiset    *)
(* needs for staying sorted.                                               *)
(***************************************************************************)
EXTENDS TupleOrder, SequenceLemmas, TLAPS

\* the tuples are of the given signature, and none of their values is NaN
OneSignature(signature) ==
  /\ signature \in Seq({"int", "double", "uuid"})
  /\ \A t \in Tuples :
       /\ t \in Seq(IntFields \cup DoubleFields \cup UuidFields)
       /\ Len(t) = Len(signature)
       /\ \A i \in 1..Len(signature) : t[i].type = signature[i] /\ t[i].value # NaN

\* the comparators sort by columns that those tuples have
ColumnsExist(signature) ==
  \A o \in Orders : o \in Seq([index : 1..Len(signature), direction : {"ASC", "DESC"}])

\* the columns that a comparator sorts by
Columns(o, signature) == IF o = <<>> THEN Default(Len(signature)) ELSE o

\* a tuple's value in the k-th column, negated if it is a descending one
Value(columns, t, k) ==
  IF columns[k].direction = "ASC" THEN t[columns[k].index].value
  ELSE -t[columns[k].index].value

LexicographicallyLess(columns, x, y) ==
  \E k \in 1..Len(columns) :
    /\ \A i \in 1..(k - 1) : Value(columns, x, i) = Value(columns, y, i)
    /\ Value(columns, x, k) < Value(columns, y, k)

LEMMA ColumnsAreColumns ==
  ASSUME NEW signature, OneSignature(signature), ColumnsExist(signature), NEW o \in Orders
  PROVE  /\ Len(Columns(o, signature)) \in Nat
         /\ \A k \in 1..Len(Columns(o, signature)) :
              /\ Columns(o, signature)[k].index \in 1..Len(signature)
              /\ Columns(o, signature)[k].direction \in {"ASC", "DESC"}
<1>1. Len(signature) \in Nat
  BY DEF OneSignature
<1>2. CASE o = <<>>
  BY <1>1, <1>2 DEF Columns, Default
<1>3. CASE o # <<>>
  <2> DEFINE Column == [index : 1..Len(signature), direction : {"ASC", "DESC"}]
  <2>1. Columns(o, signature) = o /\ o \in Seq(Column)
    BY <1>3 DEF Columns, ColumnsExist
  <2> HIDE DEF Column
  <2>2. Len(o) \in Nat /\ \A k \in 1..Len(o) : o[k] \in Column
    BY <2>1, ElementOfSeq
  <2> QED
    BY <2>1, <2>2 DEF Column
<1> QED
  BY <1>2, <1>3

\* two fields of the same type that are not NaN have integer values, and
\* comparing them compares these
LEMMA FieldsCompare ==
  ASSUME NEW f \in IntFields \cup DoubleFields \cup UuidFields,
         NEW g \in IntFields \cup DoubleFields \cup UuidFields,
         f.type = g.type, f.value # NaN, g.value # NaN
  PROVE  /\ f.value \in Int /\ g.value \in Int
         /\ compare_to(f, g) =
              {IF f.value < g.value THEN -1 ELSE IF g.value < f.value THEN 1 ELSE 0}
<1>1. f.value \in Int /\ g.value \in Int
  <2>1. Ints \subseteq Int
    BY FieldsAssumption DEF Ints
  <2>2. \A h \in IntFields \cup DoubleFields \cup UuidFields :
          h.value \in Ints \cup Doubles \cup Uuids
    BY DEF IntFields, DoubleFields, UuidFields
  <2>3. \A v \in Ints \cup Doubles \cup Uuids : v # NaN => v \in Int
    BY <2>1, FieldsAssumption
  <2> QED
    BY <2>2, <2>3
<1>2. Converted(f.type, g) = {g.value}
  BY DEF Converted, get_int, get_double, get_uuid, IntFields, DoubleFields, UuidFields
<1>3. compare_to(f, g) = {compare_with_less(f.value, g.value)}
  BY <1>2 DEF compare_to
<1> QED
  BY <1>1, <1>3 DEF compare_with_less, Less

LEMMA ValuesAreIntegers ==
  ASSUME NEW signature, OneSignature(signature), ColumnsExist(signature), NEW o \in Orders,
         NEW t \in Tuples, NEW k \in 1..Len(Columns(o, signature))
  PROVE  Value(Columns(o, signature), t, k) \in Int
<1> DEFINE i == Columns(o, signature)[k].index
<1>1. i \in 1..Len(signature)
  BY ColumnsAreColumns
<1>2. t[i] \in IntFields \cup DoubleFields \cup UuidFields /\ t[i].value # NaN
  BY <1>1 DEF OneSignature
<1>3. t[i].value \in Int
  BY <1>2, FieldsCompare
<1> QED
  BY <1>3 DEF Value

\* when each comparison of fields has one result, the first that is not 0 is
\* the result of the whole
LEMMA FirstDifferenceSettles ==
  ASSUME NEW n \in Nat, NEW R, \A k \in 1..n : R[k] \in {-1, 0, 1},
         NEW results, DOMAIN results = 1..n, Len(results) = n,
         \A k \in 1..n : results[k] = {R[k]}, NEW d \in {-1, 1}
  PROVE  FirstDifference(results) = {d} <=>
           \E k \in 1..n : (\A i \in 1..(k - 1) : R[i] = 0) /\ R[k] = d
<1> DEFINE Settles(c, k) ==
             /\ \A i \in 1..(k - 1) : 0 \in results[i]
             /\ IF k > Len(results) THEN c = 0 ELSE c # 0 /\ c \in results[k]
<1>1. \A c : c \in FirstDifference(results) <=>
        c \in {-1, 0, 1} /\ \E k \in 1..(n + 1) : Settles(c, k)
  BY DEF FirstDifference
<1>2. \A c, k : k \in 1..(n + 1) /\ Settles(c, k) =>
        /\ \A i \in 1..(k - 1) : R[i] = 0
        /\ k > n => c = 0
        /\ ~(k > n) => k \in 1..n /\ c # 0 /\ c = R[k]
  <2> SUFFICES ASSUME NEW c, NEW k \in 1..(n + 1), Settles(c, k)
               PROVE  /\ \A i \in 1..(k - 1) : R[i] = 0
                      /\ k > n => c = 0
                      /\ ~(k > n) => k \in 1..n /\ c # 0 /\ c = R[k]
    OBVIOUS
  <2>1. \A i \in 1..(k - 1) : i \in 1..n
    OBVIOUS
  <2>2. \A i \in 1..(k - 1) : R[i] = 0
    BY <2>1
  <2>3. ~(k > n) => k \in 1..n
    OBVIOUS
  <2> QED
    BY <2>2, <2>3
<1>3. ASSUME FirstDifference(results) = {d}
      PROVE  \E k \in 1..n : (\A i \in 1..(k - 1) : R[i] = 0) /\ R[k] = d
  <2>1. PICK k \in 1..(n + 1) : Settles(d, k)
    BY <1>1, <1>3
  <2> QED
    BY <1>2, <2>1
<1>4. ASSUME NEW k \in 1..n, \A i \in 1..(k - 1) : R[i] = 0, R[k] = d
      PROVE  FirstDifference(results) = {d}
  <2>1. k \in 1..(n + 1) /\ ~(k > Len(results))
    OBVIOUS
  <2>2. \A i \in 1..(k - 1) : i \in 1..n /\ 0 \in results[i]
    BY <1>4
  <2>3. Settles(d, k)
    BY <1>4, <2>1, <2>2
  <2> HIDE DEF Settles
  <2>4. d \in FirstDifference(results)
    BY <1>1, <2>1, <2>3
  <2>5. ASSUME NEW c \in FirstDifference(results) PROVE c = d
    <3>1. PICK m \in 1..(n + 1) : Settles(c, m)
      BY <1>1
    <3>2. CASE m < k
      <4>1. m \in 1..(k - 1) /\ ~(m > n)
        BY <3>2
      <4> QED
        BY <1>2, <1>4, <3>1, <4>1
    <3>3. CASE m = k
      BY <1>2, <1>4, <3>1, <3>3
    <3>4. CASE k < m
      <4>1. k \in 1..(m - 1)
        BY <3>4
      <4>2. R[k] = 0
        BY <1>2, <3>1, <4>1
      <4> QED
        BY <1>4, <4>2
    <3> QED
      BY <3>2, <3>3, <3>4
  <2> QED
    BY <2>4, <2>5
<1> QED
  BY <1>3, <1>4

LEMMA NoDifference ==
  ASSUME NEW n \in Nat, NEW R, \A k \in 1..n : R[k] \in {-1, 0, 1},
         NEW results, DOMAIN results = 1..n, Len(results) = n,
         \A k \in 1..n : results[k] = {R[k]}
  PROVE  (\A k \in 1..n : R[k] = 0) => FirstDifference(results) = {0}
<1> SUFFICES ASSUME \A k \in 1..n : R[k] = 0 PROVE FirstDifference(results) = {0}
  OBVIOUS
<1>1. 0 \in FirstDifference(results)
  <2>1. n + 1 \in 1..(n + 1) /\ n + 1 > n /\ \A i \in 1..n : 0 \in results[i]
    OBVIOUS
  <2> QED
    BY <2>1 DEF FirstDifference
<1>2. ASSUME NEW c \in FirstDifference(results) PROVE c = 0
  <2>1. PICK k \in 1..(n + 1) : IF k > n THEN c = 0 ELSE c # 0 /\ c \in results[k]
    BY DEF FirstDifference
  <2> QED
    BY <2>1
<1> QED
  BY <1>1, <1>2

LEMMA SomeDifference ==
  ASSUME NEW n \in Nat, NEW R, \A k \in 1..n : R[k] \in {-1, 0, 1},
         \E k \in 1..n : R[k] # 0
  PROVE  \E d \in {-1, 1} : \E m \in 1..n : (\A i \in 1..(m - 1) : R[i] = 0) /\ R[m] = d
<1> DEFINE D == {m \in 1..n : R[m] # 0}
<1>1. PICK m \in D : \A i \in D : m <= i
  <2>1. D \subseteq Nat /\ D # {}
    OBVIOUS
  <2> HIDE DEF D
  <2> QED
    BY <2>1, LeastElement
<1>2. m \in 1..n /\ R[m] \in {-1, 1}
  OBVIOUS
<1>3. ASSUME NEW i \in 1..(m - 1) PROVE R[i] = 0
  <2>1. i \in 1..n /\ ~(m <= i)
    BY <1>2
  <2> QED
    BY <1>1, <2>1
<1> QED
  BY <1>2, <1>3

\* comparing two tuples column by column
ColumnComparison(columns, x, y, k) ==
  IF Value(columns, x, k) < Value(columns, y, k) THEN -1
  ELSE IF Value(columns, y, k) < Value(columns, x, k) THEN 1 ELSE 0

LEMMA DirectedCompareIsLexicographic ==
  ASSUME NEW signature, OneSignature(signature), ColumnsExist(signature), NEW o \in Orders,
         NEW x \in Tuples, NEW y \in Tuples
  PROVE  LET columns == Columns(o, signature)
         IN  DirectedCompare(columns, x, y) = {-1} <=> LexicographicallyLess(columns, x, y)
<1> DEFINE columns == Columns(o, signature)
           n == Len(columns)
           R == [k \in 1..n |-> ColumnComparison(columns, x, y, k)]
           results == [k \in 1..n |->
             LET cs == compare_to(x[columns[k].index], y[columns[k].index])
             IN  IF columns[k].direction = "ASC" THEN cs ELSE Reversed(cs)]
<1>1. n \in Nat /\ \A k \in 1..n : columns[k].index \in 1..Len(signature)
  BY ColumnsAreColumns
<1>2. ASSUME NEW k \in 1..n
      PROVE  /\ results[k] = {R[k]} /\ R[k] \in {-1, 0, 1}
             /\ R[k] = 0 <=> Value(columns, x, k) = Value(columns, y, k)
             /\ R[k] = -1 <=> Value(columns, x, k) < Value(columns, y, k)
  <2> DEFINE f == x[columns[k].index]
             g == y[columns[k].index]
  <2>1. /\ f \in IntFields \cup DoubleFields \cup UuidFields
        /\ g \in IntFields \cup DoubleFields \cup UuidFields
        /\ f.type = g.type /\ f.value # NaN /\ g.value # NaN
    BY <1>1 DEF OneSignature
  <2>2. /\ f.value \in Int /\ g.value \in Int
        /\ compare_to(f, g) =
             {IF f.value < g.value THEN -1 ELSE IF g.value < f.value THEN 1 ELSE 0}
    BY <2>1, FieldsCompare
  <2> HIDE DEF f, g
  <2>3. R[k] = ColumnComparison(columns, x, y, k)
    OBVIOUS
  <2>4. results[k] = IF columns[k].direction = "ASC" THEN compare_to(f, g)
                     ELSE Reversed(compare_to(f, g))
    BY DEF f, g
  <2>5. /\ Value(columns, x, k) = IF columns[k].direction = "ASC" THEN f.value ELSE -f.value
        /\ Value(columns, y, k) = IF columns[k].direction = "ASC" THEN g.value ELSE -g.value
    BY DEF Value, f, g
  <2> HIDE DEF R, results, columns
  <2>6. \A c : Reversed({c}) = {-c}
    BY DEF Reversed
  <2>7. CASE columns[k].direction = "ASC"
    BY <2>2, <2>3, <2>4, <2>5, <2>7 DEF ColumnComparison
  <2>8. CASE columns[k].direction # "ASC"
    <3>1. results[k] =
            {-(IF f.value < g.value THEN -1 ELSE IF g.value < f.value THEN 1 ELSE 0)}
      BY <2>2, <2>4, <2>6, <2>8
    <3> QED
      BY <2>2, <2>3, <2>5, <2>8, <3>1 DEF ColumnComparison
  <2> QED
    BY <2>7, <2>8
<1>3. DOMAIN results = 1..n /\ Len(results) = n
  BY <1>1
<1>4. DirectedCompare(columns, x, y) = FirstDifference(results)
  BY DEF DirectedCompare
<1> HIDE DEF R, results, n
<1>5. FirstDifference(results) = {-1} <=>
        \E k \in 1..n : (\A i \in 1..(k - 1) : R[i] = 0) /\ R[k] = -1
  <2>1. n \in Nat
    BY <1>1
  <2>2. \A k \in 1..n : results[k] = {R[k]} /\ R[k] \in {-1, 0, 1}
    BY <1>2
  <2> QED
    BY <2>1, <2>2, <1>3, FirstDifferenceSettles
<1>6. \A k \in 1..n : \A i \in 1..(k - 1) : i \in 1..n
  BY <1>1
<1>7. \A k \in 1..n :
        /\ R[k] = 0 <=> Value(columns, x, k) = Value(columns, y, k)
        /\ R[k] = -1 <=> Value(columns, x, k) < Value(columns, y, k)
  BY <1>2
<1> HIDE DEF columns
<1>8. FirstDifference(results) = {-1} <=> LexicographicallyLess(columns, x, y)
  BY <1>5, <1>6, <1>7 DEF LexicographicallyLess, n
<1> QED
  BY <1>4, <1>8 DEF columns

(***************************************************************************)
(* Being less is asymmetric, and not being less is transitive.             *)
(***************************************************************************)
LEMMA LessIsAsymmetric ==
  ASSUME NEW columns, NEW x, NEW y, Len(columns) \in Nat,
         \A k \in 1..Len(columns) : Value(columns, x, k) \in Int /\ Value(columns, y, k) \in Int,
         LexicographicallyLess(columns, x, y)
  PROVE  ~LexicographicallyLess(columns, y, x)
<1> SUFFICES ASSUME LexicographicallyLess(columns, y, x) PROVE FALSE
  OBVIOUS
<1>1. PICK k \in 1..Len(columns) :
        /\ \A i \in 1..(k - 1) : Value(columns, x, i) = Value(columns, y, i)
        /\ Value(columns, x, k) < Value(columns, y, k)
  BY DEF LexicographicallyLess
<1>2. PICK m \in 1..Len(columns) :
        /\ \A i \in 1..(m - 1) : Value(columns, y, i) = Value(columns, x, i)
        /\ Value(columns, y, m) < Value(columns, x, m)
  BY DEF LexicographicallyLess
<1>3. CASE k < m
  <2>1. k \in 1..(m - 1)
    BY <1>3
  <2> QED
    BY <1>1, <1>2, <2>1
<1>4. CASE m < k
  <2>1. m \in 1..(k - 1)
    BY <1>4
  <2> QED
    BY <1>1, <1>2, <2>1
<1>5. CASE k = m
  BY <1>1, <1>2, <1>5
<1> QED
  BY <1>3, <1>4, <1>5

LEMMA NotLessIsTransitive ==
  ASSUME NEW columns, NEW x, NEW y, NEW z, Len(columns) \in Nat,
         \A k \in 1..Len(columns) :
           /\ Value(columns, x, k) \in Int /\ Value(columns, y, k) \in Int
           /\ Value(columns, z, k) \in Int,
         ~LexicographicallyLess(columns, y, x), ~LexicographicallyLess(columns, z, y)
  PROVE  ~LexicographicallyLess(columns, z, x)
<1> DEFINE n == Len(columns)
           X(k) == Value(columns, x, k)
           Y(k) == Value(columns, y, k)
           Z(k) == Value(columns, z, k)
<1> SUFFICES ASSUME LexicographicallyLess(columns, z, x) PROVE FALSE
  OBVIOUS
<1>1. PICK k \in 1..n : (\A i \in 1..(k - 1) : Z(i) = X(i)) /\ Z(k) < X(k)
  BY DEF LexicographicallyLess
<1> DEFINE D == {i \in 1..k : Y(i) # X(i) \/ Y(i) # Z(i)}
<1>2. k \in D
  BY <1>1
<1>3. PICK m \in D : \A i \in D : m <= i
  <2>1. D \subseteq Nat /\ D # {}
    BY <1>2
  <2> HIDE DEF D
  <2> QED
    BY <2>1, LeastElement
<1>4. m \in 1..n /\ m \in 1..k /\ X(m) \in Int /\ Y(m) \in Int /\ Z(m) \in Int
  BY <1>3
<1>5. \A i \in 1..(m - 1) : Y(i) = X(i) /\ Z(i) = Y(i)
  <2> SUFFICES ASSUME NEW i \in 1..(m - 1) PROVE Y(i) = X(i) /\ Z(i) = Y(i)
    OBVIOUS
  <2>1. i \in 1..k /\ ~(m <= i)
    BY <1>4
  <2> QED
    BY <1>3, <2>1
<1>6. ~(Y(m) < X(m))
  BY <1>4, <1>5 DEF LexicographicallyLess
<1>7. ~(Z(m) < Y(m))
  BY <1>4, <1>5 DEF LexicographicallyLess
<1>8. Z(m) <= X(m)
  <2>1. CASE m = k
    BY <1>1, <1>4, <2>1
  <2>2. CASE m # k
    <3>1. m \in 1..(k - 1)
      BY <1>4, <2>2
    <3> QED
      BY <1>1, <1>4, <3>1
  <2> QED
    BY <2>1, <2>2
<1>9. X(m) = Y(m) /\ Y(m) = Z(m)
  BY <1>4, <1>6, <1>7, <1>8
<1>10. Y(m) # X(m) \/ Y(m) # Z(m)
  BY <1>3
<1> QED
  BY <1>9, <1>10

-----------------------------------------------------------------------------
(***************************************************************************)
(* The same of the multiset's comparator.                                  *)
(***************************************************************************)
LEMMA PrefixCompareIsDirected ==
  ASSUME NEW signature, OneSignature(signature), NEW x \in Tuples, NEW y \in Tuples
  PROVE  PrefixCompare(x, y) = DirectedCompare(Default(Len(signature)), x, y)
<1> DEFINE n == Len(signature)
<1>1. n \in Nat /\ Len(x) = n /\ Len(y) = n
  BY DEF OneSignature
<1> HIDE DEF n
<1>2. Len(Default(n)) = n
  BY <1>1 DEF Default
<1>3. \A i \in 1..n : Default(n)[i].index = i /\ Default(n)[i].direction = "ASC"
  BY DEF Default
<1>4. [i \in 1..n |-> compare_to(x[i], y[i])]
        = [i \in 1..Len(Default(n)) |->
             LET cs == compare_to(x[Default(n)[i].index], y[Default(n)[i].index])
             IN  IF Default(n)[i].direction = "ASC" THEN cs ELSE Reversed(cs)]
  BY <1>2, <1>3
<1>5. PrefixCompare(x, y) = FirstDifference([i \in 1..n |-> compare_to(x[i], y[i])])
  BY <1>1 DEF PrefixCompare
<1>6. DirectedCompare(Default(n), x, y)
        = FirstDifference([i \in 1..Len(Default(n)) |->
             LET cs == compare_to(x[Default(n)[i].index], y[Default(n)[i].index])
             IN  IF Default(n)[i].direction = "ASC" THEN cs ELSE Reversed(cs)])
  BY DEF DirectedCompare
<1> QED
  BY <1>4, <1>5, <1>6 DEF n

LEMMA BeforeIsLess ==
  ASSUME NEW signature, OneSignature(signature), ColumnsExist(signature), order \in Orders,
         NEW x \in Tuples, NEW y \in Tuples
  PROVE  Before(x, y) <=> LexicographicallyLess(Columns(order, signature), x, y)
<1>1. Compare(x, y) = DirectedCompare(Columns(order, signature), x, y)
  BY PrefixCompareIsDirected DEF Compare, Columns
<1> QED
  BY <1>1, DirectedCompareIsLexicographic DEF Before

LEMMA BeforeIsAStrictWeakOrder ==
  ASSUME NEW signature, OneSignature(signature), ColumnsExist(signature), order \in Orders
  PROVE  /\ \A x, y \in Tuples : Before(x, y) => ~Before(y, x)
         /\ \A x, y, z \in Tuples : ~Before(y, x) /\ ~Before(z, y) => ~Before(z, x)
<1> DEFINE columns == Columns(order, signature)
<1>1. Len(columns) \in Nat
  BY ColumnsAreColumns
<1>2. \A t \in Tuples : \A k \in 1..Len(columns) : Value(columns, t, k) \in Int
  BY ValuesAreIntegers
<1>3. \A x, y \in Tuples : Before(x, y) <=> LexicographicallyLess(columns, x, y)
  BY BeforeIsLess
<1> HIDE DEF columns
<1>4. \A x, y \in Tuples : Before(x, y) => ~Before(y, x)
  BY <1>1, <1>2, <1>3, LessIsAsymmetric
<1>5. ASSUME NEW x \in Tuples, NEW y \in Tuples, NEW z \in Tuples,
             ~Before(y, x), ~Before(z, y)
      PROVE  ~Before(z, x)
  BY <1>1, <1>2, <1>3, <1>5, NotLessIsTransitive
<1> QED
  BY <1>4, <1>5

-----------------------------------------------------------------------------
(***************************************************************************)
(* The invariant: the multiset holds tuples, in order.                     *)
(***************************************************************************)
IInv ==
  /\ order \in Orders
  /\ tuples \in Seq(Tuples)
  /\ PageIsSorted

LEMMA InsertKeepsOrder ==
  ASSUME NEW signature, OneSignature(signature), ColumnsExist(signature), IInv,
         NEW t \in Tuples, NEW p \in InsertPositions(t)
  PROVE  /\ InsertAt(tuples, p, t) \in Seq(Tuples)
         /\ \A i, j \in 1..Len(InsertAt(tuples, p, t)) :
              i < j => ~Before(InsertAt(tuples, p, t)[j], InsertAt(tuples, p, t)[i])
<1> DEFINE n == Len(tuples)
           r == InsertAt(tuples, p, t)
<1>1. n \in Nat /\ tuples \in Seq(Tuples) /\ \A i \in 1..n : tuples[i] \in Tuples
  BY DEF IInv
<1>2. p \in 1..(n + 1)
  BY DEF InsertPositions
<1>3. p # 1 => ~Before(t, tuples[p - 1])
  BY DEF InsertPositions
<1>4. p # n + 1 => Before(t, tuples[p])
  BY DEF InsertPositions
<1>5. /\ \A x, y \in Tuples : Before(x, y) => ~Before(y, x)
      /\ \A x, y, z \in Tuples : ~Before(y, x) /\ ~Before(z, y) => ~Before(z, x)
  BY BeforeIsAStrictWeakOrder DEF IInv
<1>6. \A i, j \in 1..n : i < j => ~Before(tuples[j], tuples[i])
  BY DEF IInv, PageIsSorted, Positions
<1>7. ASSUME NEW k \in 1..n, k < p PROVE ~Before(t, tuples[k])
  <2>1. p - 1 \in 1..n /\ p # 1 /\ (k = p - 1 \/ k < p - 1)
    BY <1>1, <1>2, <1>7
  <2> QED
    BY <1>1, <1>3, <1>5, <1>6, <2>1
<1>8. ASSUME NEW k \in 1..n, ~(k < p) PROVE ~Before(tuples[k], t)
  <2>1. p \in 1..n /\ p # n + 1 /\ (k = p \/ p < k)
    BY <1>1, <1>2, <1>8
  <2>2. ~Before(tuples[p], t)
    BY <1>1, <1>4, <1>5, <2>1
  <2> QED
    BY <1>1, <1>5, <1>6, <2>1, <2>2
<1>9. r \in Seq(Tuples) /\ InsertedAt(r, tuples, p, t)
  BY <1>1, <1>2, InsertAtProperties, SourcesOfInsertAt
<1> HIDE DEF r
<1>10. ASSUME NEW i \in 1..Len(r), NEW j \in 1..Len(r), i < j
       PROVE  ~Before(r[j], r[i])
  <2>1. CASE i # p /\ j # p
    <3>1. /\ Source(p, i) \in 1..n /\ Source(p, j) \in 1..n /\ Source(p, i) < Source(p, j)
          /\ r[i] = tuples[Source(p, i)] /\ r[j] = tuples[Source(p, j)]
      BY <1>9, <1>10, <2>1 DEF InsertedAt
    <3> QED
      BY <1>6, <3>1
  <2>2. CASE i = p
    <3>1. Source(p, j) \in 1..n /\ r[j] = tuples[Source(p, j)] /\ r[i] = t
      BY <1>2, <1>9, <1>10, <2>2 DEF InsertedAt
    <3>2. ~(Source(p, j) < p)
      BY <1>1, <1>2, <1>9, <1>10, <2>2 DEF Source, InsertedAt
    <3> QED
      BY <1>8, <3>1, <3>2
  <2>3. CASE j = p
    <3>1. Source(p, i) \in 1..n /\ r[i] = tuples[Source(p, i)] /\ r[j] = t
      BY <1>2, <1>9, <1>10, <2>3 DEF InsertedAt
    <3>2. Source(p, i) < p
      BY <1>1, <1>2, <1>9, <1>10, <2>3 DEF Source, InsertedAt
    <3> QED
      BY <1>7, <3>1, <3>2
  <2> QED
    BY <2>1, <2>2, <2>3
<1> QED
  BY <1>9, <1>10 DEF r

LEMMA EraseKeepsOrder ==
  ASSUME IInv, NEW p \in Positions
  PROVE  /\ RemoveAt(tuples, p) \in Seq(Tuples)
         /\ \A i, j \in 1..Len(RemoveAt(tuples, p)) :
              i < j => ~Before(RemoveAt(tuples, p)[j], RemoveAt(tuples, p)[i])
<1> DEFINE n == Len(tuples)
           r == RemoveAt(tuples, p)
<1>1. tuples \in Seq(Tuples) /\ p \in 1..n
  BY DEF IInv, Positions
<1>2. r \in Seq(Tuples) /\ RemovedAt(r, tuples, p)
  BY <1>1, RemoveAtProperties, SourcesOfRemoveAt
<1> HIDE DEF r
<1>3. ASSUME NEW i \in 1..Len(r), NEW j \in 1..Len(r), i < j PROVE ~Before(r[j], r[i])
  <2>1. /\ SourceWithout(p, i) \in 1..n /\ SourceWithout(p, j) \in 1..n
        /\ SourceWithout(p, i) < SourceWithout(p, j)
        /\ r[i] = tuples[SourceWithout(p, i)] /\ r[j] = tuples[SourceWithout(p, j)]
    BY <1>2, <1>3 DEF RemovedAt
  <2> QED
    BY <2>1 DEF IInv, PageIsSorted, Positions
<1> QED
  BY <1>2, <1>3 DEF r

LEMMA NextPreservesIInv ==
  ASSUME NEW signature, OneSignature(signature), ColumnsExist(signature)
  PROVE  IInv /\ [Next]_vars => IInv'
<1> SUFFICES ASSUME IInv, [Next]_vars PROVE IInv'
  OBVIOUS
<1>1. UNCHANGED order
  BY DEF Next, Insert, Erase, vars
<1>2. ASSUME NEW t \in Tuples, Insert(t) PROVE IInv'
  <2>1. PICK p \in InsertPositions(t) : tuples' = InsertAt(tuples, p, t)
    BY <1>2 DEF Insert
  <2>2. /\ tuples' \in Seq(Tuples)
        /\ \A i, j \in 1..Len(tuples') : i < j => ~Before(tuples'[j], tuples'[i])
    BY <2>1, InsertKeepsOrder
  <2> QED
    BY <1>1, <2>2 DEF IInv, PageIsSorted, Positions, Before, Compare
<1>3. ASSUME NEW p \in Positions, Erase(p) PROVE IInv'
  <2>1. /\ tuples' \in Seq(Tuples)
        /\ \A i, j \in 1..Len(tuples') : i < j => ~Before(tuples'[j], tuples'[i])
    BY <1>3, EraseKeepsOrder DEF Erase
  <2> QED
    BY <1>1, <2>1 DEF IInv, PageIsSorted, Positions, Before, Compare
<1>4. CASE UNCHANGED vars
  BY <1>4 DEF IInv, PageIsSorted, Positions, Before, Compare, vars
<1> QED
  BY <1>2, <1>3, <1>4 DEF Next

(***************************************************************************)
(* Whatever tuples of one signature are inserted and erased, and whatever  *)
(* columns they are sorted by, no tuple of a page is behind one that its   *)
(* comparator orders before it (the comment on m_tuples,                   *)
(* InMemorySortedPage.h:29), as long as there is no NaN among them.        *)
(***************************************************************************)
THEOREM PageStaysSorted ==
  ASSUME NEW CONSTANT signature, OneSignature(signature), ColumnsExist(signature)
  PROVE  Spec => []PageIsSorted
<1>1. Init => IInv
  BY DEF Init, IInv, PageIsSorted, Positions
<1>2. IInv /\ [Next]_vars => IInv'
  BY NextPreservesIInv
<1>3. IInv => PageIsSorted
  BY DEF IInv
<1> QED
  BY <1>1, <1>2, <1>3, PTL DEF Spec

(***************************************************************************)
(* A page sorted by columns is sorted by the first of them, and wherever   *)
(* tuples agree on the first ones by the next, each in its direction.      *)
(***************************************************************************)
THEOREM ColumnsStaySorted ==
  ASSUME NEW CONSTANT signature, OneSignature(signature), ColumnsExist(signature)
  PROVE  Spec => []ColumnsAreSorted
<1>1. ASSUME IInv PROVE ColumnsAreSorted
  <2> SUFFICES ASSUME NEW n \in 1..Len(order), NEW i \in Positions, NEW j \in Positions, i < j,
                      \A m \in 1..(n - 1) :
                        tuples[i][order[m].index] = tuples[j][order[m].index]
               PROVE  IF order[n].direction = "ASC"
                      THEN tuples[i][order[n].index].value <= tuples[j][order[n].index].value
                      ELSE tuples[j][order[n].index].value <= tuples[i][order[n].index].value
    BY DEF ColumnsAreSorted
  <2> DEFINE x == tuples[i]
             y == tuples[j]
  <2>1. order \in Orders /\ order # <<>> /\ Columns(order, signature) = order
    BY <1>1 DEF IInv, Columns
  <2>2. x \in Tuples /\ y \in Tuples /\ ~Before(y, x)
    BY <1>1 DEF IInv, PageIsSorted, Positions
  <2>3. ~LexicographicallyLess(order, y, x)
    BY <2>1, <2>2, BeforeIsLess
  <2>4. Len(order) \in Nat /\ Value(order, x, n) \in Int /\ Value(order, y, n) \in Int
    BY <2>1, <2>2, ValuesAreIntegers, ColumnsAreColumns
  <2>5. \A m \in 1..(n - 1) : Value(order, y, m) = Value(order, x, m)
    BY DEF Value
  <2>6. ~(Value(order, y, n) < Value(order, x, n))
    BY <2>3, <2>5 DEF LexicographicallyLess
  <2>7. x[order[n].index].value \in Int /\ y[order[n].index].value \in Int
    <3> DEFINE c == order[n].index
    <3>1. c \in 1..Len(signature)
      BY <2>1, ColumnsAreColumns
    <3>2. /\ x[c] \in IntFields \cup DoubleFields \cup UuidFields /\ x[c].value # NaN
          /\ y[c] \in IntFields \cup DoubleFields \cup UuidFields /\ y[c].value # NaN
      BY <2>2, <3>1 DEF OneSignature
    <3> QED
      BY <3>2, FieldsCompare
  <2> QED
    BY <2>4, <2>6, <2>7 DEF Value
<1>2. Init => IInv
  BY DEF Init, IInv, PageIsSorted, Positions
<1>3. IInv /\ [Next]_vars => IInv'
  BY NextPreservesIInv
<1> QED
  BY <1>1, <1>2, <1>3, PTL DEF Spec

-----------------------------------------------------------------------------
(***************************************************************************)
(* Search keys.  A key's fields are of the types of the tuples', and not   *)
(* NaN, except that a double may be searched for among ints if it is one.  *)
(***************************************************************************)
KeysFit(signature) ==
  \A k \in Keys :
    /\ Len(k) \in Nat
    /\ \A i \in 1..Len(k) : i <= Len(signature) =>
         /\ k[i] \in IntFields \cup DoubleFields \cup UuidFields /\ k[i].value # NaN
         /\ \/ k[i].type = signature[i]
            \/ /\ signature[i] = "int" /\ k[i].type = "double"
               /\ \E n \in Ints : k[i].value = 2 * n

\* a key as a tuple of the signature
Normalized(k, signature) ==
  [i \in 1..Len(k) |->
     [type |-> signature[i],
      value |-> IF k[i].type = signature[i] THEN k[i].value ELSE k[i].value \div 2]]

\* the columns that a search compares
Common(k, signature) == Default(IF Len(signature) < Len(k) THEN Len(signature) ELSE Len(k))

Sign(v, w) == IF v < w THEN -1 ELSE IF w < v THEN 1 ELSE 0

\* a double that is twice an int in halves, and an int
LEMMA WholeDoublesCompare ==
  ASSUME NEW f \in IntFields, NEW g \in DoubleFields, g.value # NaN,
         NEW n \in Ints, g.value = 2 * n
  PROVE  /\ g.value \div 2 = n /\ n \in Int /\ f.value \in Int
         /\ compare_to(f, g) = {Sign(f.value, n)}
         /\ compare_to(g, f) = {Sign(n, f.value)}
<1>1. f.type = "int" /\ g.type = "double" /\ f.value \in Ints
  BY DEF IntFields, DoubleFields
<1>2. n \in Int /\ f.value \in Int
  BY <1>1, FieldsAssumption DEF Ints
<1>3. (2 * n) \div 2 = n /\ -((-(2 * n)) \div 2) = n
  BY <1>2
<1>4. Truncated(g.value) = n
  BY <1>2, <1>3 DEF Truncated
<1>5. Converted(f.type, g) = {n}
  BY <1>1, <1>4 DEF Converted, get_int, CastToInt
<1>6. Converted(g.type, f) = {2 * f.value}
  BY <1>1 DEF Converted, get_double
<1>7. n # NaN /\ f.value # NaN /\ 2 * f.value # NaN
  BY <1>2, FieldsAssumption
<1>8. compare_to(f, g) = {compare_with_less(f.value, n)}
  BY <1>5 DEF compare_to
<1>9. compare_to(g, f) = {compare_with_less(g.value, 2 * f.value)}
  BY <1>6 DEF compare_to
<1>10. compare_with_less(f.value, n) = Sign(f.value, n)
  BY <1>2, <1>7 DEF compare_with_less, Less, Sign
<1>11. compare_with_less(2 * n, 2 * f.value) = Sign(n, f.value)
  <2>1. 2 * n # NaN
    BY <1>2, FieldsAssumption
  <2>2. (2 * n < 2 * f.value <=> n < f.value) /\ (2 * f.value < 2 * n <=> f.value < n)
    BY <1>2
  <2> QED
    BY <1>7, <2>1, <2>2 DEF compare_with_less, Less, Sign
<1> QED
  BY <1>2, <1>3, <1>8, <1>9, <1>10, <1>11

FieldsOfKeyCompare(signature, t, k) ==
  \A i \in 1..Len(signature) : i \in 1..Len(k) =>
    /\ t[i].value \in Int /\ Normalized(k, signature)[i].value \in Int
    /\ compare_to(t[i], k[i]) = {Sign(t[i].value, Normalized(k, signature)[i].value)}
    /\ compare_to(k[i], t[i]) = {Sign(Normalized(k, signature)[i].value, t[i].value)}

\* comparing a tuple's field with a key's, whichever of the two is asked
LEMMA KeyFieldsCompare ==
  ASSUME NEW signature, OneSignature(signature), KeysFit(signature),
         NEW t \in Tuples, NEW k \in Keys
  PROVE  FieldsOfKeyCompare(signature, t, k)
<1> SUFFICES
      ASSUME NEW i \in 1..Len(signature), i \in 1..Len(k)
      PROVE  /\ t[i].value \in Int /\ Normalized(k, signature)[i].value \in Int
             /\ compare_to(t[i], k[i]) = {Sign(t[i].value, Normalized(k, signature)[i].value)}
             /\ compare_to(k[i], t[i]) = {Sign(Normalized(k, signature)[i].value, t[i].value)}
  BY DEF FieldsOfKeyCompare
<1> DEFINE f == t[i]
           g == k[i]
           v == Normalized(k, signature)[i].value
<1>1. /\ f \in IntFields \cup DoubleFields \cup UuidFields /\ f.value # NaN
      /\ f.type = signature[i]
  BY DEF OneSignature
<1>2. /\ g \in IntFields \cup DoubleFields \cup UuidFields /\ g.value # NaN
      /\ \/ g.type = signature[i]
         \/ signature[i] = "int" /\ g.type = "double" /\ \E n \in Ints : g.value = 2 * n
  <2>1. i <= Len(signature)
    BY DEF OneSignature
  <2> QED
    BY <2>1 DEF KeysFit
<1>3. v = IF g.type = signature[i] THEN g.value ELSE g.value \div 2
  BY DEF Normalized
<1> HIDE DEF f, g, v
<1>4. CASE g.type = signature[i]
  BY <1>1, <1>2, <1>3, <1>4, FieldsCompare DEF f, g, v, Sign
<1>5. CASE g.type # signature[i]
  <2>1. PICK n \in Ints : g.value = 2 * n
    BY <1>2, <1>5
  <2>2. f \in IntFields /\ g \in DoubleFields
    BY <1>1, <1>2, <1>5 DEF IntFields, DoubleFields, UuidFields
  <2> QED
    BY <1>2, <1>3, <1>5, <2>1, <2>2, WholeDoublesCompare DEF f, g, v
<1> QED
  BY <1>4, <1>5

\* A tuple and a key compare as the tuple and the normalized key do, in the
\* columns that both have.
KeyLess(k, signature, x, y) == LexicographicallyLess(Common(k, signature), x, y)

LEMMA KeysCompare ==
  ASSUME NEW signature, OneSignature(signature), KeysFit(signature),
         NEW t \in Tuples, NEW k \in Keys
  PROVE  LET key == Normalized(k, signature)
         IN  /\ PrefixCompare(t, k) = Reversed(PrefixCompare(k, t))
             /\ PrefixCompare(t, k) = {-1} <=> KeyLess(k, signature, t, key)
             /\ PrefixCompare(k, t) = {-1} <=> KeyLess(k, signature, key, t)
             /\ PrefixCompare(t, k) = {0} <=>
                  ~KeyLess(k, signature, t, key) /\ ~KeyLess(k, signature, key, t)
<1> DEFINE key == Normalized(k, signature)
           columns == Common(k, signature)
           n == IF Len(signature) < Len(k) THEN Len(signature) ELSE Len(k)
           R == [i \in 1..n |-> Sign(t[i].value, key[i].value)]
           Q == [i \in 1..n |-> Sign(key[i].value, t[i].value)]
           there == [i \in 1..n |-> compare_to(t[i], k[i])]
           back == [i \in 1..n |-> compare_to(k[i], t[i])]
<1>1. Len(signature) \in Nat /\ Len(k) \in Nat /\ n \in Nat /\ Len(t) = Len(signature)
  BY DEF OneSignature, KeysFit
<1>2. \A i \in 1..n : i \in 1..Len(signature) /\ i \in 1..Len(k)
  BY <1>1
<1>3. PrefixCompare(t, k) = FirstDifference(there)
  BY <1>1 DEF PrefixCompare
<1>4. PrefixCompare(k, t) = FirstDifference(back)
  <2>1. (IF Len(k) < Len(t) THEN Len(k) ELSE Len(t)) = n
    BY <1>1
  <2> QED
    BY <2>1 DEF PrefixCompare
<1>5. Len(columns) = n /\ \A i \in 1..n : columns[i].index = i /\ columns[i].direction = "ASC"
  BY <1>1 DEF Common, Default
<1>6. /\ DOMAIN there = 1..n /\ Len(there) = n /\ DOMAIN back = 1..n /\ Len(back) = n
  BY <1>1
<1>19. FieldsOfKeyCompare(signature, t, k)
  BY KeyFieldsCompare
<1> HIDE DEF n, key, columns
<1>7. ASSUME NEW i \in 1..n
      PROVE  /\ t[i].value \in Int /\ key[i].value \in Int
             /\ there[i] = {R[i]} /\ back[i] = {Q[i]}
             /\ Value(columns, t, i) = t[i].value /\ Value(columns, key, i) = key[i].value
  <2>1. /\ t[i].value \in Int /\ key[i].value \in Int
        /\ compare_to(t[i], k[i]) = {Sign(t[i].value, key[i].value)}
        /\ compare_to(k[i], t[i]) = {Sign(key[i].value, t[i].value)}
    BY <1>2, <1>19 DEF FieldsOfKeyCompare, key
  <2>2. there[i] = {R[i]} /\ back[i] = {Q[i]}
    BY <2>1
  <2>3. Value(columns, t, i) = t[i].value /\ Value(columns, key, i) = key[i].value
    BY <1>5 DEF Value
  <2> QED
    BY <2>1, <2>2, <2>3
<1>8. ASSUME NEW i \in 1..n
      PROVE  /\ R[i] \in {-1, 0, 1} /\ Q[i] \in {-1, 0, 1} /\ R[i] = -Q[i]
             /\ R[i] = 0 <=> Value(columns, t, i) = Value(columns, key, i)
             /\ Q[i] = 0 <=> Value(columns, key, i) = Value(columns, t, i)
             /\ R[i] = -1 <=> Value(columns, t, i) < Value(columns, key, i)
             /\ Q[i] = -1 <=> Value(columns, key, i) < Value(columns, t, i)
  BY <1>7 DEF Sign
<1> HIDE DEF R, Q, there, back
<1> DEFINE Decides(S, d) == \E m \in 1..n : (\A i \in 1..(m - 1) : S[i] = 0) /\ S[m] = d
<1>9. /\ n \in Nat
      /\ DOMAIN there = 1..n /\ Len(there) = n
      /\ \A i \in 1..n : there[i] = {R[i]} /\ R[i] \in {-1, 0, 1}
  BY <1>1, <1>6, <1>7, <1>8
<1>10. /\ n \in Nat
       /\ DOMAIN back = 1..n /\ Len(back) = n
       /\ \A i \in 1..n : back[i] = {Q[i]} /\ Q[i] \in {-1, 0, 1}
  BY <1>1, <1>6, <1>7, <1>8
<1>11. \A d \in {-1, 1} : FirstDifference(there) = {d} <=> Decides(R, d)
  BY <1>9, FirstDifferenceSettles
<1>21. \A d \in {-1, 1} : FirstDifference(back) = {d} <=> Decides(Q, d)
  BY <1>10, FirstDifferenceSettles
<1>22. (\A i \in 1..n : R[i] = 0) => FirstDifference(there) = {0}
  BY <1>9, NoDifference
<1>23. (\A i \in 1..n : Q[i] = 0) => FirstDifference(back) = {0}
  BY <1>10, NoDifference
<1>24. ASSUME NEW i \in 1..n, R[i] # 0 PROVE Decides(R, -1) \/ Decides(R, 1)
  <2>1. (\A j \in 1..n : R[j] \in {-1, 0, 1}) /\ \E j \in 1..n : R[j] # 0
    BY <1>9, <1>24
  <2>2. \E d \in {-1, 1} : \E m \in 1..n : (\A j \in 1..(m - 1) : R[j] = 0) /\ R[m] = d
    BY <1>1, <2>1, SomeDifference
  <2> QED
    BY <2>2
<1>12. \A m \in 1..n : \A i \in 1..(m - 1) : i \in 1..n
  BY <1>1
<1>13. (Decides(R, -1) <=> Decides(Q, 1)) /\ (Decides(R, 1) <=> Decides(Q, -1))
  <2>1. \A i \in 1..n : /\ R[i] = 0 <=> Q[i] = 0
                        /\ R[i] = -1 <=> Q[i] = 1
                        /\ R[i] = 1 <=> Q[i] = -1
    BY <1>8
  <2> QED
    BY <1>12, <2>1
<1>14. /\ Decides(R, -1) <=> KeyLess(k, signature, t, key)
       /\ Decides(Q, -1) <=> KeyLess(k, signature, key, t)
  BY <1>5, <1>8, <1>12 DEF KeyLess, LexicographicallyLess, columns
<1> HIDE DEF Decides
<1>15. \A c : Reversed({c}) = {-c}
  BY DEF Reversed
<1>16. CASE \A i \in 1..n : R[i] = 0
  <2>1. FirstDifference(there) = {0} /\ FirstDifference(back) = {0}
    BY <1>8, <1>22, <1>23, <1>16
  <2>2. ~Decides(R, -1) /\ ~Decides(Q, -1)
    <3>1. {0} # {-1}
      <4>1. 0 \in {0} /\ 0 \notin {-1}
        OBVIOUS
      <4> QED
        BY <4>1
    <3> QED
      BY <1>11, <1>21, <2>1, <3>1
  <2>3. Reversed({0}) = {0}
    BY <1>15
  <2> QED
    BY <1>3, <1>4, <1>14, <2>1, <2>2, <2>3 DEF key
<1>17. CASE Decides(R, -1)
  <2>1. FirstDifference(there) = {-1} /\ FirstDifference(back) = {1}
    BY <1>11, <1>21, <1>13, <1>17
  <2>2. {-1} # {0} /\ {1} # {-1} /\ Reversed({1}) = {-1}
    BY <1>15
  <2>3. ~Decides(Q, -1)
    BY <1>11, <1>21, <2>1, <2>2
  <2> QED
    BY <1>3, <1>4, <1>14, <1>17, <2>1, <2>2, <2>3 DEF key
<1>18. CASE Decides(R, 1)
  <2>1. FirstDifference(there) = {1} /\ FirstDifference(back) = {-1}
    BY <1>11, <1>21, <1>13, <1>18
  <2>2. {1} # {0} /\ {1} # {-1} /\ Reversed({-1}) = {1}
    BY <1>15
  <2>3. ~Decides(R, -1) /\ Decides(Q, -1)
    BY <1>11, <1>21, <1>13, <1>18, <2>1, <2>2
  <2> QED
    BY <1>3, <1>4, <1>14, <2>1, <2>2, <2>3 DEF key
<1> QED
  BY <1>24, <1>16, <1>17, <1>18

\* in the columns of a key, no tuple is behind one it is before either
LEMMA SortedByPrefix ==
  ASSUME NEW signature, OneSignature(signature), ColumnsExist(signature), KeysFit(signature),
         IInv, order = <<>>, NEW k \in Keys
  PROVE  \A i, j \in Positions : i < j => ~KeyLess(k, signature, tuples[j], tuples[i])
<1> SUFFICES ASSUME NEW i \in Positions, NEW j \in Positions, i < j,
                    KeyLess(k, signature, tuples[j], tuples[i])
             PROVE  FALSE
  OBVIOUS
<1> DEFINE short == Common(k, signature)
           columns == Default(Len(signature))
           x == tuples[i]
           y == tuples[j]
<1>1. x \in Tuples /\ y \in Tuples /\ ~Before(y, x)
  BY DEF IInv, PageIsSorted, Positions
<1>2. ~LexicographicallyLess(columns, y, x)
  BY <1>1, BeforeIsLess DEF IInv, Columns
<1>3. Len(signature) \in Nat /\ Len(k) \in Nat
  BY DEF OneSignature, KeysFit
<1>4. /\ Len(short) \in Nat /\ Len(columns) = Len(signature) /\ Len(short) <= Len(columns)
      /\ \A m \in 1..Len(columns) : columns[m].index = m /\ columns[m].direction = "ASC"
      /\ \A m \in 1..Len(short) : short[m].index = m /\ short[m].direction = "ASC"
  BY <1>3 DEF Common, Default
<1> HIDE DEF short, columns
<1>5. ASSUME NEW m \in 1..Len(short)
      PROVE  /\ m \in 1..Len(columns)
             /\ Value(short, x, m) = Value(columns, x, m)
             /\ Value(short, y, m) = Value(columns, y, m)
  <2>1. m \in 1..Len(columns)
    BY <1>3, <1>4
  <2> QED
    BY <1>4, <2>1 DEF Value
<1>6. PICK m \in 1..Len(short) :
        /\ \A l \in 1..(m - 1) : Value(short, y, l) = Value(short, x, l)
        /\ Value(short, y, m) < Value(short, x, m)
  BY DEF KeyLess, LexicographicallyLess, short
<1>7. \A l \in 1..(m - 1) : l \in 1..Len(short)
  BY <1>4
<1>8. LexicographicallyLess(columns, y, x)
  BY <1>5, <1>6, <1>7 DEF LexicographicallyLess
<1> QED
  BY <1>2, <1>8

LEMMA KeysFindIntervals ==
  ASSUME NEW signature, OneSignature(signature), ColumnsExist(signature), KeysFit(signature),
         IInv
  PROVE  KeysMatchIntervals
<1> SUFFICES ASSUME order = <<>>, NEW k \in Keys
             PROVE  /\ \A i \in Positions : Compare(tuples[i], k) = Reversed(Compare(k, tuples[i]))
                    /\ Found(k) = {i \in Positions : Compare(tuples[i], k) = {0}}
                    /\ \A i, j \in Positions : i < j /\ j \in Found(k) => ~Before(k, tuples[i])
  BY DEF KeysMatchIntervals
<1> DEFINE key == Normalized(k, signature)
           columns == Common(k, signature)
           L(x, y) == LexicographicallyLess(columns, x, y)
<1>1. Len(tuples) \in Nat /\ Positions = 1..Len(tuples) /\ \A i \in Positions : tuples[i] \in Tuples
  BY DEF IInv, Positions
<1>2. ASSUME NEW i \in Positions
      PROVE  /\ Compare(tuples[i], k) = Reversed(Compare(k, tuples[i]))
             /\ Before(tuples[i], k) <=> L(tuples[i], key)
             /\ Before(k, tuples[i]) <=> L(key, tuples[i])
             /\ Compare(tuples[i], k) = {0} <=> ~L(tuples[i], key) /\ ~L(key, tuples[i])
  BY <1>1, KeysCompare DEF Compare, Before, KeyLess
<1>3. \A i, j \in Positions : i < j => ~L(tuples[j], tuples[i])
  BY SortedByPrefix DEF KeyLess
<1>4. Len(columns) \in Nat /\ \A m \in 1..Len(columns) :
        /\ m \in 1..Len(signature) /\ m \in 1..Len(k)
        /\ columns[m].index = m /\ columns[m].direction = "ASC"
  <2>1. Len(signature) \in Nat /\ Len(k) \in Nat
    BY DEF OneSignature, KeysFit
  <2> QED
    BY <2>1 DEF Common, Default
<1>5. ASSUME NEW i \in Positions, NEW m \in 1..Len(columns)
      PROVE  Value(columns, tuples[i], m) \in Int /\ Value(columns, key, m) \in Int
  <2>1. FieldsOfKeyCompare(signature, tuples[i], k)
    BY <1>1, KeyFieldsCompare
  <2>2. tuples[i][m].value \in Int /\ key[m].value \in Int
    BY <1>4, <2>1 DEF FieldsOfKeyCompare
  <2>3. columns[m].index = m /\ columns[m].direction = "ASC"
    BY <1>4
  <2> HIDE DEF key, columns
  <2> QED
    BY <2>2, <2>3 DEF Value
<1> HIDE DEF key, columns
<1>6. ASSUME NEW i \in Positions, NEW j \in Positions, i <= j, ~L(tuples[i], key)
      PROVE  ~L(tuples[j], key)
  <2>1. CASE i = j
    BY <1>6, <2>1
  <2>2. CASE i # j
    <3>1. ~L(tuples[j], tuples[i])
      BY <1>1, <1>3, <1>6, <2>2
    <3> QED
      BY <1>4, <1>5, <1>6, <3>1, NotLessIsTransitive
  <2> QED
    BY <2>1, <2>2
<1>7. ASSUME NEW i \in Positions, NEW j \in Positions, i <= j, ~L(key, tuples[j])
      PROVE  ~L(key, tuples[i])
  <2>1. CASE i = j
    BY <1>7, <2>1
  <2>2. CASE i # j
    <3>1. ~L(tuples[j], tuples[i])
      BY <1>1, <1>3, <1>7, <2>2
    <3> QED
      BY <1>4, <1>5, <1>7, <3>1, NotLessIsTransitive
  <2> QED
    BY <2>1, <2>2
<1> HIDE DEF L
<1>8. ASSUME NEW i \in Positions
      PROVE  i \in Found(k) <=> ~L(tuples[i], key) /\ ~L(key, tuples[i])
  <2>1. i \in Found(k) <=>
          /\ \E j \in 1..i : ~Before(tuples[j], k)
          /\ \A j \in 1..i : ~Before(k, tuples[j])
    BY DEF Found
  <2>2. i \in 1..i /\ \A j \in 1..i : j \in Positions /\ j <= i
    BY <1>1
  <2> QED
    BY <1>2, <1>6, <1>7, <2>1, <2>2
<1>9. Found(k) = {i \in Positions : Compare(tuples[i], k) = {0}}
  <2>1. Found(k) \subseteq Positions
    BY DEF Found
  <2> QED
    BY <1>2, <1>8, <2>1
<1>10. ASSUME NEW i \in Positions, NEW j \in Positions, i < j, j \in Found(k)
       PROVE  ~Before(k, tuples[i])
  <2>1. i <= j
    BY <1>1, <1>10
  <2> QED
    BY <1>2, <1>7, <1>8, <1>10, <2>1
<1> QED
  BY <1>2, <1>9, <1>10

(***************************************************************************)
(* On a page sorted by PrefixTupleComparator, the tuples that compare      *)
(* equal to a key are an interval and the searches find it, for every key  *)
(* of the tuples' types, shorter or longer than they are, and for doubles  *)
(* that are ints.  BTree and InMemorySortedPage take keys for intervals.   *)
(***************************************************************************)
THEOREM KeysFindTheirIntervals ==
  ASSUME NEW CONSTANT signature, OneSignature(signature), ColumnsExist(signature),
         KeysFit(signature)
  PROVE  Spec => []KeysMatchIntervals
<1>1. Init => IInv
  BY DEF Init, IInv, PageIsSorted, Positions
<1>2. IInv /\ [Next]_vars => IInv'
  BY NextPreservesIInv
<1>3. IInv => KeysMatchIntervals
  BY KeysFindIntervals
<1> QED
  BY <1>1, <1>2, <1>3, PTL DEF Spec
===============================================================================
