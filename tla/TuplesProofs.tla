---------------------------- MODULE TuplesProofs ----------------------------
(***************************************************************************)
(* Proofs about Tuples, for every signature, every set of tuples and every *)
(* projection: who owns which memory, what may change it, and what copying *)
(* field after field leaves behind.                                        *)
(***************************************************************************)
EXTENDS Tuples, SequenceLemmas, TLAPS

AllFields == IntFields \cup DoubleFields \cup UuidFields
Buffers == [FreshTuples -> Seq(AllFields)]

\* a field has one of three types, and its value is one of that type
LEMMA FieldTypes ==
  ASSUME NEW f \in AllFields
  PROVE  /\ f = [type |-> f.type, value |-> f.value]
         /\ \/ f.type = "int" /\ f.value \in Ints
            \/ f.type = "double" /\ f.value \in Doubles
            \/ f.type = "uuid" /\ f.value \in Uuids
BY DEF AllFields, IntFields, DoubleFields, UuidFields

\* what is written into a field is a value of its type
LEMMA ConversionIsTyped ==
  ASSUME NEW f \in AllFields, NEW g \in AllFields, NEW v \in Converted(f.type, g)
  PROVE  [f EXCEPT !.value = v] \in AllFields
<1>1. f.type = "int" => v \in Ints
  <2> SUFFICES ASSUME f.type = "int" PROVE v \in Ints
    OBVIOUS
  <2>1. v \in get_int(g)
    BY DEF Converted
  <2>2. CASE g.type = "int"
    BY <2>1, <2>2, FieldTypes DEF get_int
  <2>3. CASE g.type = "double"
    BY <2>1, <2>3 DEF get_int, CastToInt
  <2>4. CASE g.type = "uuid"
    BY <2>1, <2>4 DEF get_int
  <2> QED
    BY <2>2, <2>3, <2>4, FieldTypes
<1>2. f.type = "double" => v \in Doubles
  <2> SUFFICES ASSUME f.type = "double" PROVE v \in Doubles
    OBVIOUS
  <2>1. v \in get_double(g)
    BY DEF Converted
  <2>2. CASE g.type = "int"
    BY <2>1, <2>2, FieldTypes, DoublesAssumption DEF get_double
  <2>3. CASE g.type = "double"
    BY <2>1, <2>3, FieldTypes DEF get_double
  <2>4. CASE g.type = "uuid"
    BY <2>1, <2>4 DEF get_double
  <2> QED
    BY <2>2, <2>3, <2>4, FieldTypes
<1>3. f.type = "uuid" => v \in Uuids
  <2> SUFFICES ASSUME f.type = "uuid" PROVE v \in Uuids
    OBVIOUS
  <2>1. v \in get_uuid(g)
    BY DEF Converted
  <2> QED
    BY <2>1, FieldTypes DEF get_uuid
<1>4. [f EXCEPT !.value = v] = [type |-> f.type, value |-> v]
  BY FieldTypes
<1> QED
  BY <1>1, <1>2, <1>3, <1>4, FieldTypes DEF AllFields, IntFields, DoubleFields, UuidFields

-----------------------------------------------------------------------------
(***************************************************************************)
(* Copying.  After i fields have been copied, nothing but the tuple that   *)
(* is copied to has changed, and none of its fields behind the i-th; those *)
(* up to it are the source's, converted, unless a field was read after it  *)
(* was written.                                                            *)
(***************************************************************************)
After(to, from, indices, at, i) ==
  /\ at \in [buffers : Buffers, complete : BOOLEAN]
  /\ \A o \in FreshTuples : o # to => at.buffers[o] = m_buffer[o]
  /\ Len(at.buffers[to]) = Len(m_buffer[to])
  /\ \A j \in 1..Len(m_buffer[to]) :
       /\ j > i => at.buffers[to][j] = m_buffer[to][j]
       /\ at.buffers[to][j].type = m_buffer[to][j].type
       /\ /\ at.complete /\ j <= i
          /\ from = to => \A k \in 1..Len(indices) : indices[k] = k
          => at.buffers[to][j].value \in
               Converted(m_buffer[to][j].type, m_buffer[from][indices[j]])

\* copying the next field
LEMMA AfterAnotherField ==
  ASSUME m_buffer \in Buffers,
         NEW to \in FreshTuples, NEW from \in FreshTuples, NEW indices \in Seq(Nat),
         Len(indices) = Len(m_buffer[to]),
         \A j \in 1..Len(indices) : indices[j] \in 1..Len(m_buffer[from]),
         NEW i \in 1..Len(indices),
         NEW at, After(to, from, indices, at, i - 1),
         NEW next \in CopyField(at, to, at.buffers[from][Projected(indices, i)], i)
  PROVE  After(to, from, indices, next, i)
<1> DEFINE n == Len(indices)
           source == at.buffers[from][indices[i]]
           target == at.buffers[to][i]
           values == Converted(target.type, source)
<1>1. n \in Nat /\ at.buffers \in Buffers /\ at.complete \in BOOLEAN
      /\ at = [buffers |-> at.buffers, complete |-> at.complete]
  BY DEF After
<1>2. at.buffers[to] \in Seq(AllFields) /\ Len(at.buffers[to]) = n
  BY <1>1 DEF After, Buffers
<1>3. target \in AllFields
  BY <1>1, <1>2
<1>4. at.buffers[from] \in Seq(AllFields) /\ Len(at.buffers[from]) = Len(m_buffer[from])
  BY <1>1 DEF After, Buffers
<1>5. source \in AllFields
  BY <1>4
<1>6. next \in CopyField(at, to, source, i)
  BY DEF Projected
<1>7. CASE ~at.complete
  BY <1>1, <1>6, <1>7 DEF CopyField, After
<1>8. CASE at.complete /\ values = {}
  <2>1. next = [at EXCEPT !.complete = FALSE]
    BY <1>6, <1>8 DEF CopyField
  <2>2. next = [buffers |-> at.buffers, complete |-> FALSE]
    BY <1>1, <2>1
  <2> QED
    BY <1>1, <2>2 DEF After
<1>9. CASE at.complete /\ values # {}
  <2>1. PICK v \in values : next = [at EXCEPT !.buffers[to][i].value = v]
    BY <1>6, <1>9 DEF CopyField
  <2> DEFINE written == [target EXCEPT !.value = v]
             row == [at.buffers[to] EXCEPT ![i] = written]
             all == [at.buffers EXCEPT ![to] = row]
  <2>2. next = [buffers |-> all, complete |-> TRUE]
    BY <1>1, <1>9, <2>1
  <2>3. written \in AllFields /\ written.type = target.type /\ written.value = v
    <3>1. written \in AllFields
      BY <1>3, <1>5, ConversionIsTyped
    <3>2. target = [type |-> target.type, value |-> target.value]
      BY <1>3, FieldTypes
    <3> QED
      BY <3>1, <3>2
  <2> HIDE DEF written
  <2>4. row \in Seq(AllFields) /\ Len(row) = n /\ \A j \in 1..n : row[j] = IF j = i THEN written ELSE at.buffers[to][j]
    BY <1>2, <2>3
  <2> HIDE DEF row
  <2>5. all \in Buffers /\ \A o \in FreshTuples : all[o] = IF o = to THEN row ELSE at.buffers[o]
    BY <1>1, <2>4 DEF Buffers
  <2> HIDE DEF all
  <2>6. target.type = m_buffer[to][i].type
    BY DEF After
  <2>7. ASSUME from = to => \A k \in 1..n : indices[k] = k
        PROVE  source = m_buffer[from][indices[i]]
    <3>1. CASE from = to
      <4>1. indices[i] = i /\ i > i - 1
        BY <2>7, <3>1
      <4> QED
        BY <3>1, <4>1 DEF After
    <3>2. CASE from # to
      BY <3>2 DEF After
    <3> QED
      BY <3>1, <3>2
  <2>8. ASSUME NEW j \in 1..n
        PROVE  /\ j > i => row[j] = m_buffer[to][j]
               /\ row[j].type = m_buffer[to][j].type
               /\ /\ j <= i
                  /\ from = to => \A k \in 1..n : indices[k] = k
                  => row[j].value \in Converted(m_buffer[to][j].type, m_buffer[from][indices[j]])
    <3>1. CASE j = i
      BY <2>3, <2>4, <2>6, <2>7, <3>1
    <3>2. CASE j # i
      <4>1. row[j] = at.buffers[to][j] /\ (j > i => j > i - 1) /\ (j <= i => j <= i - 1)
        BY <1>1, <2>4, <3>2
      <4> QED
        BY <1>9, <4>1 DEF After
    <3> QED
      BY <3>1, <3>2
  <2>9. \A o \in FreshTuples : o # to => all[o] = m_buffer[o]
    BY <2>5 DEF After
  <2> QED
    BY <1>1, <2>2, <2>4, <2>5, <2>8, <2>9 DEF After
<1> QED
  BY <1>7, <1>8, <1>9

\* all that copying the i-th field may leave behind of what was left before
NextOutcomes(to, from, indices, S, i) ==
  UNION {CopyField(at, to, at.buffers[from][Projected(indices, i)], i) : at \in S}
OutcomesUpTo(to, from, indices, n, g) ==
  g = [i \in 0..n |-> IF i = 0 THEN {[buffers |-> m_buffer, complete |-> TRUE]}
                      ELSE NextOutcomes(to, from, indices, g[i - 1], i)]

\* the recursion of CopyOutcomes defines a function
LEMMA OutcomesExist ==
  ASSUME NEW to, NEW from, NEW indices, NEW n \in Nat
  PROVE  \E g : OutcomesUpTo(to, from, indices, n, g)
<1> DEFINE Missing == {m \in 0..n : ~\E g : OutcomesUpTo(to, from, indices, m, g)}
<1> SUFFICES ASSUME Missing # {} PROVE FALSE
  OBVIOUS
<1>1. PICK m \in Missing : \A k \in Missing : m <= k
  <2>1. Missing \subseteq Nat
    OBVIOUS
  <2> HIDE DEF Missing
  <2> QED
    BY <2>1, LeastElement
<1>2. m \in 0..n /\ ~\E g : OutcomesUpTo(to, from, indices, m, g)
  OBVIOUS
<1>3. CASE m = 0
  <2> DEFINE g == [i \in 0..m |-> {[buffers |-> m_buffer, complete |-> TRUE]}]
  <2>1. OutcomesUpTo(to, from, indices, m, g)
    BY <1>3 DEF OutcomesUpTo
  <2> QED
    BY <1>2, <2>1
<1>4. CASE m # 0
  <2>1. m - 1 \in 0..n /\ m - 1 \notin Missing
    BY <1>1, <1>2, <1>4
  <2>2. PICK g : OutcomesUpTo(to, from, indices, m - 1, g)
    BY <2>1
  <2> DEFINE h == [i \in 0..m |-> IF i = m THEN NextOutcomes(to, from, indices, g[m - 1], m) ELSE g[i]]
  <2>3. \A i \in 0..(m - 1) : h[i] = g[i]
    BY <1>2
  <2>4. \A i \in 0..(m - 1) : g[i] = IF i = 0 THEN {[buffers |-> m_buffer, complete |-> TRUE]}
                                     ELSE NextOutcomes(to, from, indices, g[i - 1], i)
    BY <2>2 DEF OutcomesUpTo
  <2>5. ASSUME NEW i \in 0..m
        PROVE  h[i] = IF i = 0 THEN {[buffers |-> m_buffer, complete |-> TRUE]}
                      ELSE NextOutcomes(to, from, indices, h[i - 1], i)
    <3>1. CASE i = m
      <4>1. h[i] = NextOutcomes(to, from, indices, g[m - 1], m) /\ h[i - 1] = g[m - 1] /\ i # 0
        BY <1>2, <1>4, <2>3, <3>1
      <4> HIDE DEF h
      <4> QED
        BY <3>1, <4>1
    <3>2. CASE i # m
      <4>1. i \in 0..(m - 1) /\ (i # 0 => i - 1 \in 0..(m - 1))
        BY <1>2, <3>2
      <4>2. h[i] = g[i] /\ (i # 0 => h[i - 1] = g[i - 1])
        BY <2>3, <4>1
      <4> HIDE DEF h
      <4> QED
        BY <2>4, <4>1, <4>2
    <3> QED
      BY <3>1, <3>2
  <2>6. OutcomesUpTo(to, from, indices, m, h)
    <3>1. h = [i \in 0..m |-> h[i]]
      OBVIOUS
    <3> HIDE DEF h
    <3> QED
      BY <2>5, <3>1 DEF OutcomesUpTo
  <2> QED
    BY <1>2, <2>6
<1> QED
  BY <1>3, <1>4

LEMMA OutcomesOfCopying ==
  ASSUME m_buffer \in Buffers,
         NEW to \in FreshTuples, NEW from \in FreshTuples, NEW indices \in Seq(Nat),
         Len(indices) = Len(m_buffer[to]),
         \A j \in 1..Len(indices) : indices[j] \in 1..Len(m_buffer[from]),
         NEW outcome \in CopyOutcomes(to, from, indices)
  PROVE  After(to, from, indices, outcome, Len(indices))
<1> DEFINE n == Len(indices)
           after == CHOOSE g : OutcomesUpTo(to, from, indices, n, g)
           start == [buffers |-> m_buffer, complete |-> TRUE]
<1>1. n \in Nat
  OBVIOUS
<1>2. CopyOutcomes(to, from, indices) = after[n]
  BY DEF CopyOutcomes, OutcomesUpTo, NextOutcomes
<1>3. OutcomesUpTo(to, from, indices, n, after)
  BY <1>1, OutcomesExist
<1> HIDE DEF after
<1>4. after[0] = {start}
  BY <1>1, <1>3 DEF OutcomesUpTo
<1>5. ASSUME NEW i \in 1..n PROVE after[i] = NextOutcomes(to, from, indices, after[i - 1], i)
  <2>1. i \in 0..n /\ i # 0
    BY <1>1
  <2> QED
    BY <1>3, <2>1 DEF OutcomesUpTo
<1> DEFINE Wrong == {i \in 0..n : \E at \in after[i] : ~After(to, from, indices, at, i)}
<1>6. Wrong = {}
  <2> SUFFICES ASSUME Wrong # {} PROVE FALSE
    OBVIOUS
  <2>1. PICK i \in Wrong : \A k \in Wrong : i <= k
    <3>1. Wrong \subseteq Nat
      OBVIOUS
    <3> HIDE DEF Wrong
    <3> QED
      BY <3>1, LeastElement
  <2>2. PICK next \in after[i] : ~After(to, from, indices, next, i)
    OBVIOUS
  <2>3. CASE i = 0
    <3>1. next = start
      BY <1>4, <2>2, <2>3
    <3>2. m_buffer[to] \in Seq(AllFields)
      BY DEF Buffers
    <3>3. \A j \in 1..Len(m_buffer[to]) : j > 0 /\ ~(j <= 0)
      BY <3>2
    <3>4. After(to, from, indices, start, 0)
      BY <3>3 DEF After
    <3> QED
      BY <2>2, <2>3, <3>1, <3>4
  <2>4. CASE i # 0
    <3>1. i \in 0..n
      OBVIOUS
    <3>2. i \in 1..n /\ i - 1 \in 0..n /\ ~(i <= i - 1)
      BY <1>1, <2>4, <3>1
    <3>3. i - 1 \notin Wrong
      BY <2>1, <3>2
    <3>4. PICK at \in after[i - 1] : next \in CopyField(at, to, at.buffers[from][Projected(indices, i)], i)
      BY <1>5, <2>2, <3>2 DEF NextOutcomes
    <3>5. After(to, from, indices, at, i - 1)
      BY <3>2, <3>3, <3>4
    <3> QED
      BY <2>2, <3>2, <3>4, <3>5, AfterAnotherField
  <2> QED
    BY <2>3, <2>4
<1>7. n \notin Wrong
  BY <1>6
<1> QED
  BY <1>1, <1>2, <1>7

-----------------------------------------------------------------------------
(***************************************************************************)
(* What always holds, whatever is copied to what: a FreshTuple that exists *)
(* is at its own buffer, and only the BackedTuple is where others are.     *)
(***************************************************************************)
IInv ==
  /\ m_buffer \in Buffers
  /\ m_location \in [Objects -> FreshTuples \cup {None}]
  /\ m_readOnly \in [Objects -> BOOLEAN]
  /\ field \in [location : FreshTuples \cup {None}, index : Nat, readOnly : BOOLEAN]
  /\ field # NoField => field.location \in FreshTuples
  /\ \A o \in FreshTuples : m_location[o] \in {o, None}

LEMMA InitEstablishesIInv == Init => IInv
<1> SUFFICES ASSUME Init PROVE IInv
  OBVIOUS
<1>1. <<>> \in Seq(AllFields) /\ InitialBuffer \in Seq(AllFields)
  BY TuplesAssumption DEF AllFields
<1>2. m_buffer \in Buffers
  BY <1>1 DEF Init, Buffers
<1>3. \A o \in FreshTuples : m_location[o] \in {o, None}
  BY DEF Init, Objects
<1>4. m_location \in [Objects -> FreshTuples \cup {None}]
  BY TuplesAssumption DEF Init, Objects
<1> QED
  BY <1>2, <1>3, <1>4 DEF Init, IInv, NoField

\* an object that exists has fields
LEMMA ExistingHaveFields ==
  ASSUME IInv, NEW o \in Existing
  PROVE  /\ o \in Objects /\ m_location[o] \in FreshTuples
         /\ Fields(o) \in Seq(AllFields)
         /\ o \in FreshTuples => m_location[o] = o
BY DEF IInv, Existing, Fields, Buffers

LEMMA GetFieldKeepsIInv ==
  ASSUME IInv, NEW o \in Existing, NEW i \in 1..Len(Fields(o)), GetField(o, i)
  PROVE  IInv'
<1>1. m_location[o] \in FreshTuples /\ Len(Fields(o)) \in Nat /\ m_readOnly[o] \in BOOLEAN
  BY ExistingHaveFields DEF IInv
<1>2. field' = [location |-> m_location[o], index |-> i, readOnly |-> m_readOnly[o]]
  BY DEF GetField, FieldOf
<1> QED
  BY <1>1, <1>2 DEF IInv, GetField

LEMMA SetFieldKeepsIInv ==
  ASSUME IInv, NEW value \in Values, SetField(value)
  PROVE  IInv'
<1> DEFINE l == field.location
           i == field.index
<1>1. l \in FreshTuples /\ m_buffer[l] \in Seq(AllFields)
  BY DEF IInv, SetField, Buffers
<1>2. PICK v \in Converted(m_buffer[l][i].type, value) :
        m_buffer' = [m_buffer EXCEPT ![l][i].value = v]
  BY DEF SetField
<1> DEFINE row == [m_buffer[l] EXCEPT ![i] = [m_buffer[l][i] EXCEPT !.value = v]]
<1>3. m_buffer' = [m_buffer EXCEPT ![l] = row]
  BY <1>2
<1>4. row \in Seq(AllFields)
  <2>1. CASE i \in 1..Len(m_buffer[l])
    <3>1. m_buffer[l][i] \in AllFields /\ value \in AllFields
      BY <1>1, <2>1 DEF Values, AllFields
    <3>2. [m_buffer[l][i] EXCEPT !.value = v] \in AllFields
      BY <3>1, ConversionIsTyped
    <3> QED
      BY <1>1, <2>1, <3>2
  <2>2. CASE i \notin 1..Len(m_buffer[l])
    <3>1. row = m_buffer[l]
      BY <1>1, <2>2
    <3> QED
      BY <1>1, <3>1
  <2> QED
    BY <2>1, <2>2
<1> HIDE DEF row
<1>5. m_buffer' \in Buffers
  BY <1>1, <1>3, <1>4 DEF IInv, Buffers
<1> QED
  BY <1>5 DEF IInv, SetField

LEMMA CopyFromKeepsIInv ==
  ASSUME IInv, NEW o \in Existing, NEW source \in Existing, NEW indices \in Projections,
         CopyFrom(o, source, indices)
  PROVE  IInv'
<1>1. m_location[o] \in FreshTuples /\ m_location[source] \in FreshTuples /\ m_buffer \in Buffers
  BY ExistingHaveFields DEF IInv
<1>2. indices \in Seq(Nat)
  BY TuplesAssumption
<1>3. PICK outcome \in CopyOutcomes(m_location[o], m_location[source], indices) :
        m_buffer' = outcome.buffers
  BY DEF CopyFrom
<1>4. After(m_location[o], m_location[source], indices, outcome, Len(indices))
  BY <1>1, <1>2, <1>3, OutcomesOfCopying DEF CopyFrom, Fields
<1>5. m_buffer' \in Buffers
  BY <1>3, <1>4 DEF After
<1> QED
  BY <1>5 DEF IInv, CopyFrom

LEMMA CopyConstructKeepsIInv ==
  ASSUME IInv, NEW o \in FreshTuples, NEW source \in Others, CopyConstruct(o, source)
  PROVE  IInv'
<1>1. source \in Existing
  BY DEF Others
<1>2. Fields(source) \in Seq(AllFields)
  BY <1>1, ExistingHaveFields
<1>3. m_buffer' \in Buffers
  BY <1>2 DEF IInv, CopyConstruct, Buffers
<1>4. m_location' = [m_location EXCEPT ![o] = o]
  BY DEF CopyConstruct, LocationOfCopy
<1>5. m_location' \in [Objects -> FreshTuples \cup {None}]
  BY <1>4 DEF IInv
<1>6. \A p \in FreshTuples : m_location'[p] \in {p, None}
  BY <1>4 DEF IInv, Objects
<1> QED
  BY <1>3, <1>5, <1>6 DEF IInv, CopyConstruct

LEMMA AssignKeepsIInv ==
  ASSUME IInv, NEW o \in Others, NEW source \in Others, Assign(o, source)
  PROVE  IInv'
<1>1. source \in Existing
  BY DEF Others
<1>2. Fields(source) \in Seq(AllFields)
  BY <1>1, ExistingHaveFields
<1>3. m_buffer' \in Buffers
  BY <1>2 DEF IInv, Assign, Buffers
<1> QED
  BY <1>3 DEF IInv, Assign

LEMMA CopyBackedKeepsIInv ==
  ASSUME IInv, NEW o \in Others, CopyBacked(o)
  PROVE  IInv'
<1>1. o \in Objects
  BY DEF Others, Existing
<1>2. m_location' = [m_location EXCEPT ![Backed] = m_location[o]]
  BY DEF CopyBacked
<1>3. m_location' \in [Objects -> FreshTuples \cup {None}]
  BY <1>1, <1>2 DEF IInv
<1>4. m_readOnly' \in [Objects -> BOOLEAN]
  BY <1>1 DEF IInv, CopyBacked
<1>5. \A p \in FreshTuples : m_location'[p] \in {p, None}
  BY <1>2, TuplesAssumption DEF IInv, Objects
<1> QED
  BY <1>3, <1>4, <1>5 DEF IInv, CopyBacked

LEMMA StepPreservesIInv == IInv /\ [NextButCopying \/ CopySome]_vars => IInv'
<1> SUFFICES ASSUME IInv, [NextButCopying \/ CopySome]_vars PROVE IInv'
  OBVIOUS
<1>1. ASSUME NEW o \in Existing, NEW i \in 1..Len(Fields(o)), GetField(o, i) PROVE IInv'
  BY <1>1, GetFieldKeepsIInv
<1>2. ASSUME NEW value \in Values, SetField(value) PROVE IInv'
  BY <1>2, SetFieldKeepsIInv
<1>3. ASSUME NEW o \in Existing, MakeReadOnly(o) PROVE IInv'
  BY <1>3 DEF IInv, MakeReadOnly
<1>4. ASSUME NEW o \in FreshTuples, NEW source \in Others, CopyConstruct(o, source) PROVE IInv'
  BY <1>4, CopyConstructKeepsIInv
<1>5. ASSUME NEW o \in Others, CopyBacked(o) PROVE IInv'
  BY <1>5, CopyBackedKeepsIInv
<1>6. ASSUME NEW o \in Existing, NEW source \in Existing, NEW indices \in Projections,
             CopyFrom(o, source, indices)
      PROVE  IInv'
  BY <1>6, CopyFromKeepsIInv
<1>7. ASSUME NEW o \in Others, NEW source \in Others, Assign(o, source) PROVE IInv'
  BY <1>7, AssignKeepsIInv
<1>8. CASE UNCHANGED vars
  BY <1>8 DEF IInv, vars
<1> QED
  BY <1>1, <1>2, <1>3, <1>4, <1>5, <1>6, <1>7, <1>8 DEF NextButCopying, CopySome

\* careful callers take steps any caller may take
LEMMA CarefulStepIsAStep ==
  [NextButCopying \/ CopyCarefully]_vars => [NextButCopying \/ CopySome]_vars
BY DEF CopyCarefully, CopySome

LEMMA IInvAlways == CarefulSpec => []IInv
BY InitEstablishesIInv, StepPreservesIInv, CarefulStepIsAStep, PTL DEF CarefulSpec

(***************************************************************************)
(* Whatever is copied to what: the fields in every buffer keep values of   *)
(* one of the types there are, and every tuple is at a buffer or nowhere.  *)
(***************************************************************************)
THEOREM TuplesAreTyped == Spec => []TypeOK
<1>1. IInv => TypeOK
  BY DEF IInv, TypeOK, Buffers, AllFields
<1> QED
  BY <1>1, InitEstablishesIInv, StepPreservesIInv, PTL DEF Spec

(***************************************************************************)
(* No two FreshTuples ever share a buffer, however they are copied and     *)
(* assigned (FreshTuple.h:16).                                             *)
(***************************************************************************)
THEOREM BuffersAreOwned == Spec => []FreshTuplesOwnTheirBuffers
<1>1. IInv => FreshTuplesOwnTheirBuffers
  <2> SUFFICES ASSUME IInv, NEW o \in FreshTuples \cap Existing, NEW p \in FreshTuples \cap Existing,
                      o # p
               PROVE  m_location[o] # m_location[p]
    BY DEF FreshTuplesOwnTheirBuffers
  <2> QED
    BY ExistingHaveFields
<1> QED
  BY <1>1, InitEstablishesIInv, StepPreservesIInv, PTL DEF Spec

-----------------------------------------------------------------------------
(***************************************************************************)
(* Memory that nothing writable refers to.  A step that writes does so     *)
(* through a tuple or a field that may be written; one that makes a new    *)
(* reference to memory takes over the flag of the old one.                 *)
(***************************************************************************)
Untouched(o) == m_buffer'[o] = m_buffer[o] /\ ~Writable(o)'

LEMMA CarefulStepLeavesMemory ==
  ASSUME IInv, IInv', NextButCopying \/ CopyCarefully,
         NEW o \in FreshTuples \cap Existing, ~Writable(o)
  PROVE  Untouched(o)
<1>1. /\ m_location[o] = o /\ m_location \in [Objects -> FreshTuples \cup {None}]
      /\ m_readOnly \in [Objects -> BOOLEAN]
      /\ m_buffer \in Buffers /\ o \in Objects
  BY ExistingHaveFields DEF IInv
<1>2. \A p \in Objects : m_location[p] = o => m_readOnly[p]
  BY <1>1, TuplesAssumption DEF Writable, Existing
<1>3. field.location = o => field.readOnly
  BY DEF Writable
<1>4. ASSUME UNCHANGED <<m_location, m_readOnly, field>> PROVE ~Writable(o)'
  BY <1>4 DEF Writable, Existing
<1>5. ASSUME NEW p \in Existing, NEW i \in 1..Len(Fields(p)), GetField(p, i) PROVE Untouched(o)
  <2>1. field' = [location |-> m_location[p], index |-> i, readOnly |-> m_readOnly[p]]
    BY <1>5 DEF GetField, FieldOf
  <2>2. m_location[p] = o => m_readOnly[p]
    BY <1>2 DEF Existing
  <2> QED
    BY <1>5, <2>1, <2>2 DEF Untouched, Writable, Existing, GetField
<1>6. ASSUME NEW value \in Values, SetField(value) PROVE Untouched(o)
  <2>1. field.location # o
    BY <1>3, <1>6 DEF SetField
  <2>2. m_buffer'[o] = m_buffer[o]
    BY <1>1, <1>6, <2>1 DEF SetField, Buffers
  <2> QED
    BY <1>4, <1>6, <2>2 DEF Untouched, SetField
<1>7. ASSUME NEW p \in Existing, MakeReadOnly(p) PROVE Untouched(o)
  BY <1>1, <1>7 DEF Untouched, Writable, Existing, MakeReadOnly
<1>8. ASSUME NEW p \in FreshTuples, NEW source \in Others, CopyConstruct(p, source) PROVE Untouched(o)
  <2>1. p # o
    BY <1>1, <1>8, TuplesAssumption DEF CopyConstruct
  <2>2. m_location' = [m_location EXCEPT ![p] = p]
    BY <1>8 DEF CopyConstruct, LocationOfCopy
  <2>3. m_buffer'[o] = m_buffer[o]
    BY <1>1, <1>8, <2>1 DEF CopyConstruct, Buffers
  <2>4. \A q \in Objects : m_location'[q] = o => m_location[q] = o
    BY <1>1, <2>1, <2>2
  <2> QED
    BY <1>2, <1>3, <1>8, <2>3, <2>4 DEF Untouched, Writable, Existing, CopyConstruct
<1>9. ASSUME NEW p \in Others, CopyBacked(p) PROVE Untouched(o)
  <2>1. /\ m_location' = [m_location EXCEPT ![Backed] = m_location[p]]
        /\ m_readOnly' = [m_readOnly EXCEPT ![Backed] = m_readOnly[p]]
        /\ p \in Objects
    BY <1>9 DEF CopyBacked, Others, Existing
  <2>2. \A q \in Objects : m_location'[q] = o => m_readOnly'[q]
    BY <1>1, <1>2, <2>1
  <2> QED
    BY <1>3, <1>9, <2>2 DEF Untouched, Writable, Existing, CopyBacked
<1>10. ASSUME NEW p \in Existing, NEW source \in Existing, NEW indices \in Projections,
              CopyFrom(p, source, indices)
       PROVE  Untouched(o)
  <2>1. m_location[p] # o
    BY <1>2, <1>10 DEF CopyFrom, Existing
  <2>2. m_location[p] \in FreshTuples /\ m_location[source] \in FreshTuples /\ indices \in Seq(Nat)
    BY ExistingHaveFields, TuplesAssumption
  <2>3. PICK outcome \in CopyOutcomes(m_location[p], m_location[source], indices) :
          m_buffer' = outcome.buffers
    BY <1>10 DEF CopyFrom
  <2>4. After(m_location[p], m_location[source], indices, outcome, Len(indices))
    BY <1>1, <1>10, <2>2, <2>3, OutcomesOfCopying DEF CopyFrom, Fields
  <2>5. m_buffer'[o] = m_buffer[o]
    BY <2>1, <2>3, <2>4 DEF After
  <2> QED
    BY <1>4, <1>10, <2>5 DEF Untouched, CopyFrom
<1>11. ASSUME NEW p \in Others, NEW source \in Others, ~m_readOnly[p], Assign(p, source)
       PROVE  Untouched(o)
  <2>1. p \in FreshTuples /\ p \in Existing
    BY DEF Others, Existing, Objects
  <2>2. p # o
    BY <1>1, <1>2, <1>11
  <2>3. m_buffer'[o] = m_buffer[o]
    BY <1>1, <1>11, <2>1, <2>2 DEF Assign, Buffers
  <2> QED
    BY <1>4, <1>11, <2>3 DEF Untouched, Assign
<1> QED
  BY <1>5, <1>6, <1>7, <1>8, <1>9, <1>10, <1>11 DEF NextButCopying, CopyCarefully

(***************************************************************************)
(* Once every tuple and field that refers to memory is read-only, no call  *)
(* on them changes it or makes a reference through which it could be, as   *)
(* long as a read-only tuple is not assigned to.                           *)
(***************************************************************************)
THEOREM MemoryIsProtected == CarefulSpec => OnlyWritableMemoryChanges
<1>1. IInv /\ IInv' /\ [NextButCopying \/ CopyCarefully]_vars
        => [\A o \in FreshTuples \cap Existing :
              ~Writable(o) => m_buffer'[o] = m_buffer[o] /\ ~Writable(o)']_vars
  BY CarefulStepLeavesMemory DEF Untouched
<1> QED
  BY <1>1, IInvAlways, PTL DEF CarefulSpec, OnlyWritableMemoryChanges

-----------------------------------------------------------------------------
\* a copy that was completed is faithful if no field was read after it was
\* written
LEMMA CarefulCopyIsFaithful ==
  ASSUME IInv, NEW o \in Existing, NEW source \in Existing, NEW indices \in Projections,
         ~Overlap(o, source, indices), CopyFrom(o, source, indices)
  PROVE  CopyIsFaithful'
<1> DEFINE to == m_location[o]
           from == m_location[source]
           n == Len(indices)
<1>1. /\ to \in FreshTuples /\ from \in FreshTuples /\ indices \in Seq(Nat)
      /\ m_buffer \in Buffers /\ n = Len(m_buffer[to]) /\ n \in Nat
  BY ExistingHaveFields, TuplesAssumption DEF IInv, CopyFrom, Fields
<1>2. PICK outcome \in CopyOutcomes(to, from, indices) :
        /\ m_buffer' = outcome.buffers
        /\ copied' = IF ~outcome.complete THEN NoCopy ELSE
             [tuple |-> o, source |-> [i \in 1..n |-> Fields(source)[indices[i]]]]
  BY DEF CopyFrom
<1>3. After(to, from, indices, outcome, n)
  BY <1>1, <1>2, OutcomesOfCopying DEF CopyFrom, Fields
<1>4. from = to => \A k \in 1..n : indices[k] = k
  BY DEF Overlap
<1> HIDE DEF to, from
<1>5. SUFFICES ASSUME copied' # NoCopy, NEW i \in 1..Len(copied'.source)
               PROVE  Fields(copied.tuple)'[i].value
                        \in Converted(Fields(copied.tuple)'[i].type, copied'.source[i])
  BY DEF CopyIsFaithful
<1>6. outcome.complete /\ copied' = [tuple |-> o, source |-> [k \in 1..n |-> Fields(source)[indices[k]]]]
  BY <1>2, <1>5
<1>7. i \in 1..n /\ copied'.source[i] = m_buffer[from][indices[i]]
  BY <1>1, <1>5, <1>6 DEF Fields, from
<1>8. Fields(copied.tuple)' = outcome.buffers[to]
  BY <1>2, <1>6 DEF Fields, CopyFrom, to
<1>9. outcome.buffers[to][i].type = m_buffer[to][i].type
  BY <1>1, <1>3, <1>7 DEF After
<1>10. outcome.buffers[to][i].value \in Converted(m_buffer[to][i].type, m_buffer[from][indices[i]])
  BY <1>1, <1>3, <1>4, <1>6, <1>7 DEF After
<1> QED
  BY <1>7, <1>8, <1>9, <1>10

(***************************************************************************)
(* Each field is the source's, converted, after copy_from() of a tuple or  *)
(* of any projection of one, unless a tuple's own fields are rearranged.   *)
(***************************************************************************)
THEOREM CopyingIsFaithful == CarefulSpec => []CopyIsFaithful
<1>1. Init => CopyIsFaithful
  BY DEF Init, CopyIsFaithful
<1>2. ASSUME IInv, CopyIsFaithful, [NextButCopying \/ CopyCarefully]_vars PROVE CopyIsFaithful'
  <2>1. ASSUME copied' = NoCopy PROVE CopyIsFaithful'
    BY <2>1 DEF CopyIsFaithful
  <2>2. CASE NextButCopying
    BY <2>1, <2>2 DEF NextButCopying, GetField, SetField, MakeReadOnly, CopyConstruct, CopyBacked
  <2>3. CASE CopyCarefully
    <3>1. ASSUME NEW o \in Existing, NEW source \in Existing, NEW indices \in Projections,
                 ~Overlap(o, source, indices), CopyFrom(o, source, indices)
          PROVE  CopyIsFaithful'
      BY <1>2, <3>1, CarefulCopyIsFaithful
    <3>2. ASSUME NEW o \in Others, NEW source \in Others, Assign(o, source)
          PROVE  CopyIsFaithful'
      BY <2>1, <3>2 DEF Assign
    <3> QED
      BY <2>3, <3>1, <3>2 DEF CopyCarefully
  <2>4. CASE UNCHANGED vars
    BY <1>2, <2>4 DEF vars, CopyIsFaithful, Fields
  <2> QED
    BY <1>2, <2>2, <2>3, <2>4
<1> QED
  BY <1>1, <1>2, IInvAlways, PTL DEF CarefulSpec
=============================================================================
