------------------------------- MODULE Tuples -------------------------------
(***************************************************************************)
(* whery's tuples as objects that refer to memory: FreshTuple has a buffer *)
(* of its own, BackedTuple refers to one it does not own, ProjectedTuple   *)
(* to another tuple, and Field to one place in a buffer (src/db/base).     *)
(* Being read-only is a matter of the object that is asked, not of the     *)
(* memory: each BackedTuple and each Field has its own flag.               *)
(*                                                                         *)
(* A buffer is the sequence of the fields laid out in it.  There are some  *)
(* FreshTuples, all of one signature, one BackedTuple, and one Field for   *)
(* the caller to hold.                                                     *)
(***************************************************************************)
EXTENDS Fields, Sequences

CONSTANTS
  FreshTuples,      \* FreshTuple objects, which also name their buffers
  InitialBuffer,    \* the contents of those that exist to begin with
  Initially,        \* which ones those are
  Backed,           \* a BackedTuple
  Projections,      \* the sequences of indices that are projected
  None              \* no memory

ASSUME TuplesAssumption ==
  /\ None \notin FreshTuples /\ Backed \notin FreshTuples
  /\ Initially \subseteq FreshTuples
  /\ InitialBuffer \in Seq(IntFields \cup DoubleFields \cup UuidFields)
  /\ Projections \subseteq Seq(Nat)

\* a double has more digits than an int
ASSUME DoublesAssumption == \A i \in Ints : 2 * i \in Doubles

VARIABLES
  m_buffer,         \* the contents of each buffer, or <<>> before it exists
  m_location,       \* where each tuple is: a buffer, or None
  m_readOnly,       \* whether each tuple is read-only
  field,            \* the Field that is held: a location, an index, a flag
  copied            \* the last copy_from: its tuple and what it had to copy

vars == <<m_buffer, m_location, m_readOnly, field, copied>>

Objects == FreshTuples \cup {Backed}
Existing == {o \in Objects : m_location[o] # None}
Fields(o) == m_buffer[m_location[o]]

NoField == [location |-> None, index |-> 0, readOnly |-> TRUE]
NoCopy == [tuple |-> None, source |-> <<>>]

Init ==
  /\ m_buffer = [o \in FreshTuples |->
       IF o \in Initially THEN InitialBuffer ELSE <<>>]
  /\ m_location = [o \in Objects |-> IF o \in Initially THEN o ELSE None]
  /\ m_readOnly = [o \in Objects |-> FALSE]
  /\ field = NoField
  /\ copied = NoCopy

-----------------------------------------------------------------------------
\* mutant: a field may be written whatever its tuple says
FieldOfWritable(o, i) == [location |-> m_location[o], index |-> i, readOnly |-> FALSE]

FieldOf(o, i) == [location |-> m_location[o], index |-> i, readOnly |-> m_readOnly[o]]

\* BackedTuple::field
GetField(o, i) ==
  /\ i \in 1..Len(Fields(o))
  /\ field' = FieldOf(o, i)
  /\ copied' = NoCopy
  /\ UNCHANGED <<m_buffer, m_location, m_readOnly>>

\* Field::set_int and set_double.  They throw if the field is read-only or
\* there is no conversion, and change nothing.
SetField(value) ==
  /\ field # NoField
  /\ ~field.readOnly
  /\ \E v \in Converted(m_buffer[field.location][field.index].type, value) :
       m_buffer' = [m_buffer EXCEPT ![field.location][field.index].value = v]
  /\ copied' = NoCopy
  /\ UNCHANGED <<m_location, m_readOnly, field>>

\* BackedTuple::make_read_only
MakeReadOnly(o) ==
  /\ m_readOnly' = [m_readOnly EXCEPT ![o] = TRUE]
  /\ copied' = NoCopy
  /\ UNCHANGED <<m_buffer, m_location, field>>

\* mutant: the source's fields are taken as they come
ProjectionIgnored(indices, i) == i

Projected(indices, i) == indices[i]

\* what may be left behind when a field is copied after others were
CopyField(at, to, source, i) ==
  LET values == Converted(at.buffers[to][i].type, source)
  IN  IF ~at.complete THEN {at}
      ELSE IF values = {} THEN {[at EXCEPT !.complete = FALSE]}
      ELSE {[at EXCEPT !.buffers[to][i].value = v] : v \in values}

\* What copying one field after the other may leave behind, and whether all
\* were copied.  A field may be read that was just written, if the source is a
\* projection of the tuple itself.
CopyOutcomes(to, from, indices) ==
  LET after[i \in 0..Len(indices)] ==
        IF i = 0 THEN {[buffers |-> m_buffer, complete |-> TRUE]}
        ELSE UNION {CopyField(at, to, at.buffers[from][Projected(indices, i)], i) : at \in after[i - 1]}
  IN  after[Len(indices)]

\* BackedTuple::copy_from of a ProjectedTuple, or of a tuple as it is.  It
\* throws before it changes anything if the arities differ or the tuple is
\* read-only, and half-way if there is no conversion.
CopyFrom(o, source, indices) ==
  /\ ~m_readOnly[o]
  /\ Len(indices) = Len(Fields(o))
  /\ \A i \in 1..Len(indices) : indices[i] \in 1..Len(Fields(source))
  /\ \E outcome \in CopyOutcomes(m_location[o], m_location[source], indices) :
       /\ m_buffer' = outcome.buffers
       /\ copied' = IF ~outcome.complete THEN NoCopy ELSE
            [tuple |-> o, source |-> [i \in 1..Len(indices) |-> Fields(source)[indices[i]]]]
  /\ UNCHANGED <<m_location, m_readOnly, field>>

\* mutant: the generated copy constructor, which copies the location too
LocationOfCopyOfSource(o, source) == m_location[source]

LocationOfCopy(o, source) == o

\* the copy constructor of FreshTuple: a buffer of its own, not read-only
CopyConstruct(o, source) ==
  /\ m_location[o] = None
  /\ m_buffer' = [m_buffer EXCEPT ![o] = Fields(source)]
  /\ m_location' = [m_location EXCEPT ![o] = LocationOfCopy(o, source)]
  /\ copied' = NoCopy
  /\ UNCHANGED <<m_readOnly, field>>

\* FreshTuple::operator=, which does not ask whether the tuple is read-only.
\* With one signature the new contents fit in the old buffer.
Assign(o, source) ==
  /\ m_buffer' = [m_buffer EXCEPT ![o] = Fields(source)]
  /\ copied' = NoCopy
  /\ UNCHANGED <<m_location, m_readOnly, field>>

\* the generated copy of a BackedTuple: same memory, same flag
CopyBacked(o) ==
  /\ m_location' = [m_location EXCEPT ![Backed] = m_location[o]]
  /\ m_readOnly' = [m_readOnly EXCEPT ![Backed] = m_readOnly[o]]
  /\ copied' = NoCopy
  /\ UNCHANGED <<m_buffer, field>>

-----------------------------------------------------------------------------
Values == IntFields \cup DoubleFields
Others == Existing \ {Backed}

NextButCopying ==
  \/ \E o \in Existing : \E i \in 1..Len(Fields(o)) : GetField(o, i)
  \/ \E value \in Values : SetField(value)
  \/ \E o \in Existing : MakeReadOnly(o)
  \/ \E o \in FreshTuples, source \in Others : CopyConstruct(o, source)
  \/ \E o \in Others : CopyBacked(o)

CopySome ==
  \/ \E o, source \in Existing, indices \in Projections : CopyFrom(o, source, indices)
  \/ \E o, source \in Others : Assign(o, source)

\* what the interface lets callers do
Spec == Init /\ [][NextButCopying \/ CopySome]_vars

\* Careful callers do not rearrange a tuple's fields by copying a projection of
\* it to itself, and do not assign to a read-only tuple.
Overlap(o, source, indices) ==
  m_location[o] = m_location[source] /\ \E i \in 1..Len(indices) : indices[i] # i

CopyCarefully ==
  \/ \E o, source \in Existing, indices \in Projections :
       ~Overlap(o, source, indices) /\ CopyFrom(o, source, indices)
  \/ \E o, source \in Others : ~m_readOnly[o] /\ Assign(o, source)

CarefulSpec == Init /\ [][NextButCopying \/ CopyCarefully]_vars

-----------------------------------------------------------------------------
TypeOK ==
  /\ m_buffer \in [FreshTuples -> Seq(IntFields \cup DoubleFields \cup UuidFields)]
  /\ m_location \in [Objects -> FreshTuples \cup {None}]
  /\ m_readOnly \in [Objects -> BOOLEAN]
  /\ field.location \in FreshTuples \cup {None}

(***************************************************************************)
(* Each FreshTuple is backed by its own buffer (FreshTuple.h:16), however  *)
(* tuples are copied and assigned.                                         *)
(***************************************************************************)
FreshTuplesOwnTheirBuffers ==
  \A o, p \in FreshTuples \cap Existing : o # p => m_location[o] # m_location[p]

(***************************************************************************)
(* Memory changes only while some tuple or field that is not read-only     *)
(* refers to it; and once all of those are gone, nothing that is called on *)
(* the others brings one back, so it never changes again.                  *)
(***************************************************************************)
Writable(location) ==
  \/ \E o \in Existing : m_location[o] = location /\ ~m_readOnly[o]
  \/ field.location = location /\ ~field.readOnly

OnlyWritableMemoryChanges ==
  [][\A o \in FreshTuples \cap Existing :
       ~Writable(o) => m_buffer'[o] = m_buffer[o] /\ ~Writable(o)']_vars

(***************************************************************************)
(* "Makes this tuple read-only. Attempting to modify it will fail."        *)
(* (BackedTuple.h:76): the fields of a FreshTuple never change from then   *)
(* on, other than through tuples and fields that were handed out before.   *)
(***************************************************************************)
ReadOnlyTuplesStay ==
  [][\A o \in FreshTuples \cap Existing :
       m_readOnly[o] /\ m_location[Backed] # o /\ field.location # o => m_buffer'[o] = m_buffer[o]]_vars

(***************************************************************************)
(* copy_from() "copies the fields of the source tuple across to this       *)
(* tuple" (BackedTuple.h:59): each field is then the source's, converted.  *)
(***************************************************************************)
CopyIsFaithful ==
  copied # NoCopy =>
    \A i \in 1..Len(copied.source) :
      Fields(copied.tuple)[i].value \in Converted(Fields(copied.tuple)[i].type, copied.source[i])
=============================================================================
