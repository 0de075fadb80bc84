------------------------- MODULE Generators_proofs -------------------------
(***************************************************************************)
(* The generators keep to their vectors and fill them, for every width of  *)
(* int, every bound on sizes below it, and whatever the input bytes.       *)
(***************************************************************************)
EXTENDS Generators, SymbolicRange_proofs, FiniteSetTheorems

\* The number of cells of a matrix is a value of int.
LEMMA CellsType ==
  ASSUME NEW r \in 0..MaxDim, NEW c \in 0..MaxDim
  PROVE  r * c \in 0..(Half - 1)
<1>1. r * c \in Nat /\ r * c <= MaxDim * MaxDim
  BY SizeAssumption
<1> QED BY <1>1, SizeAssumption, HalfAssumption

\* Sizes, drawn or given, are not negative and values of int.
LEMMA SizesType ==
  DrawnSizes \subseteq 0..(Half - 1) /\ GivenSizes \subseteq 0..(Half - 1)
<1>1. ASSUME NEW m \in 1..(Half - 1), NEW a \in 0..1, NEW x \in Signed
      PROVE  InRange(a, m, x) \in a..m
  BY <1>1, SignedInBounds, HalfAssumption DEF Between, Signed
<1>2. ASSUME NEW x \in Signed PROVE InRange(0, MaxSize, x) \in 0..MaxSize
  <2>1. CASE MaxSize = 0
    BY <2>1 DEF InRange, OrderedInRange
  <2> QED BY <1>1, <2>1, SizeAssumption, HalfAssumption
<1>3. MaxDim \in 1..(Half - 1)
  BY CellsType, SizeAssumption
<1>4. ASSUME NEW x \in Signed PROVE InRange(1, MaxDim, x) \in 0..MaxDim
  BY <1>1, <1>3
<1>5. 0..MaxSize \subseteq 0..(Half - 1)
  BY SizeAssumption, HalfAssumption
<1>6. DrawnSizes \subseteq 0..(Half - 1)
  BY <1>2, <1>4, <1>5, CellsType DEF DrawnSizes
<1> QED BY <1>5, <1>6, CellsType DEF GivenSizes

\* The index of an element, where there is one.
LEMMA IndexType ==
  ASSUME size \in 1..(Half - 1), NEW x \in Signed
  PROVE  Index(x) \in 0..(size - 1)
BY SignedInBounds, HalfAssumption DEF Index, Between, Signed

LEMMA InitFill == Init => FillInv
<1> SUFFICES ASSUME Init PROVE FillInv
  OBVIOUS
<1>1. size = 0 /\ size \in 0..(Half - 1) /\ elems \in [0..(size - 1) -> Source]
  BY HalfAssumption DEF Init, Source
<1>2. TypeOK
  <2>1. gen \in Vectors \cup Matrices /\ ranged \in BOOLEAN /\ missing \in BOOLEAN
    BY DEF Init
  <2>2. pc \in {"size", "branch", "fill", "inject", "done"}
    BY DEF Init
  <2>3. i \in 0..size /\ left \in 0..5 /\ outside \subseteq Signed
    BY <1>1 DEF Init
  <2> QED BY <1>1, <2>1, <2>2, <2>3 DEF TypeOK
<1> QED BY <1>1, <1>2 DEF Init, FillInv, Progress, WritesInside, AllDrawn

LEMMA NextFill == FillInv /\ [Next]_vars => FillInv'
<1> SUFFICES ASSUME FillInv, [Next]_vars PROVE FillInv'
  OBVIOUS
<1> USE HalfAssumption DEF FillInv
<1>1. CASE DrawSize
  <2>1. size' \in 0..(Half - 1)
    BY <1>1, SizesType DEF DrawSize
  <2>2. elems' \in [0..(size' - 1) -> Source]
    BY <1>1 DEF DrawSize, Source
  <2>3. i' \in 0..size' /\ pc' \in {"branch", "fill"}
    BY <1>1, <2>1 DEF DrawSize, Progress
  <2>4. UNCHANGED <<gen, ranged, missing, left, outside>>
    BY <1>1 DEF DrawSize
  <2>5. TypeOK'
    <3>1. gen' \in Vectors \cup Matrices /\ ranged' \in BOOLEAN /\ missing' \in BOOLEAN
      BY <2>4 DEF TypeOK
    <3>2. left' \in 0..5 /\ outside' \subseteq Signed
      BY <2>4 DEF TypeOK
    <3>3. pc' \in {"size", "branch", "fill", "inject", "done"}
      BY <2>3
    <3> QED BY <2>1, <2>2, <2>3, <3>1, <3>2, <3>3 DEF TypeOK
  <2>6. i' = 0 /\ ~missing' /\ outside' = {}
    BY <1>1 DEF DrawSize, Progress
  <2>7. Progress' /\ WritesInside' /\ AllDrawn'
    <3>1. \A k \in 0..(size' - 1) : ~(k < i')
      BY <2>1, <2>6
    <3>2. pc' # "size" /\ pc' # "inject" /\ pc' # "done"
      BY <2>3
    <3> QED BY <2>6, <3>1, <3>2 DEF Progress, WritesInside, AllDrawn
  <2> QED BY <2>5, <2>7
<1>2. CASE Branch
  BY <1>2 DEF Branch, TypeOK, Progress, WritesInside, AllDrawn
<1>3. CASE Fill
  <2>1. Filled <= size /\ i \in 0..(size - 1)
    BY <1>3 DEF Fill, Filled, TypeOK
  <2>2. PICK v \in Drawn : elems' = [elems EXCEPT ![i] = v]
    BY <1>3 DEF Fill
  <2>3. v \in Source \ {"initial"}
    BY <2>2 DEF Drawn, Source
  <2>4. TypeOK'
    BY <1>3, <2>1, <2>2, <2>3 DEF Fill, TypeOK
  <2> QED BY <1>3, <2>1, <2>2, <2>3, <2>4 DEF Fill, TypeOK, Progress, WritesInside, AllDrawn
<1>4. CASE FillEnd
  <2>1. \A k \in 0..(size - 1) : elems[k] = "initial" =>
            gen = "NumericVector" /\ missing /\ k = size - 1
    BY <1>4 DEF FillEnd, Filled, TypeOK, Progress
  <2>2. Rounds \in 1..5 /\ Rounds' = Rounds
    BY <1>4 DEF FillEnd, Rounds
  <2> QED BY <1>4, <2>1, <2>2 DEF FillEnd, TypeOK, Progress, WritesInside, AllDrawn
<1>5. CASE Inject
  <2>1. PICK x \in Signed, v \in {"any", "missing"} :
           IF Index(x) \in 0..(size - 1)
           THEN elems' = [elems EXCEPT ![Index(x)] = v] /\ UNCHANGED outside
           ELSE outside' = outside \cup {Index(x)} /\ UNCHANGED elems
    BY <1>5 DEF Inject
  <2>2. size > 0 => Index(x) \in 0..(size - 1)
    BY IndexType DEF TypeOK
  <2>3. Index(x) \in Signed
    <3>1. 0 \in Signed /\ size - 1 \in Signed
      BY DEF Signed, TypeOK
    <3>2. Index(x) \in Between(0, size - 1)
      BY <3>1, SignedInBounds DEF Index
    <3> QED BY <3>1, <3>2 DEF Between, Signed, TypeOK
  <2>4. v \in Source /\ v # "initial"
    BY DEF Source
  <2>5. TypeOK'
    BY <1>5, <2>1, <2>3, <2>4 DEF Inject, TypeOK
  <2>6. WritesInside'
    BY <1>5, <2>1, <2>2 DEF Inject, TypeOK, WritesInside
  <2>7. \A k \in 0..(size - 1) : elems'[k] = "initial" => elems[k] = "initial"
    BY <2>1, <2>4 DEF TypeOK
  <2>8. Progress' /\ AllDrawn'
    BY <1>5, <2>7 DEF Inject, TypeOK, Progress, AllDrawn, Rounds
  <2> QED BY <2>5, <2>6, <2>8
<1>6. CASE UNCHANGED vars
  BY <1>6 DEF vars, TypeOK, Progress, WritesInside, AllDrawn, Rounds
<1> QED BY <1>1, <1>2, <1>3, <1>4, <1>5, <1>6 DEF Next

-----------------------------------------------------------------------------
(* What lies out of the bounds. *)

Strays == {k \in 0..(size - 1) : elems[k] # "range"}

Allowed == IF missing THEN Rounds - left + (size - Filled) ELSE 0

LEMMA StraysFinite ==
  ASSUME TypeOK
  PROVE  IsFiniteSet(Strays) /\ Cardinality(Strays) \in Nat
<1>1. IsFiniteSet(0..(size - 1))
  BY FS_Interval, HalfAssumption DEF TypeOK
<1>2. IsFiniteSet(Strays)
  BY <1>1, FS_Subset DEF Strays
<1> QED BY <1>2, FS_CardinalityType

\* When the filling loop has ended, at most the element it left is not drawn.
LEMMA FilledWithin ==
  ASSUME IInv, ranged, FillEnd
  PROVE  /\ Cardinality(Strays) <= size - Filled /\ size - Filled \in 0..1
         /\ ~missing => Cardinality(Strays) = 0
<1>1. /\ size \in Nat /\ i \in 0..size /\ missing \in BOOLEAN
      /\ \A k \in 0..(size - 1) : k < i => elems[k] = "range"
  BY HalfAssumption DEF IInv, FillInv, TypeOK, RangedInv, FillEnd
<1>2. CASE Filled = size
  <2>1. Strays = {}
    BY <1>1, <1>2 DEF Strays, FillEnd
  <2> QED BY <1>1, <1>2, <2>1, FS_EmptySet
<1>3. CASE missing /\ Filled = size - 1
  <2>1. Strays \subseteq {size - 1}
    BY <1>1, <1>3 DEF Strays, FillEnd
  <2>2. IsFiniteSet({size - 1}) /\ Cardinality({size - 1}) = 1
    BY FS_Singleton
  <2>3. Cardinality(Strays) <= 1
    BY <2>1, <2>2, FS_Subset
  <2> QED BY <1>1, <1>3, <2>3
<1> QED BY <1>2, <1>3 DEF Filled

LEMMA InitRanged == Init => RangedInv
BY DEF Init, RangedInv, FewOutOfRange

\* A round of the second loop lets at most one more element out of the bounds, and
\* its end keeps what it has; the loop begins with what the first one left.
LEMMA NextRanged == IInv /\ [Next]_vars => RangedInv'
<1> SUFFICES ASSUME IInv, [Next]_vars, ranged'
             PROVE  /\ gen' \in WithMissing
                    /\ pc' = "fill" =>
                           \A k \in 0..(size' - 1) : k < i' => elems'[k] = "range"
                    /\ pc' \in {"inject", "done"} => Cardinality(Strays') <= Allowed'
  BY DEF RangedInv, FewOutOfRange, Strays, Allowed
<1>0. /\ ranged /\ TypeOK /\ Progress /\ gen \in WithMissing
      /\ pc = "fill" => \A k \in 0..(size - 1) : k < i => elems[k] = "range"
      /\ pc \in {"inject", "done"} => Cardinality(Strays) <= Allowed
      /\ IsFiniteSet(Strays) /\ Cardinality(Strays) \in Nat
  <2>1. ranged
    BY DEF Next, DrawSize, Branch, Fill, FillEnd, Inject, vars
  <2> QED BY <2>1, StraysFinite DEF IInv, FillInv, RangedInv, FewOutOfRange, Strays, Allowed
<1>1. gen' = gen
  BY DEF Next, DrawSize, Branch, Fill, FillEnd, Inject, vars
<1>2. CASE DrawSize
  <2>1. pc' = "branch"
    BY <1>0, <1>2 DEF DrawSize
  <2> QED BY <1>0, <1>1, <2>1
<1>3. CASE Branch
  <2>1. pc' = "fill" /\ i' = 0 /\ size' \in Nat
    BY <1>0, <1>3, HalfAssumption DEF Branch, Progress, TypeOK
  <2>2. \A k \in 0..(size' - 1) : ~(k < i')
    BY <2>1
  <2> QED BY <1>0, <1>1, <2>1, <2>2
<1>4. CASE Fill
  <2>1. Drawn = {"range"}
    BY <1>0 DEF Drawn, WithMissing, Vectors, Matrices
  <2>2. elems' = [elems EXCEPT ![i] = "range"] /\ i' = i + 1 /\ size' = size
        /\ pc' = "fill" /\ pc = "fill"
    BY <1>4, <2>1 DEF Fill
  <2>3. \A k \in 0..(size - 1) : k < i + 1 => elems'[k] = "range"
    BY <1>0, <2>2, HalfAssumption DEF TypeOK
  <2> QED BY <1>0, <1>1, <2>2, <2>3
<1>5. CASE FillEnd
  <2>1. /\ UNCHANGED <<elems, size, missing, gen>> /\ pc' \in {"inject", "done"}
        /\ left' = IF missing THEN Rounds ELSE 0
    BY <1>5 DEF FillEnd
  <2>2. Strays' = Strays
    BY <2>1 DEF Strays
  <2>3. Allowed' = IF missing THEN size - Filled ELSE 0
    <3>1. Rounds' = Rounds /\ Filled' = Filled /\ Rounds \in Nat
      BY <2>1 DEF Rounds, Filled
    <3>2. size - Filled \in Nat
      BY <1>0, <1>5, FilledWithin
    <3> QED BY <2>1, <3>1, <3>2 DEF Allowed
  <2> QED BY <1>0, <1>1, <1>5, <2>1, <2>2, <2>3, FilledWithin
<1>6. CASE Inject
  <2>1. PICK x \in Signed, v \in {"any", "missing"} :
           IF Index(x) \in 0..(size - 1)
           THEN elems' = [elems EXCEPT ![Index(x)] = v] /\ UNCHANGED outside
           ELSE outside' = outside \cup {Index(x)} /\ UNCHANGED elems
    BY <1>6 DEF Inject
  <2>2. size' = size /\ missing /\ missing' /\ left \in Nat /\ left' = left - 1
        /\ pc = "inject" /\ pc' \in {"inject", "done"}
    BY <1>0, <1>6 DEF Inject, Progress, TypeOK
  <2>3. Strays' \subseteq Strays \cup {Index(x)}
    BY <1>0, <2>1, <2>2 DEF Strays, TypeOK
  <2>4. /\ IsFiniteSet(Strays \cup {Index(x)})
        /\ Cardinality(Strays \cup {Index(x)}) \in {Cardinality(Strays), Cardinality(Strays) + 1}
    BY <1>0, FS_AddElement
  <2>5. Cardinality(Strays') <= Cardinality(Strays) + 1 /\ Cardinality(Strays') \in Nat
    <3>1. IsFiniteSet(Strays') /\ Cardinality(Strays') <= Cardinality(Strays \cup {Index(x)})
      BY <2>3, <2>4, FS_Subset
    <3>2. Cardinality(Strays') \in Nat
      BY <3>1, FS_CardinalityType
    <3> QED BY <1>0, <2>4, <3>1, <3>2
  <2>6. Allowed' = Allowed + 1 /\ Allowed \in Int
    <3>1. Rounds' = Rounds /\ Filled' = Filled /\ Rounds \in Nat /\ Filled \in Int
      BY <1>0, <1>1, <2>2, HalfAssumption DEF Rounds, Filled, TypeOK
    <3>2. size \in Int
      BY <1>0, HalfAssumption DEF TypeOK
    <3>3. /\ Allowed = Rounds - left + (size - Filled)
          /\ Allowed' = Rounds - (left - 1) + (size - Filled)
      BY <2>2, <3>1 DEF Allowed
    <3> QED BY <2>2, <3>1, <3>2, <3>3
  <2> QED BY <1>0, <1>1, <2>2, <2>5, <2>6
<1>7. CASE UNCHANGED vars
  <2>1. UNCHANGED <<gen, pc, missing, size, elems, i, left>>
    BY <1>7 DEF vars
  <2>2. Strays' = Strays /\ Allowed' = Allowed
    BY <2>1 DEF Strays, Allowed, Rounds, Filled
  <2> QED BY <1>0, <2>1, <2>2
<1> QED BY <1>2, <1>3, <1>4, <1>5, <1>6, <1>7 DEF Next

-----------------------------------------------------------------------------

\* What every step of a generator keeps.
THEOREM Invariance == Spec => []IInv
<1>1. Init => IInv
  BY InitFill, InitRanged DEF IInv
<1>2. IInv /\ [Next]_vars => IInv'
  BY NextFill, NextRanged DEF IInv
<1> QED BY <1>1, <1>2, PTL DEF Spec

\* A generator writes to no place its vector does not have, if it has elements.
THEOREM StaysInside == Spec => []WritesInside
<1>1. IInv => WritesInside
  BY DEF IInv, FillInv
<1> QED BY <1>1, Invariance, PTL

\* The data returned was drawn from the input, but for one known element.
THEOREM ReturnsDrawn == Spec => []AllDrawn
<1>1. IInv => AllDrawn
  BY DEF IInv, FillInv
<1> QED BY <1>1, Invariance, PTL

\* Of data with bounds all is drawn within them on the plain branch; on the other no
\* more elements are not than the loop of missing values has had rounds, and of the
\* numeric vector one more, which its filling loop leaves.
THEOREM FewAreOutOfRange == Spec => []FewOutOfRange
<1>1. IInv => FewOutOfRange
  BY DEF IInv, RangedInv
<1> QED BY <1>1, Invariance, PTL
=============================================================================
