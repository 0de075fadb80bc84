----------------------------- MODULE Generators -----------------------------
(***************************************************************************)
(* The generators of RcppDeepState.h: each call draws a size, fills a      *)
(* vector or a matrix and, on one branch of OneOf, overwrites elements at  *)
(* drawn indices with values of its array missing_values.                  *)
(*                                                                         *)
(* An element is known by where its value comes from.  Every size and      *)
(* index goes through IntInRange, here InRange of SymbolicRange, with any  *)
(* input value x.  A matrix is its cells in one row, as the code uses it.  *)
(***************************************************************************)
EXTENDS SymbolicRange, FiniteSets

CONSTANTS
    MaxSize,    \* longest vector: 100 in the code
    MaxDim      \* most rows, and columns, of a matrix: 10 in the code

ASSUME SizeAssumption ==
    /\ MaxSize \in Nat /\ MaxSize < Half
    /\ MaxDim \in Nat \ {0} /\ MaxDim * MaxDim < Half

Vectors  == {"NumericVector", "IntegerVector", "CharacterVector"}
Matrices == {"NumericMatrix", "IntegerMatrix", "mat"}

\* Generators that choose between plain data and data with missing values.
WithMissing == (Vectors \cup Matrices) \ {"CharacterVector", "mat"}

VARIABLES
    gen,        \* the generator that runs
    ranged,     \* its overload with sizes and bounds as arguments is called
    pc,         \* "size", "branch", "fill", "inject", "done"
    missing,    \* OneOf took the branch that overwrites elements
    size,       \* number of elements
    elems,      \* elems[k]: where the value of element k comes from
    i,          \* index of the filling loop
    left,       \* elements the second loop has still to overwrite
    outside     \* indices written to that the vector does not have

vars == <<gen, ranged, pc, missing, size, elems, i, left, outside>>

\* "initial": never assigned; "range": DeepState_<T>InRange(low, high);
\* "any": an unrestricted value; "missing": NaN, an infinity or NA.
Source == {"initial", "range", "any", "missing"}

TypeOK ==
    /\ gen \in Vectors \cup Matrices
    /\ ranged \in BOOLEAN
    /\ pc \in {"size", "branch", "fill", "inject", "done"}
    /\ missing \in BOOLEAN
    /\ size \in 0..(Half - 1)
    /\ elems \in [0..(size - 1) -> Source]
    /\ i \in 0..size
    /\ left \in 0..5
    /\ outside \subseteq Signed

Init ==
    /\ gen \in Vectors \cup Matrices
    /\ ranged \in BOOLEAN /\ (ranged => gen \in WithMissing)
    /\ pc = "size" /\ missing = FALSE
    /\ size = 0 /\ elems = [k \in 0..(size - 1) |-> "initial"]
    /\ i = 0 /\ left = 0 /\ outside = {}

\* Rounds of the loop that overwrites elements.
Rounds == IF gen = "IntegerVector" THEN 2 ELSE 5

\* Mutant: the matrices' loops stop early as well.
FilledShort == IF missing THEN size - 1 ELSE size

\* Elements the filling loop assigns: one less for the numeric vector that
\* gets missing values.
Filled == IF gen = "NumericVector" /\ missing THEN size - 1 ELSE size

\* Mutant: the overloads with bounds draw as those without.
DrawnAnywhere == IF gen = "CharacterVector" THEN {"any", "missing"} ELSE {"any"}

\* What an element of the filling loop is drawn from.
Drawn == CASE gen = "CharacterVector" -> {"any", "missing"}
           [] gen = "mat" -> {"any"}
           [] gen \in Vectors /\ ~ranged -> {"any"}
           [] OTHER -> {"range"}

\* Mutant: the index of an element is drawn up to the number of elements.
IndexToSize(x) == InRange(0, size, x)

Index(x) == InRange(0, size - 1, x)

DrawnSizes ==
    IF gen \in Vectors THEN {InRange(0, MaxSize, x) : x \in Signed}
    ELSE {r * c : r, c \in {InRange(1, MaxDim, x) : x \in Signed}}

\* The sizes a caller of the other overloads passes, not checked; a negative
\* one does not get past the vector's constructor.
GivenSizes ==
    IF gen \in Vectors THEN 0..MaxSize ELSE {r * c : r, c \in 0..MaxDim}

DrawSize ==
    /\ pc = "size"
    /\ size' \in IF ranged THEN GivenSizes ELSE DrawnSizes
    /\ elems' = [k \in 0..(size' - 1) |-> "initial"]
    /\ pc' = IF gen \in WithMissing THEN "branch" ELSE "fill"
    /\ UNCHANGED <<gen, ranged, missing, i, left, outside>>

Branch ==
    /\ pc = "branch"
    /\ missing' \in BOOLEAN
    /\ pc' = "fill"
    /\ UNCHANGED <<gen, ranged, size, elems, i, left, outside>>

Fill ==
    /\ pc = "fill" /\ i < Filled
    /\ \E v \in Drawn : elems' = [elems EXCEPT ![i] = v]
    /\ i' = i + 1
    /\ UNCHANGED <<gen, ranged, pc, missing, size, left, outside>>

FillEnd ==
    /\ pc = "fill" /\ i >= Filled
    /\ pc' = IF missing THEN "inject" ELSE "done"
    /\ left' = IF missing THEN Rounds ELSE 0
    /\ UNCHANGED <<gen, ranged, missing, size, elems, i, outside>>

\* One element: missing_values[0] is an unrestricted draw, in both overloads.
Inject ==
    /\ pc = "inject" /\ left > 0
    /\ \E x \in Signed, v \in {"any", "missing"} :
           IF Index(x) \in 0..(size - 1)
           THEN elems' = [elems EXCEPT ![Index(x)] = v] /\ UNCHANGED outside
           ELSE outside' = outside \cup {Index(x)} /\ UNCHANGED elems
    /\ left' = left - 1
    /\ pc' = IF left = 1 THEN "done" ELSE pc
    /\ UNCHANGED <<gen, ranged, missing, size, i>>

Next == DrawSize \/ Branch \/ Fill \/ FillEnd \/ Inject

Spec == Init /\ [][Next]_vars

-----------------------------------------------------------------------------
(* What holds. *)

\* No index that is drawn or counted leaves a vector that has elements: the
\* drawn value that does not fit is brought into 0..size-1 whatever its sign
\* and size (RcppDeepState.h, all loops over i).
WritesInside == size > 0 => outside = {}

\* What a generator returns was drawn from the input everywhere, but for the
\* numeric vector's last element, which keeps R's 0 if no missing value hits it.
AllDrawn ==
    pc = "done" => \A k \in 0..(size - 1) :
        elems[k] = "initial" => gen = "NumericVector" /\ missing /\ k = size - 1

\* Of the elements of data with bounds, all are drawn within them when OneOf chose
\* the plain branch; else no more are not than the second loop has had rounds, and
\* of the numeric vector one more: the last, R's 0, which may lie outside as well.
FewOutOfRange ==
    ranged /\ pc \in {"inject", "done"} =>
        Cardinality({k \in 0..(size - 1) : elems[k] # "range"})
            <= IF missing THEN Rounds - left + (size - Filled) ELSE 0

\* Every initial element of a loop that runs lies ahead of it, and nothing is
\* written outside before the second loop.  With the type invariant and the
\* properties above this is what the steps preserve.
Progress ==
    /\ pc \in {"size", "branch"} => i = 0 /\ ~missing
    /\ pc \in {"size", "branch", "fill"} => outside = {}
    /\ pc = "fill" => \A k \in 0..(size - 1) : k < i => elems[k] # "initial"
    /\ pc = "inject" => /\ missing /\ left > 0 /\ left <= Rounds
                        /\ \A k \in 0..(size - 1) : elems[k] = "initial" =>
                               gen = "NumericVector" /\ k = size - 1

FillInv == TypeOK /\ Progress /\ WritesInside /\ AllDrawn

\* Only the overloads of generators with missing values have bounds, and what their
\* filling loop has passed lies within them.
RangedInv ==
    /\ ranged => gen \in WithMissing
    /\ ranged /\ pc = "fill" => \A k \in 0..(size - 1) : k < i => elems[k] = "range"
    /\ FewOutOfRange

IInv == FillInv /\ RangedInv

(***************************************************************************)
(* What comments say, and the code does not do.                            *)
(***************************************************************************)

\* DeepState.h, on the macro: "Return a symbolic value in a the range
\* `[low_inc, high_inc]`"; of a vector they drew without elements the generators
\* ask for an index from 0 to -1, get 0 or -1, and write to it.
IndexInRange == ~ranged => outside = {}
=============================================================================
