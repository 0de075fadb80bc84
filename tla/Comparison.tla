----------------------------- MODULE Comparison -----------------------------
(***************************************************************************)
(* The comparison behind ASSERT_EQ, ASSERT_NE, CHECK_EQ and CHECK_NE of    *)
(* DeepState.hpp: Comparer, which compares two values as C does and, where *)
(* that says no, compares them again byte by byte.  The bytes are there    *)
(* for a symbolic executor or a fuzzer, which learns from each that        *)
(* matches; they must not change the answer.                               *)
(*                                                                         *)
(* A type is its sign and its number of bytes, the same for T, T & and     *)
(* Symbolic<T>; bool has none.  A byte has Byte values, 256 in the code.   *)
(***************************************************************************)
EXTENDS Integers

CONSTANTS Byte, IntBytes, MaxBytes

ASSUME WidthAssumption == /\ Byte \in Nat \ {0, 1} /\ IntBytes \in Nat \ {0}
                          /\ MaxBytes \in Nat /\ IntBytes <= MaxBytes

\* A fact of arithmetic that the provers do not know: n bytes have a natural number
\* of values.
ASSUME PowerAssumption == \A n \in 1..MaxBytes : Byte^n \in Nat \ {0}

Bool == [signed |-> FALSE, bytes |-> 0]
Type == {Bool} \cup [signed : BOOLEAN, bytes : 1..MaxBytes]

SizeOf(t) == IF t = Bool THEN 1 ELSE t.bytes

\* n converted to t.
Convert(n, t) ==
    IF t = Bool THEN (IF n = 0 THEN 0 ELSE 1)
    ELSE LET m == n % Byte^t.bytes
         IN  IF t.signed /\ 2 * m >= Byte^t.bytes THEN m - Byte^t.bytes ELSE m

Values(t) == {Convert(n, t) : n \in 0..(Byte^SizeOf(t) - 1)}

\* C's type for an operation on values of s and t: both are promoted, and of two
\* signs the unsigned one wins unless the other is wider.
Promoted(t) == IF t.bytes < IntBytes THEN [signed |-> TRUE, bytes |-> IntBytes] ELSE t

Common(s, t) ==
    LET p == Promoted(s) q == Promoted(t)
    IN  IF p.bytes > q.bytes \/ (p.bytes = q.bytes /\ ~p.signed) THEN p ELSE q

\* C's x op y, where x is of type s and y of type t.
Holds(op, s, x, t, y) ==
    LET c == Common(s, t)
    IN  IF op = "==" THEN Convert(x, c) = Convert(y, c) ELSE Convert(x, c) # Convert(y, c)

\* __cmp of _EXPAND_COMPARE: its parameters are of the operands' types, so what
\* is passed is converted first.
Cmp(op, A, x, B, y) == Holds(op, A, Convert(x, A), B, Convert(y, B))

Unsigned(t) == [signed |-> FALSE, bytes |-> IF t = Bool THEN IntBytes ELSE t.bytes]

\* The type the bytes are taken of.
BestType(A, B) ==
    LET UA == IF B.signed THEN A ELSE Unsigned(A)
        UB == IF A.signed THEN B ELSE Unsigned(B)
    IN  IF SizeOf(UA) > SizeOf(UB) THEN UA ELSE UB

\* DeepState_ZeroSink: "Always returns `0`".
ZeroSink == FALSE

\* Mutant: operands all of whose bytes match are taken to match.
ExpandedMatched(op, A, a, B, b) ==
    LET T == BestType(A, B)
        ByteOf(n, k) == (Convert(n, T) \div Byte^(SizeOf(T) - k)) % Byte
        from[k \in 0..SizeOf(T)] ==
            IF ~Cmp(op, A, ByteOf(a, k), B, ByteOf(b, k)) THEN ZeroSink
            ELSE IF k = 0 THEN TRUE ELSE from[k - 1]
    IN  from[SizeOf(T)]

\* ExpandedCompareIntegral: byte after byte, the lowest first, until one does not
\* compare, and once more when none is left.
Expanded(op, A, a, B, b) ==
    LET T == BestType(A, B)
        ByteOf(n, k) == (Convert(n, T) \div Byte^(SizeOf(T) - k)) % Byte
        from[k \in 0..SizeOf(T)] ==
            IF ~Cmp(op, A, ByteOf(a, k), B, ByteOf(b, k)) THEN ZeroSink
            ELSE IF k = 0 THEN ZeroSink ELSE from[k - 1]
    IN  from[SizeOf(T)]

\* Comparer<A, B>::Do; bool has no bytes to compare, if both operands are.
Comparer(op, A, a, B, b) ==
    \/ Cmp(op, A, a, B, b)
    \/ ~(A = Bool /\ B = Bool) /\ Expanded(op, A, a, B, b)

\* What an assertion may compare.
Operands == UNION {[op : {"==", "!="}, A : {A}, a : Values(A), B : {B}, b : Values(B)] :
                       A, B \in Type}
=============================================================================
