--------------------------- MODULE SymbolicRange ---------------------------
(***************************************************************************)
(* DeepState_<T>InRange(low, high), the macro every generator of           *)
(* RcppDeepState.h draws sizes, indices and values with.  x is the value   *)
(* DeepState_<T>() reads from the input bytes: any value of the type.      *)
(*                                                                         *)
(* A type of w bits is given by Half = 2^(w-1).  Arithmetic wraps around:  *)
(* for the unsigned types by definition, for short and char because int    *)
(* results are converted back, and for int and long because the harness is *)
(* built without optimisation, where the machine's arithmetic shows.       *)
(* DeepState_UsingSymExec is off: nothing in RcppDeepState turns it on.    *)
(***************************************************************************)
EXTENDS Integers

CONSTANT Half

ASSUME HalfAssumption == Half \in Nat \ {0}

Signed   == -Half..(Half - 1)
Unsigned == 0..(2 * Half - 1)

\* The value of the type an operation on two of its values leaves.
Wrap(n) == IF n < -Half THEN n + 2 * Half
           ELSE IF n >= Half THEN n - 2 * Half ELSE n
UWrap(n) == IF n < 0 THEN n + 2 * Half
            ELSE IF n >= 2 * Half THEN n - 2 * Half ELSE n

Abs(n) == IF n < 0 THEN -n ELSE n

\* C's remainder, which has the sign of the dividend; m is not 0.
Rem(n, m) == IF n < 0 THEN -(Abs(n) % Abs(m)) ELSE n % Abs(m)

\* Number of values from low to high, as far as the type can tell.
Size(low, high) == Wrap(Wrap(high - low) + 1)
USize(low, high) == UWrap(UWrap(high - low) + 1)

\* Mutant: the smallest value, which is its own negation, stays negative.
NonNegativeOnce(x) == IF x < 0 THEN Wrap(-x) ELSE x

NonNegative(x) ==
    LET y == IF x < 0 THEN Wrap(-x) ELSE x
    IN  IF y < 0 THEN 0 ELSE y

\* Ordered bounds; a value outside of them is reduced by the range's size.
OrderedInRange(low, high, x) ==
    IF low = high THEN low
    ELSE IF x < low \/ x > high
         THEN Wrap(low + Rem(NonNegative(x), Size(low, high)))
         ELSE x

InRange(low, high, x) ==
    IF low > high THEN OrderedInRange(high, low, x)
                  ELSE OrderedInRange(low, high, x)

UOrderedInRange(low, high, x) ==
    IF low = high THEN low
    ELSE IF x < low \/ x > high THEN UWrap(low + (x % USize(low, high))) ELSE x

UInRange(low, high, x) ==
    IF low > high THEN UOrderedInRange(high, low, x)
                  ELSE UOrderedInRange(low, high, x)

\* The values a call may return: those between its arguments, in either order.
Between(a, b) == IF a <= b THEN a..b ELSE b..a
=============================================================================
