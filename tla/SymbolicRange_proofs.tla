------------------------ MODULE SymbolicRange_proofs ------------------------
(***************************************************************************)
(* What DeepState_<T>InRange returns, for a type of any width.             *)
(***************************************************************************)
EXTENDS SymbolicRange, TLAPS

\* A remainder by a positive number is below it.
LEMMA ModBound ==
  ASSUME NEW n \in Nat, NEW m \in Nat \ {0}
  PROVE  n % m \in 0..(m - 1) /\ n % m <= n
OBVIOUS

\* Wrapping stays in the type, for what one operation can leave.
LEMMA WrapType ==
  ASSUME NEW n \in (-3 * Half)..(3 * Half - 1)
  PROVE  Wrap(n) \in Signed /\ (n \in Signed => Wrap(n) = n)
BY HalfAssumption DEF Wrap, Signed

\* The value that is reduced is a value of the type that is not negative.
LEMMA NonNegativeType ==
  ASSUME NEW x \in Signed
  PROVE  NonNegative(x) \in 0..(Half - 1)
BY HalfAssumption DEF NonNegative, Wrap, Signed

\* If a value lies outside low..high, the number of values of the range is not
\* the whole type's: it does not wrap around to 0, and what it wraps around to
\* is, up to its sign, no more than the number of values.
LEMMA SizeNonZero ==
  ASSUME NEW low \in Signed, NEW high \in Signed, NEW x \in Signed,
         low < high, x < low \/ x > high
  PROVE  /\ Size(low, high) \in Signed \ {0}
         /\ Abs(Size(low, high)) \in 1..(high - low + 1)
<1>1. high - low \in 1..(2 * Half - 2)
  BY HalfAssumption DEF Signed
<1>2. Wrap(high - low) = IF high - low >= Half THEN high - low - 2 * Half ELSE high - low
  BY <1>1, HalfAssumption DEF Wrap
<1>3. CASE high - low + 1 < Half
  BY <1>1, <1>2, <1>3, HalfAssumption DEF Size, Wrap, Abs, Signed
<1>4. CASE high - low + 1 >= Half
  BY <1>1, <1>2, <1>4, HalfAssumption DEF Size, Wrap, Abs, Signed
<1> QED BY <1>1, <1>3, <1>4, HalfAssumption DEF Signed

\* An ordered call stays within its bounds; adding low does not overflow.
LEMMA OrderedInBounds ==
  ASSUME NEW low \in Signed, NEW high \in Signed, NEW x \in Signed, low <= high
  PROVE  OrderedInRange(low, high, x) \in low..high
<1>1. CASE low = high \/ ~(x < low \/ x > high)
  BY <1>1 DEF OrderedInRange, Signed
<1>2. CASE low # high /\ (x < low \/ x > high)
  <2> DEFINE m == Abs(Size(low, high))
             y == NonNegative(x)
  <2>1. m \in 1..(high - low + 1) /\ y \in 0..(Half - 1)
    BY <1>2, SizeNonZero, NonNegativeType DEF Signed
  <2>2. y % m \in 0..(m - 1)
    BY <2>1, ModBound, HalfAssumption DEF Signed
  <2>3. Rem(y, Size(low, high)) = y % m
    BY <2>1 DEF Rem
  <2> HIDE DEF m, y
  <2>4. low + (y % m) \in low..high
    BY <2>1, <2>2 DEF Signed
  <2>5. Wrap(low + (y % m)) = low + (y % m)
    BY <2>4, HalfAssumption DEF Wrap, Signed
  <2>6. OrderedInRange(low, high, x) = Wrap(low + (y % m))
    BY <1>2, <2>3 DEF OrderedInRange, y
  <2> QED BY <2>4, <2>5, <2>6
<1> QED BY <1>1, <1>2

\* DeepState_<T>InRange of a signed type returns a value between its arguments,
\* whatever the input bytes and however wide the range.
THEOREM SignedInBounds ==
  ASSUME NEW low \in Signed, NEW high \in Signed, NEW x \in Signed
  PROVE  InRange(low, high, x) \in Between(low, high)
<1>1. CASE low > high
  BY <1>1, OrderedInBounds DEF InRange, Between, Signed
<1>2. CASE low <= high
  BY <1>2, OrderedInBounds DEF InRange, Between, Signed
<1> QED BY <1>1, <1>2 DEF Signed

\* Every value between the arguments can be returned: the input that holds it.
LEMMA SignedReachesAll ==
  ASSUME NEW low \in Signed, NEW high \in Signed, NEW x \in Between(low, high)
  PROVE  x \in Signed /\ InRange(low, high, x) = x
BY HalfAssumption DEF InRange, OrderedInRange, Between, Signed

\* The unsigned types: the range's size is 0 only for the whole type, whose
\* range no value lies outside of, and the result is between the arguments.
THEOREM UnsignedInBounds ==
  ASSUME NEW low \in Unsigned, NEW high \in Unsigned, NEW x \in Unsigned
  PROVE  UInRange(low, high, x) \in Between(low, high)
<1>1. ASSUME NEW a \in Unsigned, NEW b \in Unsigned, a <= b
      PROVE  UOrderedInRange(a, b, x) \in a..b
  <2>1. CASE a = b \/ ~(x < a \/ x > b)
    BY <1>1, <2>1 DEF UOrderedInRange, Unsigned
  <2>2. CASE a # b /\ (x < a \/ x > b)
    <3>1. USize(a, b) = b - a + 1 /\ b - a + 1 \in Nat \ {0}
      BY <1>1, <2>2, HalfAssumption DEF USize, UWrap, Unsigned
    <3>2. x % (b - a + 1) \in 0..(b - a)
      BY <3>1, ModBound DEF Unsigned
    <3>3. UWrap(a + (x % (b - a + 1))) = a + (x % (b - a + 1))
      BY <1>1, <3>2, HalfAssumption DEF UWrap, Unsigned
    <3> QED BY <1>1, <2>2, <3>1, <3>2, <3>3 DEF UOrderedInRange, Unsigned
  <2> QED BY <2>1, <2>2
<1> QED BY <1>1 DEF UInRange, Between, Unsigned
=============================================================================
