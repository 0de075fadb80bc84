---------------------------- MODULE Draws_proofs ----------------------------
(***************************************************************************)
(* What a test draws is what it asked for: every value in reach and no     *)
(* other, for types of any width and any number of options, on the inputs  *)
(* as on the runs of a symbolic executor.                                  *)
(***************************************************************************)
EXTENDS Draws, SymbolicRange_proofs, FiniteSetTheorems, WellFoundedInduction

-----------------------------------------------------------------------------
(* Ranges. *)

\* The input that holds a value of the range gets it, for the unsigned types too.
LEMMA UnsignedReachesAll ==
  ASSUME NEW low \in Unsigned, NEW high \in Unsigned, NEW x \in Between(low, high)
  PROVE  x \in Unsigned /\ UInRange(low, high, x) = x
BY HalfAssumption DEF UInRange, UOrderedInRange, Between, Unsigned

\* DeepState_UIntInRange(0, high) draws each index up to high, and no other, on the
\* inputs as on the runs of a symbolic executor.
LEMMA EachIndex ==
  ASSUME NEW high \in Unsigned, NEW symbolic \in BOOLEAN
  PROVE  IndexUpTo(high, symbolic) = 0..high
<1>1. 0 \in Unsigned /\ Between(0, high) = 0..high
  BY HalfAssumption DEF Unsigned, Between
<1>2. \A x \in Unsigned : UInRange(0, high, x) \in 0..high
  BY <1>1, UnsignedInBounds
<1>3. \A x \in 0..high : x \in Unsigned /\ UInRange(0, high, x) = x
  BY <1>1, UnsignedReachesAll
<1> QED BY <1>2, <1>3 DEF IndexUpTo

\* The same of DeepState_IntInRange(0, high).
LEMMA EachElement ==
  ASSUME NEW high \in Signed, 0 <= high
  PROVE  {InRange(0, high, x) : x \in Signed} = 0..high
<1>1. 0 \in Signed /\ Between(0, high) = 0..high
  BY HalfAssumption DEF Signed, Between
<1>2. \A x \in Signed : InRange(0, high, x) \in 0..high
  BY <1>1, SignedInBounds
<1>3. \A x \in 0..high : x \in Signed /\ InRange(0, high, x) = x
  BY <1>1, SignedReachesAll
<1> QED BY <1>2, <1>3

-----------------------------------------------------------------------------
(* Pump. *)

\* A nonempty set of natural numbers has a least one.
LEMMA LeastExists ==
  ASSUME NEW S \in SUBSET Nat, S # {}
  PROVE  \E e \in S : \A d \in S : e <= d
<1> DEFINE R == {ss \in Nat \X Nat : ss[1] < ss[2]}
<1>1. IsWellFoundedOn(R, Nat)
  BY NatLessThanWellFounded DEF OpToRel
<1>2. PICK e \in S : \A d \in S : ~(<<d, e>> \in R)
  <2> HIDE DEF R
  <2> QED BY <1>1, WFMin
<1>3. ASSUME NEW d \in S PROVE e <= d
  <2>1. <<d, e>> \in Nat \X Nat /\ <<d, e>>[1] = d /\ <<d, e>>[2] = e
    OBVIOUS
  <2> QED BY <1>2, <2>1
<1> QED BY <1>3

\* The least of the indices from a to b.
LEMMA LeastIndex ==
  ASSUME NEW a \in Nat, NEW b \in Nat, a <= b
  PROVE  Minimize(a..b) = a
<1>1. \E m \in a..b : \A n \in a..b : m <= n
  <2>1. a \in a..b /\ \A n \in a..b : a <= n
    OBVIOUS
  <2> QED BY <2>1
<1>2. Minimize(a..b) \in a..b /\ \A n \in a..b : Minimize(a..b) <= n
  BY <1>1 DEF Minimize
<1> QED BY <1>2

\* After k rounds the indices below k are gone.
LEMMA RoundsLeave ==
  ASSUME NEW high \in Nat
  PROVE  \A k \in 0..(high + 1) : LeftAfter(0..high, high + 1)[k] = k..high
<1> DEFINE N == high + 1
           Without(S) == {v \in S : v # Minimize(S)}
           Step(f) == [k \in 0..N |-> IF k = 0 THEN 0..high ELSE Without(f[k - 1])]
           left == CHOOSE f : f = Step(f)
           rest == [k \in 0..N |-> k..high]
<1>1. LeftAfter(0..high, N) = left
  BY DEF LeftAfter
<1>2. ASSUME NEW k \in 1..N PROVE Without((k - 1)..high) = k..high
  <2>1. k - 1 \in Nat /\ k - 1 <= high
    OBVIOUS
  <2>2. Minimize((k - 1)..high) = k - 1
    BY <2>1, LeastIndex
  <2> QED BY <2>2
<1> HIDE DEF Without
<1>3. rest = Step(rest)
  <2>1. \A k \in 1..N : rest[k - 1] = (k - 1)..high
    OBVIOUS
  <2>2. \A k \in 0..N : rest[k] = IF k = 0 THEN 0..high ELSE Without(rest[k - 1])
    BY <1>2, <2>1
  <2> QED BY <2>2
<1>4. left = Step(left)
  <2> HIDE DEF rest, Step
  <2> QED BY <1>3
<1>5. left[0] = 0..high /\ \A k \in 1..N : left[k] = Without(left[k - 1])
  <2> HIDE DEF left
  <2> QED BY <1>4
<1> HIDE DEF left
<1> DEFINE Wrong == {k \in 0..N : left[k] # k..high}
<1>6. Wrong = {}
  <2> SUFFICES ASSUME Wrong # {} PROVE FALSE
    OBVIOUS
  <2>1. PICK k \in Wrong : \A d \in Wrong : k <= d
    <3>1. Wrong \in SUBSET Nat
      OBVIOUS
    <3> HIDE DEF Wrong
    <3> QED BY <3>1, LeastExists
  <2>2. k \in 1..N
    BY <1>5
  <2>3. k - 1 \in 0..N /\ k - 1 \notin Wrong
    BY <2>1, <2>2
  <2>4. left[k - 1] = (k - 1)..high
    BY <2>3
  <2>5. left[k] = k..high
    BY <1>2, <1>5, <2>2, <2>4
  <2> QED BY <2>1, <2>5
<1> QED BY <1>1, <1>6

\* Pump, told how many values there are, splits a run into one of each.
LEMMA EachPumped ==
  ASSUME NEW high \in Nat, NEW symbolic \in BOOLEAN
  PROVE  Pump(0..high, symbolic, high + 1) = 0..high
<1>1. CASE ~symbolic
  BY <1>1 DEF Pump
<1>2. CASE symbolic
  <2> DEFINE left == LeftAfter(0..high, high + 1)
  <2>1. Pump(0..high, symbolic, high + 1) =
            {Minimize(left[k]) : k \in {j \in 0..((high + 1) - 1) : left[j] # {}}}
    BY <1>2 DEF Pump
  <2>2. (high + 1) - 1 = high
    OBVIOUS
  <2>3. \A k \in 0..high : left[k] = k..high
    BY RoundsLeave
  <2> HIDE DEF left
  <2>4. \A k \in 0..high : left[k] # {} /\ Minimize(left[k]) = k
    <3> SUFFICES ASSUME NEW k \in 0..high PROVE left[k] # {} /\ Minimize(left[k]) = k
      OBVIOUS
    <3>1. left[k] = k..high /\ k \in k..high
      BY <2>3
    <3>2. Minimize(k..high) = k
      BY LeastIndex
    <3> QED BY <3>1, <3>2
  <2> QED BY <2>1, <2>2, <2>4
<1> QED BY <1>1, <1>2

-----------------------------------------------------------------------------
(* The calls. *)

LEMMA LengthsType == \A n \in Length : n \in Nat /\ n \in Unsigned /\ (n # 0 => n - 1 \in Signed)
BY ChoiceAssumption, HalfAssumption DEF Length, Unsigned, Signed

\* A map from m options has as many entries.
LEMMA MapDomain ==
  ASSUME NEW fmap \in Maps
  PROVE  /\ Cardinality(DOMAIN fmap) \in Nat \ {0} /\ Cardinality(DOMAIN fmap) \in Length
         /\ DOMAIN fmap = 0..(Cardinality(DOMAIN fmap) - 1)
<1> DEFINE Onto(m, n) == [0..(m - 1) -> 0..(n - 1)]
<1>1. PICK m \in 1..MaxChoice, n \in 1..MaxChoice : fmap \in Onto(m, n)
  <2> HIDE DEF Onto
  <2>1. Maps = UNION {Onto(m, n) : m, n \in 1..MaxChoice}
    BY DEF Maps, Onto
  <2> QED BY <2>1
<1>2. DOMAIN fmap = 0..(m - 1) /\ m \in Nat \ {0} /\ m \in Length
  BY <1>1, ChoiceAssumption DEF Length
<1>3. Cardinality(0..(m - 1)) = m
  <2>1. Cardinality(0..(m - 1)) = IF 0 > m - 1 THEN 0 ELSE (m - 1) - 0 + 1
    BY <1>2, FS_Interval
  <2> QED BY <1>2, <2>1
<1> QED BY <1>2, <1>3

\* OneOf draws what its options map to.
LEMMA EachOption ==
  ASSUME NEW fmap \in Maps, NEW symbolic \in BOOLEAN
  PROVE  /\ OneOfFunctions(fmap, symbolic) = {fmap[k] : k \in DOMAIN fmap}
         /\ \A n : n # 0 => OneOfElements(n, TRUE, fmap, symbolic) = {fmap[k] : k \in DOMAIN fmap}
<1> DEFINE count == Cardinality(DOMAIN fmap)
<1>1. count \in Nat \ {0} /\ count \in Length /\ DOMAIN fmap = 0..(count - 1)
  BY MapDomain
<1> HIDE DEF count
<1>2. count - 1 \in Unsigned /\ count - 1 \in Nat /\ (count - 1) + 1 = count
  BY <1>1, ChoiceAssumption, HalfAssumption DEF Unsigned, Length
<1>3. IndexUpTo(count - 1, symbolic) = DOMAIN fmap
  BY <1>1, <1>2, EachIndex
<1>4. Pump(DOMAIN fmap, symbolic, count) = DOMAIN fmap
  BY <1>1, <1>2, EachPumped
<1>5. OneOfFunctions(fmap, symbolic) =
          {fmap[k] : k \in Pump(IndexUpTo(count - 1, symbolic), symbolic, count)}
  BY DEF OneOfFunctions, count
<1>6. \A n : n # 0 => OneOfElements(n, TRUE, fmap, symbolic) =
          {fmap[k] : k \in IndexUpTo(count - 1, symbolic)}
  BY DEF OneOfElements, count
<1> QED BY <1>3, <1>4, <1>5, <1>6

\* A call looked at: what is read from the input is a value of the range's type.
DrawTypeOK ==
    /\ call \in Call
    /\ call.kind = "range" => input \in IF call.signed THEN Signed ELSE Unsigned

\* Each kind of call is a set of records of its own.
LEMMA Kinds ==
  ASSUME call \in Call
  PROVE  /\ call.kind = "range" => call \in RangeCall
         /\ call.kind = "functions" => call \in FunctionsCall
         /\ call.kind = "elements" => call \in ElementsCall
         /\ call.kind = "length" => call \in LengthCall
         /\ call.kind = "klee" => call \in KleeCall
<1>1. \A c \in RangeCall : c.kind = "range"
  BY DEF RangeCall
<1>2. \A c \in FunctionsCall : c.kind = "functions"
  BY DEF FunctionsCall
<1>3. \A c \in ElementsCall : c.kind = "elements"
  BY DEF ElementsCall
<1>4. \A c \in LengthCall : c.kind = "length"
  BY DEF LengthCall
<1>5. \A c \in KleeCall : c.kind = "klee"
  BY DEF KleeCall
<1> QED BY <1>1, <1>2, <1>3, <1>4, <1>5 DEF Call

\* What is looked at stays a call of its types.
THEOREM DrawsType == DrawSpec => []DrawTypeOK
<1>1. DrawInit => DrawTypeOK
  <2>1. 0 \in Signed /\ 0 \in Unsigned
    BY HalfAssumption DEF Signed, Unsigned
  <2> QED BY <2>1 DEF DrawInit, DrawTypeOK
<1>2. DrawTypeOK /\ [Read]_drawVars => DrawTypeOK'
  BY DEF DrawTypeOK, Read, drawVars
<1> QED BY <1>1, <1>2, PTL DEF DrawSpec

\* DeepState_<T>InRange returns a value between its arguments, whatever the input.
THEOREM RangeInBounds == DrawSpec => []InBounds
<1>1. DrawTypeOK => InBounds
  <2> SUFFICES ASSUME DrawTypeOK, call.kind = "range"
               PROVE  Value \in Between(call.low, call.high)
    BY DEF InBounds
  <2>1. call \in RangeCall
    BY Kinds DEF DrawTypeOK
  <2>2. CASE call.signed
    BY <2>1, <2>2, SignedInBounds DEF DrawTypeOK, RangeCall, Value
  <2>3. CASE ~call.signed
    BY <2>1, <2>3, UnsignedInBounds DEF DrawTypeOK, RangeCall, Value
  <2> QED BY <2>2, <2>3
<1> QED BY <1>1, DrawsType, PTL

\* Each option, length and number is drawn, and no other.
THEOREM EachIsReached == DrawSpec => []AllReached
<1>1. ASSUME DrawTypeOK, call.kind = "functions" PROVE Results = Asked
  <2>1. call.fmap \in Maps /\ call.symbolic \in BOOLEAN
    BY <1>1, Kinds DEF DrawTypeOK, FunctionsCall
  <2> QED BY <1>1, <2>1, EachOption DEF Results, Asked
<1>2. ASSUME DrawTypeOK, call.kind = "elements" PROVE Results = Asked
  <2>1. /\ call \in [kind : {"elements"}, n : Length, swarm : BOOLEAN,
                      fmap : Maps \cup {Each(0)}, symbolic : BOOLEAN]
        /\ call.swarm => DOMAIN call.fmap # {}
    BY <1>2, Kinds DEF DrawTypeOK, ElementsCall
  <2>2. call.n \in Length /\ call.symbolic \in BOOLEAN /\ call.swarm \in BOOLEAN
    BY <2>1
  <2>3. CASE call.n = 0
    BY <1>2, <2>3 DEF Results, Asked, OneOfElements
  <2>4. CASE call.n # 0 /\ call.swarm
    <3>1. call.fmap \in Maps
      BY <2>1, <2>4 DEF Each
    <3> QED BY <1>2, <2>2, <2>4, <3>1, EachOption DEF Results, Asked, OneOfElements
  <2>5. CASE call.n # 0 /\ ~call.swarm
    <3>1. {InRange(0, call.n - 1, x) : x \in Signed} = 0..(call.n - 1)
      BY <2>2, <2>5, LengthsType, EachElement
    <3> QED BY <1>2, <2>2, <2>5, <3>1 DEF Results, Asked, OneOfElements
  <2> QED BY <2>2, <2>3, <2>4, <2>5
<1>3. ASSUME DrawTypeOK, call.kind = "length"
      PROVE  Results = IF call.names_swarm THEN {call.max_len} ELSE Asked
  <2>1. call.max_len \in Length /\ call.symbolic \in BOOLEAN /\ call.names_swarm \in BOOLEAN
    BY <1>3, Kinds DEF DrawTypeOK, LengthCall
  <2>2. Pump(IndexUpTo(call.max_len, call.symbolic), call.symbolic, call.max_len + 1) =
            0..call.max_len
    BY <2>1, LengthsType, EachIndex, EachPumped
  <2> QED BY <1>3, <2>1, <2>2 DEF Results, Asked, UpToLen
<1>4. ASSUME DrawTypeOK, call.kind = "klee" PROVE Results = Asked
  <2>1. call.n \in Unsigned
    BY <1>4, Kinds DEF DrawTypeOK, KleeCall
  <2>2. KleeChoose(call.n) = 0..(call.n - 1) \cup {Gone}
    <3>1. KleeChoose(call.n) \subseteq 0..(call.n - 1) \cup {Gone}
      BY <2>1 DEF KleeChoose, Unsigned
    <3>2. 0..(call.n - 1) \subseteq KleeChoose(call.n)
      BY <2>1, HalfAssumption DEF KleeChoose, Unsigned
    <3>3. Gone \in KleeChoose(call.n)
      <4>1. 2 * Half - 1 \in Unsigned /\ call.n <= 2 * Half - 1
        BY <2>1, HalfAssumption DEF Unsigned
      <4> QED BY <4>1 DEF KleeChoose
    <3> QED BY <3>1, <3>2, <3>3
  <2> QED BY <1>4, <2>2 DEF Results, Asked
<1>5. DrawTypeOK => AllReached
  BY <1>1, <1>2, <1>3, <1>4 DEF AllReached
<1> QED BY <1>5, DrawsType, PTL
=============================================================================
