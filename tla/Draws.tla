------------------------------- MODULE Draws --------------------------------
(***************************************************************************)
(* What a test draws besides plain values, from DeepState.hpp and Klee.h:  *)
(* one of several functions or elements (OneOf), the length of a string    *)
(* (the macros ...UpToLen) and one of n numbers (klee_choose).  But for    *)
(* the last they go through DeepState_<T>InRange, here InRange and         *)
(* UInRange of SymbolicRange.                                              *)
(*                                                                         *)
(* Under a symbolic executor an index is not a number but the numbers it   *)
(* may be, and Pump splits the run, one value to each.  So a call is       *)
(* described by all it may return, over the inputs or over those runs.     *)
(***************************************************************************)
EXTENDS SymbolicRange, FiniteSets

CONSTANT MaxChoice      \* most options, longest string

ASSUME ChoiceAssumption == MaxChoice \in Nat /\ MaxChoice < Half

\* No value: the test is abandoned, or the process exits.
Gone == 2 * Half

\* DeepState_UIntInRange(0, high): a symbolic executor assumes the bounds.
IndexUpTo(high, symbolic) ==
    IF symbolic THEN 0..high ELSE {UInRange(0, high, x) : x \in Unsigned}

\* The least value there is on a run.
Minimize(S) == CHOOSE m \in S : \A n \in S : m <= n

\* What is left after k rounds in which the value was not the least one.
LeftAfter(S, rounds) ==
    LET left[k \in 0..rounds] ==
            IF k = 0 THEN S ELSE {v \in left[k - 1] : v # Minimize(left[k - 1])}
    IN  left

\* Mutant: one round less.
PumpShort(S, symbolic, max) ==
    IF ~symbolic THEN S
    ELSE IF max = 0 THEN {Gone}
    ELSE LET left == LeftAfter(S, max)
         IN  {Minimize(left[k]) : k \in {j \in 0..(max - 2) : left[j] # {}}}

\* Pump(val, max): the runs that return in one of max - 1 rounds, and the last.
Pump(S, symbolic, max) ==
    IF ~symbolic THEN S
    ELSE IF max = 0 THEN {Gone}
    ELSE LET left == LeftAfter(S, max)
         IN  {Minimize(left[k]) : k \in {j \in 0..(max - 1) : left[j] # {}}}

\* OneOf of functions.  fmap: the choices as a swarm configuration has them, every
\* one without swarm.
OneOfFunctions(fmap, symbolic) ==
    LET fcount == Cardinality(DOMAIN fmap)
    IN  {fmap[k] : k \in Pump(IndexUpTo(fcount - 1, symbolic), symbolic, fcount)}

\* OneOf of a string, a vector or an array of n elements.
OneOfElements(n, swarm, fmap, symbolic) ==
    IF n = 0 THEN {Gone}
    ELSE IF swarm THEN {fmap[k] : k \in IndexUpTo(Cardinality(DOMAIN fmap) - 1, symbolic)}
    ELSE IF symbolic THEN 0..(n - 1)
    ELSE {InRange(0, n - 1, x) : x \in Signed}

\* The length of the string of a macro ...CStrUpToLen(max_len).  The macros that
\* name a kind of swarm stand for the functions without UpToLen, whose strings
\* have the full length.
\* The code converts max_len and max_len + 1, of size_t, to unsigned: here they fit.
UpToLen(names_swarm, max_len, symbolic) ==
    IF names_swarm THEN {max_len}
    ELSE Pump(IndexUpTo(max_len, symbolic), symbolic, max_len + 1)

\* klee_choose(n): an input that does not fit ends the process, with status 0.
KleeChoose(n) == {IF n <= out THEN Gone ELSE out : out \in Unsigned}

-----------------------------------------------------------------------------
(* The calls, and the input. *)

VARIABLES
    call,       \* the call that is looked at
    input       \* what DeepState_<T>() reads from the input, for a range

drawVars == <<call, input>>

NoCall == [kind |-> "none"]
Length == 0..MaxChoice
Maps == UNION {[0..(m - 1) -> 0..(n - 1)] : m, n \in 1..MaxChoice}
Each(n) == [k \in 0..(n - 1) |-> k]

RangeCall ==
    [kind : {"range"}, signed : {TRUE}, low : Signed, high : Signed]
    \cup [kind : {"range"}, signed : {FALSE}, low : Unsigned, high : Unsigned]

FunctionsCall == [kind : {"functions"}, fmap : Maps, symbolic : BOOLEAN]

\* With swarm, what the configuration maps to is an element.
ElementsCall ==
    {c \in [kind : {"elements"}, n : Length, swarm : BOOLEAN, fmap : Maps \cup {Each(0)},
            symbolic : BOOLEAN] :
         IF c.swarm THEN DOMAIN c.fmap # {} /\ \A k \in DOMAIN c.fmap : c.fmap[k] < c.n
                    ELSE c.fmap = Each(0)}

LengthCall == [kind : {"length"}, names_swarm : BOOLEAN, max_len : Length, symbolic : BOOLEAN]

KleeCall == [kind : {"klee"}, n : Unsigned]

Call == RangeCall \cup FunctionsCall \cup ElementsCall \cup LengthCall \cup KleeCall

Value == IF call.signed THEN InRange(call.low, call.high, input)
                        ELSE UInRange(call.low, call.high, input)

Results ==
    CASE call.kind = "functions" -> OneOfFunctions(call.fmap, call.symbolic)
      [] call.kind = "elements"  -> OneOfElements(call.n, call.swarm, call.fmap, call.symbolic)
      [] call.kind = "length"    -> UpToLen(call.names_swarm, call.max_len, call.symbolic)
      [] call.kind = "klee"      -> KleeChoose(call.n)

DrawInit == call \in Call /\ input = 0

Read ==
    /\ call.kind = "range"
    /\ input' \in IF call.signed THEN Signed ELSE Unsigned
    /\ UNCHANGED call

DrawSpec == DrawInit /\ [][Read]_drawVars

-----------------------------------------------------------------------------
(* What a caller relies on. *)

\* Whatever the input holds, the value of a range lies between the arguments: for
\* the signed types although size and -x overflow, for ranges wider than half of
\* the type, and for arguments in the wrong order (DEEPSTATE_MAKE_SYMBOLIC_RANGE).
InBounds == call.kind = "range" => Value \in Between(call.low, call.high)

Asked ==
    CASE call.kind = "functions" -> {call.fmap[k] : k \in DOMAIN call.fmap}
      [] call.kind = "elements"  ->
             IF call.n = 0 THEN {Gone}
             ELSE IF call.swarm THEN {call.fmap[k] : k \in DOMAIN call.fmap}
             ELSE 0..(call.n - 1)
      [] call.kind = "length"    -> 0..call.max_len
      [] call.kind = "klee"      -> 0..(call.n - 1) \cup {Gone}

\* Each option of a OneOf, each length up to the one asked for and each number
\* below n is drawn on some input, and on some run of a symbolic executor, where
\* Pump stops after as many values as it is told; nothing else is, and only the
\* choice among no elements abandons the test.  All but the lengths of the macros
\* that name a kind of swarm: of theirs only the longest is drawn.
AllReached ==
    call.kind \in {"functions", "elements", "length", "klee"} =>
        IF call.kind = "length" /\ call.names_swarm
        THEN Results = {call.max_len}
        ELSE Results = Asked
=============================================================================
