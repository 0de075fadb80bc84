--------------------------- MODULE TestBody_proofs ---------------------------
(***************************************************************************)
(* The verdict of a test means what it says, for any number of tests and   *)
(* statements, however deep statements run inside one another, and however *)
(* wide the types are that they compare.                                   *)
(***************************************************************************)
EXTENDS TestBody, WellFoundedInduction, TLAPS

-----------------------------------------------------------------------------
(* The comparison of operands is C's.                                      *)

\* The remainder of what a type holds already, and of what is negative there.
LEMMA Remainders ==
  ASSUME NEW W \in Nat \ {0}, NEW n \in 0..(W - 1)
  PROVE  n % W = n /\ (n - W) % W = n
OBVIOUS

\* A value of a type is not changed by a conversion to that type, so passing the
\* operands to a function of their own types changes neither.
LEMMA ConvertOwn ==
  ASSUME NEW t \in Type, NEW v \in Values(t)
  PROVE  Convert(v, t) = v
<1>1. PICK n \in 0..(Byte^SizeOf(t) - 1) : v = Convert(n, t)
  BY DEF Values
<1>2. CASE t = Bool
  BY <1>1, <1>2 DEF Convert
<1>3. CASE t # Bool
  <2>1. t.bytes \in 1..MaxBytes /\ SizeOf(t) = t.bytes
    BY <1>3 DEF Type, SizeOf
  <2> DEFINE W == Byte^t.bytes
  <2>2. W \in Nat \ {0} /\ n \in 0..(W - 1)
    BY <1>1, <2>1, PowerAssumption
  <2>3. v = IF t.signed /\ 2 * (n % W) >= W THEN (n % W) - W ELSE n % W
    BY <1>1, <1>3 DEF Convert
  <2>4. Convert(v, t) = IF t.signed /\ 2 * (v % W) >= W THEN (v % W) - W ELSE v % W
    BY <1>3 DEF Convert
  <2> HIDE DEF W
  <2>5. v % W = n /\ n % W = n
    BY <2>2, <2>3, Remainders
  <2> QED BY <2>2, <2>3, <2>4, <2>5
<1> QED BY <1>2, <1>3

\* A nonempty set of natural numbers has a least one.
LEMMA LeastExists ==
  ASSUME NEW S \in SUBSET Nat, S # {}
  PROVE  \E e \in S : \A d \in S : e <= d
<1> DEFINE R == {ss \in Nat \X Nat : ss[1] < ss[2]}
<1>1. IsWellFoundedOn(R, Nat)
  BY NatLessThanWellFounded DEF OpToRel
<1>2. PICK e \in S : \A d \in S : ~(<<d, e>> \in R)
  <2> HIDE DEF R
  <2> QED BY <1>1, WFMin
<1>3. ASSUME NEW d \in S PROVE e <= d
  <2>1. <<d, e>> \in Nat \X Nat /\ <<d, e>>[1] = d /\ <<d, e>>[2] = e
    OBVIOUS
  <2> QED BY <1>2, <2>1
<1> QED BY <1>3

\* What the bytes say counts for nothing: each of them that matches is followed by
\* another, and the last by "does not match" (no).  N is how many there are.
LEMMA NoneAtTheEnd ==
  ASSUME NEW N \in Nat, NEW from, NEW no, from[0] = no,
         \A k \in 1..N : from[k] = no \/ from[k] = from[k - 1]
  PROVE  from[N] = no
<1> DEFINE Said == {k \in 0..N : from[k] # no}
<1>1. Said \in SUBSET Nat
  OBVIOUS
<1>2. ASSUME NEW k \in Said PROVE k # 0 /\ k - 1 \in Said
  OBVIOUS
<1>3. Said = {}
  <2> SUFFICES ASSUME Said # {} PROVE FALSE
    OBVIOUS
  <2> HIDE DEF Said
  <2>1. PICK k \in Said : \A d \in Said : k <= d
    BY <1>1, LeastExists
  <2>2. k - 1 \in Said /\ k \in Nat
    BY <1>1, <1>2
  <2> QED BY <2>1, <2>2
<1>4. N \in 0..N
  OBVIOUS
<1>5. from[N] = no
  BY <1>3, <1>4
<1> QED BY <1>5

LEMMA ExpandedSaysNo ==
  ASSUME NEW op, NEW A \in Type, NEW a, NEW B \in Type, NEW b
  PROVE  ~Expanded(op, A, a, B, b)
<1> DEFINE T == BestType(A, B)
           N == SizeOf(T)
           ByteOf(n, k) == (Convert(n, T) \div Byte^(N - k)) % Byte
           Matches(k) == Cmp(op, A, ByteOf(a, k), B, ByteOf(b, k))
           Step(f) == [k \in 0..N |-> IF ~Matches(k) THEN ZeroSink
                                      ELSE IF k = 0 THEN ZeroSink ELSE f[k - 1]]
           from == CHOOSE f : f = Step(f)
           none == [k \in 0..N |-> ZeroSink]
<1>1. N \in Nat
  <2>1. T \in {A, B, Unsigned(A), Unsigned(B)}
    BY DEF BestType
  <2>2. SizeOf(A) \in Nat /\ SizeOf(B) \in Nat
    BY WidthAssumption DEF Type, SizeOf, Bool
  <2>3. SizeOf(Unsigned(A)) \in Nat /\ SizeOf(Unsigned(B)) \in Nat
    BY WidthAssumption DEF Type, SizeOf, Bool, Unsigned
  <2> QED BY <2>1, <2>2, <2>3
<1>2. Expanded(op, A, a, B, b) = from[N]
  BY DEF Expanded
<1> HIDE DEF N, Matches
<1>3. none = Step(none)
  <2>1. \A k \in 0..N : k # 0 => k - 1 \in 0..N
    BY <1>1
  <2>2. \A k \in 0..N : k # 0 => none[k - 1] = ZeroSink
    BY <2>1
  <2> QED BY <2>2
<1>4. from = Step(from)
  <2> HIDE DEF none, Step
  <2> QED BY <1>3
<1> HIDE DEF from
<1>5. /\ from[0] = ZeroSink
      /\ \A k \in 1..N : from[k] = ZeroSink \/ from[k] = from[k - 1]
  BY <1>1, <1>4
<1>6. from[N] = ZeroSink
  BY <1>1, <1>5, NoneAtTheEnd
<1> QED BY <1>2, <1>6 DEF ZeroSink

\* The comparison of ASSERT_EQ, ASSERT_NE, CHECK_EQ and CHECK_NE is that of C.
THEOREM ComparesAsC ==
  \A o \in Operands : Comparer(o.op, o.A, o.a, o.B, o.b) <=> Holds(o.op, o.A, o.a, o.B, o.b)
<1> SUFFICES ASSUME NEW o \in Operands
             PROVE  Comparer(o.op, o.A, o.a, o.B, o.b) <=> Holds(o.op, o.A, o.a, o.B, o.b)
  OBVIOUS
<1>1. o.A \in Type /\ o.B \in Type /\ o.a \in Values(o.A) /\ o.b \in Values(o.B)
  <2> DEFINE Of(A, B) == [op : {"==", "!="}, A : {A}, a : Values(A), B : {B}, b : Values(B)]
  <2>1. PICK A \in Type, B \in Type : o \in Of(A, B)
    <3> HIDE DEF Of
    <3>1. Operands = UNION {Of(A, B) : A, B \in Type}
      BY DEF Operands, Of
    <3> QED BY <3>1
  <2> QED BY <2>1
<1>2. Convert(o.a, o.A) = o.a /\ Convert(o.b, o.B) = o.b
  BY <1>1, ConvertOwn
<1> QED BY <1>1, <1>2, ExpandedSaysNo DEF Comparer, Cmp

\* So a comparison fails in the code when it fails in C.
LEMMA ComparedAgrees ==
  \A c \in Compared : c[1] \in BOOLEAN /\ c[2] \in BOOLEAN /\ (c[2] <=> c[1])
<1> SUFFICES ASSUME NEW c \in Compared
             PROVE  c[1] \in BOOLEAN /\ c[2] \in BOOLEAN /\ (c[2] <=> c[1])
  OBVIOUS
<1>1. PICK o \in Operands :
          c = <<~Comparer(o.op, o.A, o.a, o.B, o.b), ~Holds(o.op, o.A, o.a, o.B, o.b)>>
  BY DEF Compared
<1> QED BY <1>1, ComparesAsC

-----------------------------------------------------------------------------
(* The Streams alive are a stack. *)

LEMMA InStream ==
  ASSUME open \in Seq(Stream), NEW i \in DOMAIN open
  PROVE  open[i] \in Stream
OBVIOUS

LEMMA Pushed ==
  ASSUME open \in Seq(Stream), NEW s \in Stream, NEW t, t = Append(open, s)
  PROVE  /\ t \in Seq(Stream) /\ Len(t) = Len(open) + 1 /\ Len(open) \in Nat
         /\ Len(open) + 1 \in DOMAIN t /\ t[Len(open) + 1] = s
         /\ \A i \in DOMAIN open : i \in DOMAIN t /\ t[i] = open[i]
         /\ \A i \in DOMAIN t : t[i] = s \/ (i \in DOMAIN open /\ t[i] = open[i])
OBVIOUS

LEMMA Popped ==
  ASSUME open \in Seq(Stream), open # <<>>
  PROVE  /\ Others \in Seq(Stream) /\ Len(Others) = Len(open) - 1 /\ Len(open) \in Nat \ {0}
         /\ Last \in Stream /\ Len(open) \in DOMAIN open
         /\ \A i \in DOMAIN Others : i \in DOMAIN open /\ Others[i] = open[i]
         /\ \A i \in DOMAIN open : open[i] = Last \/ (i \in DOMAIN Others /\ Others[i] = open[i])
<1>1. Len(open) \in Nat \ {0} /\ DOMAIN open = 1..Len(open)
  OBVIOUS
<1> DEFINE n == Len(open)
<1>2. \A i \in 1..(n - 1) : open[i] \in Stream
  BY <1>1
<1>3. Others = [i \in 1..(n - 1) |-> open[i]]
  <2>1. Others = [i \in 1..((n - 1) - 1 + 1) |-> open[i + 1 - 1]]
    BY <1>1 DEF Others
  <2>2. (n - 1) - 1 + 1 = n - 1 /\ \A i \in 1..(n - 1) : i + 1 - 1 = i
    BY <1>1
  <2> QED BY <2>1, <2>2
<1>4. Others \in Seq(Stream) /\ Len(Others) = n - 1
  BY <1>1, <1>2, <1>3
<1>5. Last \in Stream
  BY <1>1 DEF Last
<1> QED BY <1>1, <1>3, <1>4, <1>5 DEF Last

-----------------------------------------------------------------------------
(* The steps, one at a time. *)

\* A longjmp keeps the invariant, if the verdict it leaves is right.
LEMMA Cut ==
  ASSUME IInv, pc # "idle", NEW how \in {"pass", "fail", "assume", "abandon", "exit"}, LongJump(how),
         stmts' \in 0..MaxStmt, buffer' \subseteq Level, deserved' \in BOOLEAN,
         UNCHANGED <<forked, test, stale>>, FailureKept', NoFalseFailure'
  PROVE  IInv'
<1>1. TypeOK'
  <2>1. open' \in Seq(Stream) /\ Len(open') <= MaxDepth
    BY BodyAssumption DEF LongJump
  <2> QED BY <2>1 DEF IInv, TypeOK, LongJump
<1> QED BY <1>1 DEF IInv, LongJump, NoneOpen, TextOwned, LeftByCut, ForkIsClean, OpenDeserved,
                    FailurePending, CleanBuffers

\* Text that fails the test when it is logged is of a statement that failed, or an
\* earlier test's.
LEMMA TextOfWhom ==
  ASSUME IInv, pc # "idle", NEW level \in buffer, level # "trace"
  PROVE  deserved \/ (~forked /\ stale # {})
BY DEF IInv, TypeOK, TextOwned, OpenDeserved, ForkIsClean, Fails

\* A statement begins: what is in its level's buffer is logged.
LEMMA Begins ==
  ASSUME IInv, NEW level \in Level, NEW logs \in BOOLEAN, NEW deserves \in BOOLEAN,
         deserves <=> (logs /\ level # "trace"), Statement(level, logs, deserves)
  PROVE  IInv'
<1> DEFINE s == [level |-> level, logs |-> logs, said |-> FALSE]
<1>0. /\ pc # "idle" /\ stmts' \in 0..MaxStmt /\ Len(open) < MaxDepth
      /\ deserved' = (deserved \/ deserves) /\ deserved' \in BOOLEAN
      /\ UNCHANGED <<forked, test, stale>>
  BY BodyAssumption DEF IInv, TypeOK, Statement, MayRun
<1>1. CASE level \in buffer /\ level = "fatal"
  <2>1. LongJump("fail") /\ buffer' \in {buffer, buffer \ {level}}
    BY <1>1 DEF Statement, Construct, LogStream
  <2>2. FailureKept'
    BY <2>1 DEF LongJump, FailureKept
  <2>3. NoFalseFailure'
    BY <1>0, <1>1, TextOfWhom DEF NoFalseFailure
  <2> QED BY <1>0, <2>1, <2>2, <2>3, Cut DEF IInv, TypeOK
<1>2. CASE ~(level \in buffer /\ level = "fatal")
  <2>1. /\ failure' = (failure \/ (level \in buffer /\ level = "error"))
        /\ open' = Append(open, s)
        /\ buffer' = (buffer \ {level}) \cup (IF logs THEN {level} ELSE {})
        /\ UNCHANGED <<pc, endVars, abandoned, unwinding>>
    BY <1>2 DEF Statement, Construct, LogStream
  <2>2. s \in Stream /\ s.level = level /\ s.logs = logs /\ s.said = FALSE
    BY DEF Stream
  <2> HIDE DEF s
  <2>3. /\ open' \in Seq(Stream) /\ Len(open') = Len(open) + 1 /\ Len(open) \in Nat
        /\ Len(open) + 1 \in DOMAIN open' /\ open'[Len(open) + 1] = s
        /\ \A i \in DOMAIN open : i \in DOMAIN open' /\ open'[i] = open[i]
        /\ \A i \in DOMAIN open' : open'[i] = s \/ (i \in DOMAIN open /\ open'[i] = open[i])
    BY <2>1, <2>2, Pushed DEF IInv, TypeOK
  <2>4. TypeOK'
    BY <1>0, <2>1, <2>3, BodyAssumption DEF IInv, TypeOK, endVars
  <2>5. TextOwned'
    BY <1>0, <2>1, <2>2, <2>3 DEF IInv, TextOwned
  <2>6. OpenDeserved'
    BY <1>0, <2>1, <2>2, <2>3 DEF IInv, OpenDeserved, Fails
  <2>7. FailurePending'
    <3>1. CASE deserves
      BY <1>0, <2>1, <2>2, <2>3, <3>1 DEF FailurePending, Fails
    <3>2. CASE ~deserves /\ deserved /\ ~failure
      <4>1. PICK i \in DOMAIN open : Fails(open[i]) /\ (open[i].level \in buffer \/ ~open[i].said)
        BY <1>0, <3>2 DEF IInv, FailurePending
      <4>2. open[i].level # "trace" /\ open[i].level \in Level
        BY <4>1, InStream DEF IInv, TypeOK, Fails, Stream
      <4>3. open[i].level \in buffer => open[i].level \in buffer' \/ failure'
        BY <1>2, <2>1, <4>2 DEF Level
      <4> QED BY <2>3, <4>1, <4>3 DEF FailurePending
    <3> QED BY <1>0, <2>1, <3>1, <3>2 DEF IInv, TypeOK, FailurePending
  <2>8. NoFalseFailure'
    BY <1>0, <2>1, TextOfWhom DEF IInv, NoFalseFailure
  <2> QED BY <1>0, <2>1, <2>4, <2>5, <2>6, <2>7, <2>8
          DEF IInv, endVars, NoneOpen, LeftByCut, ForkIsClean, FailureKept, CleanBuffers
<1> QED BY <1>1, <1>2

\* A statement ends, and is logged.
LEMMA Ends == ASSUME IInv, Destroy PROVE IInv'
<1>0. /\ pc # "idle" /\ open # <<>> /\ UNCHANGED <<forked, test, stmts, deserved, stale>>
  BY DEF IInv, NoneOpen, Destroy
<1>1. /\ Others \in Seq(Stream) /\ Len(Others) = Len(open) - 1 /\ Len(open) \in Nat \ {0}
      /\ Last \in Stream /\ Len(open) \in DOMAIN open
      /\ \A i \in DOMAIN Others : i \in DOMAIN open /\ Others[i] = open[i]
      /\ \A i \in DOMAIN open : open[i] = Last \/ (i \in DOMAIN Others /\ Others[i] = open[i])
  BY <1>0, Popped DEF IInv, TypeOK
<1>2. open[Len(open)] = Last
  BY DEF Last
<1> HIDE DEF Last, Others
<1> DEFINE b == IF Last.said THEN buffer ELSE buffer \cup {Last.level}
<1>3. Last.logs /\ Last.level # "trace" => deserved
  BY <1>0, <1>1, <1>2 DEF IInv, OpenDeserved, Fails
<1>5. CASE Last.logs /\ Last.level \in b /\ Last.level = "fatal"
  <2>1. LongJump("fail") /\ buffer' \in {b, b \ {Last.level}}
    BY <1>5 DEF Destroy, LogStream
  <2>2. FailureKept' /\ NoFalseFailure'
    BY <1>0, <1>3, <1>5, <2>1 DEF LongJump, FailureKept, NoFalseFailure
  <2>3. buffer' \subseteq Level
    BY <1>1, <2>1 DEF IInv, TypeOK, Stream
  <2> QED BY <1>0, <2>1, <2>2, <2>3, Cut DEF IInv, TypeOK
<1>6. CASE ~(Last.logs /\ Last.level \in b /\ Last.level = "fatal")
  <2>1. /\ open' = Others /\ UNCHANGED <<pc, endVars, abandoned, unwinding>>
        /\ \/ ~Last.logs /\ buffer' = buffer /\ failure' = failure
           \/ /\ Last.logs /\ buffer' = b \ {Last.level}
              /\ failure' = (failure \/ (Last.level \in b /\ Last.level = "error"))
    BY <1>6 DEF Destroy, LogStream, markVars
  <2>2. b \in {buffer, buffer \cup {Last.level}} /\ (~Last.said => Last.level \in b)
    OBVIOUS
  <2> HIDE DEF b
  <2>3. TypeOK'
    <3>1. open' \in Seq(Stream) /\ Len(open') <= MaxDepth
      BY <1>1, <2>1, BodyAssumption DEF IInv, TypeOK
    <3>2. buffer' \subseteq Level
      BY <1>1, <2>1, <2>2 DEF IInv, TypeOK, Stream
    <3> QED BY <1>0, <2>1, <3>1, <3>2 DEF IInv, TypeOK, endVars
  <2>4. TextOwned'
    <3> SUFFICES ASSUME NEW l \in buffer', l \notin stale
                 PROVE  \E i \in DOMAIN Others : Others[i].logs /\ Others[i].level = l
      BY <1>0, <2>1 DEF TextOwned
    <3>1. l \in buffer /\ (Last.logs => l # Last.level)
      BY <2>1, <2>2
    <3>2. PICK i \in DOMAIN open : open[i].logs /\ open[i].level = l
      BY <1>0, <3>1 DEF IInv, TextOwned
    <3> QED BY <1>1, <3>1, <3>2
  <2>5. OpenDeserved'
    BY <1>0, <1>1, <2>1 DEF IInv, OpenDeserved
  <2>6. FailurePending'
    <3> SUFFICES ASSUME deserved, ~failure'
                 PROVE  \E i \in DOMAIN Others : Fails(Others[i]) /\
                            (Others[i].level \in buffer' \/ ~Others[i].said)
      BY <1>0, <2>1 DEF FailurePending
    <3>1. ~failure /\ ~(Last.logs /\ Last.level \in b /\ Last.level = "error")
      BY <2>1 DEF IInv, TypeOK
    <3>2. PICK i \in DOMAIN open : Fails(open[i]) /\ (open[i].level \in buffer \/ ~open[i].said)
      BY <1>0, <3>1 DEF IInv, FailurePending
    <3>3. open[i].level # "trace" /\ open[i].level \in Level
      BY <3>2, InStream DEF IInv, TypeOK, Fails, Stream
    <3>4. ASSUME Last.logs, Last.level # "trace" PROVE Last.level \notin b
      BY <1>1, <1>6, <3>1, <3>4 DEF Level, Stream
    <3>5. open[i] # Last
      BY <2>2, <3>2, <3>4 DEF Fails
    <3>6. open[i].level \in buffer => open[i].level \in buffer'
      BY <2>1, <2>2, <3>3, <3>4
    <3> QED BY <1>1, <3>2, <3>5, <3>6
  <2>7. NoFalseFailure'
    BY <1>0, <1>3, <2>1 DEF IInv, NoFalseFailure
  <2> QED BY <1>0, <2>1, <2>3, <2>4, <2>5, <2>6, <2>7
          DEF IInv, endVars, NoneOpen, LeftByCut, ForkIsClean, FailureKept, CleanBuffers
<1> QED BY <1>5, <1>6

\* An operand is written.
LEMMA Writes == ASSUME IInv, Operand PROVE IInv'
<1> DEFINE s == [Last EXCEPT !.said = TRUE]
<1>0. /\ pc # "idle" /\ open # <<>> /\ Last.logs
      /\ buffer' = buffer \cup {Last.level} /\ open' = Append(Others, s)
      /\ UNCHANGED <<forked, test, pc, markVars, unwinding, stmts, deserved, stale, endVars>>
  BY DEF IInv, NoneOpen, Operand
<1>1. /\ Others \in Seq(Stream) /\ Len(Others) = Len(open) - 1 /\ Len(open) \in Nat \ {0}
      /\ Last \in Stream /\ Len(open) \in DOMAIN open
      /\ \A i \in DOMAIN Others : i \in DOMAIN open /\ Others[i] = open[i]
      /\ \A i \in DOMAIN open : open[i] = Last \/ (i \in DOMAIN Others /\ Others[i] = open[i])
  BY <1>0, Popped DEF IInv, TypeOK
<1>2. open[Len(open)] = Last
  BY DEF Last
<1>3. s \in Stream /\ s.level = Last.level /\ s.logs = Last.logs /\ Last.level \in Level
  BY <1>1 DEF Stream
<1> HIDE DEF Last, Others, s
<1>4. /\ open' \in Seq(Stream) /\ Len(open') = Len(Others) + 1
      /\ Len(Others) + 1 \in DOMAIN open' /\ open'[Len(Others) + 1] = s
      /\ \A i \in DOMAIN Others : i \in DOMAIN open' /\ open'[i] = Others[i]
      /\ \A i \in DOMAIN open' : open'[i] = s \/ (i \in DOMAIN Others /\ open'[i] = Others[i])
  BY <1>0, <1>1, <1>3
<1>5. TypeOK'
  <2>1. Len(open') <= MaxDepth
    BY <1>1, <1>4, BodyAssumption DEF IInv, TypeOK
  <2> QED BY <1>0, <1>3, <1>4, <2>1 DEF IInv, TypeOK, markVars, endVars
<1>6. \A i \in DOMAIN open : \E j \in DOMAIN open' :
         open'[j] = open[i] \/ (open'[j] = s /\ open[i] = Last)
  BY <1>1, <1>4
<1>7. \A j \in DOMAIN open' : \E i \in DOMAIN open :
         open'[j] = open[i] \/ (open'[j] = s /\ open[i] = Last)
  BY <1>1, <1>2, <1>4
<1>8. TextOwned'
  <2> SUFFICES ASSUME NEW l \in buffer', l \notin stale
               PROVE  \E i \in DOMAIN open' : open'[i].logs /\ open'[i].level = l
    BY <1>0 DEF TextOwned
  <2>1. PICK i \in DOMAIN open : open[i].logs /\ open[i].level = l
    BY <1>0, <1>1, <1>2 DEF IInv, TextOwned
  <2> QED BY <1>3, <1>6, <2>1
<1>9. OpenDeserved'
  BY <1>0, <1>3, <1>7 DEF IInv, OpenDeserved, Fails
<1>10. FailurePending'
  <2> SUFFICES ASSUME deserved, ~failure'
               PROVE  \E i \in DOMAIN open' : Fails(open'[i]) /\
                          (open'[i].level \in buffer' \/ ~open'[i].said)
    BY <1>0 DEF FailurePending
  <2>1. ~failure
    BY <1>0 DEF markVars
  <2>2. PICK i \in DOMAIN open : Fails(open[i]) /\ (open[i].level \in buffer \/ ~open[i].said)
    BY <1>0, <2>1 DEF IInv, FailurePending
  <2>3. PICK j \in DOMAIN open' : open'[j] = open[i] \/ (open'[j] = s /\ open[i] = Last)
    BY <1>6, <2>2
  <2>4. open'[j].level = open[i].level /\ open'[j].logs = open[i].logs
    BY <1>3, <2>3
  <2>5. open'[j] = s => open'[j].level \in buffer'
    BY <1>0, <1>3
  <2> QED BY <1>0, <2>2, <2>3, <2>4, <2>5 DEF Fails
<1> QED BY <1>0, <1>5, <1>8, <1>9, <1>10
        DEF IInv, markVars, endVars, NoneOpen, LeftByCut, ForkIsClean, FailureKept,
            NoFalseFailure, CleanBuffers

\* A test begins, and a phase of it ends.
LEMMA BeginsTest == ASSUME IInv, Begin PROVE IInv'
<1>1. TypeOK'
  <2>1. test' \in 0..NTest /\ stmts' \in 0..MaxStmt
    BY BodyAssumption DEF IInv, TypeOK, Begin
  <2>2. pc' \in {"setup", "body"}
    BY DEF Begin
  <2> QED BY <2>1, <2>2 DEF IInv, TypeOK, Begin
<1>2. open' = <<>> /\ pc' # "idle" /\ stale' = buffer' /\ ~failure' /\ ~deserved'
  BY DEF IInv, NoneOpen, Begin
<1> QED BY <1>1, <1>2
        DEF IInv, Begin, NoneOpen, TextOwned, LeftByCut, ForkIsClean, OpenDeserved,
            FailurePending, FailureKept, NoFalseFailure, CleanBuffers

LEMMA EndsPhase == ASSUME IInv, PhaseEnds PROVE IInv'
<1>1. TypeOK'
  BY DEF IInv, TypeOK, PhaseEnds, markVars
<1>2. buffer # {} => stale # {}
  BY DEF IInv, TextOwned, PhaseEnds
<1>3. deserved => failure
  BY DEF IInv, FailurePending, PhaseEnds
<1> QED BY <1>1, <1>2, <1>3
        DEF IInv, PhaseEnds, markVars, NoneOpen, TextOwned, LeftByCut, ForkIsClean, OpenDeserved,
            FailurePending, FailureKept, NoFalseFailure, CleanBuffers

\* What ends a test or fails it without a Stream.
LEMMA CutsShort ==
  ASSUME IInv, AssumeFalse \/ Pass \/ CAssert \/ Exit
  PROVE  IInv'
<1>1. /\ pc # "idle" /\ stmts' \in 0..MaxStmt /\ buffer' \subseteq Level
      /\ UNCHANGED <<forked, test, stale>>
  BY BodyAssumption DEF IInv, TypeOK, AssumeFalse, Pass, CAssert, Exit, MayRun
<1>2. CASE AssumeFalse \/ Pass \/ Exit
  <2>1. PICK how \in {"assume", "abandon", "pass", "exit"} : LongJump(how)
    BY <1>2 DEF AssumeFalse, Pass, Exit
  <2>2. failure' = failure /\ deserved' = deserved
    BY <1>2, <2>1 DEF AssumeFalse, Pass, Exit, LongJump, IInv, TypeOK
  <2>3. deserved /\ ~failure => open # <<>>
    BY <1>1 DEF IInv, FailurePending
  <2>4. FailureKept'
    BY <2>1, <2>2, <2>3 DEF FailureKept, LongJump
  <2>5. NoFalseFailure'
    BY <1>1, <2>2 DEF IInv, NoFalseFailure
  <2> QED BY <1>1, <2>1, <2>2, <2>4, <2>5, Cut DEF IInv, TypeOK
<1>3. CASE CAssert
  BY <1>1, <1>3, Cut DEF CAssert, LongJump, FailureKept, NoFalseFailure
<1> QED BY <1>2, <1>3

LEMMA Checks == ASSUME IInv, CCheck PROVE IInv'
<1>1. TypeOK'
  BY BodyAssumption DEF IInv, TypeOK, CCheck, MayRun, endVars
<1> QED BY <1>1
        DEF IInv, CCheck, MayRun, endVars, NoneOpen, TextOwned, LeftByCut, ForkIsClean, OpenDeserved,
            FailurePending, FailureKept, NoFalseFailure, CleanBuffers

\* An exception is thrown, and caught: by the test, or by the runner, once the
\* destructors of all statements have run.
LEMMA Unwinds ==
  ASSUME IInv, Throw \/ Handled \/ Uncaught
  PROVE  IInv'
<1>1. CASE Throw \/ Handled
  <2>1. /\ pc # "idle" /\ stmts' \in 0..MaxStmt /\ unwinding' \in BOOLEAN
        /\ UNCHANGED <<forked, test, pc, open, buffer, markVars, deserved, stale, endVars>>
    <3>1. pc # "idle"
      BY <1>1 DEF IInv, NoneOpen, Throw, Handled, MayRun
    <3>2. stmts' \in 0..MaxStmt
      <4>1. stmts \in 0..MaxStmt /\ (stmts' = stmts \/ (stmts < MaxStmt /\ stmts' = stmts + 1))
        BY <1>1 DEF IInv, TypeOK, Throw, Handled, MayRun
      <4> QED BY <4>1, BodyAssumption
    <3>3. unwinding' \in BOOLEAN
      BY <1>1 DEF Throw, Handled
    <3>4. UNCHANGED <<forked, test, pc, open, buffer, markVars, deserved, stale, endVars>>
      BY <1>1 DEF Throw, Handled
    <3> QED BY <3>1, <3>2, <3>3, <3>4
  <2> QED BY <2>1
          DEF IInv, TypeOK, markVars, endVars, NoneOpen, TextOwned, LeftByCut, ForkIsClean,
              OpenDeserved, FailurePending, FailureKept, NoFalseFailure, CleanBuffers
<1>2. CASE Uncaught
  <2>1. /\ pc # "idle" /\ LongJump("fail") /\ deserved'
        /\ UNCHANGED <<forked, test, buffer, stmts, stale>>
    BY <1>2 DEF IInv, NoneOpen, Uncaught
  <2>2. deserved' \in BOOLEAN
    BY <1>2 DEF Uncaught
  <2> QED BY <2>1, <2>2, Cut DEF IInv, TypeOK, LongJump, FailureKept, NoFalseFailure
<1> QED BY <1>1, <1>2

-----------------------------------------------------------------------------
(* What a test's verdict means. *)

\* The invariant that carries the rest: between two tests no statement is open;
\* text in a buffer has an owner; a test that deserves to fail is marked, or has a
\* statement open that will mark it.
THEOREM Invariance == Spec => []IInv
<1>1. Init => IInv
  <2>1. Init => TypeOK
    <3>1. <<>> \in Seq(Stream) /\ Len(<<>>) = 0
      OBVIOUS
    <3>2. 0 \in 0..NTest /\ 0 \in 0..MaxStmt /\ 0 <= MaxDepth
      BY BodyAssumption
    <3> QED BY <3>1, <3>2 DEF Init, TypeOK
  <2> QED BY <2>1
     DEF Init, IInv, NoneOpen, TextOwned, LeftByCut, ForkIsClean, OpenDeserved,
         FailurePending, FailureKept, NoFalseFailure, CleanBuffers
<1>2. IInv /\ [Next]_vars => IInv'
  <2> SUFFICES ASSUME IInv, [Next]_vars PROVE IInv'
    OBVIOUS
  <2>1. CASE Begin
    BY <2>1, BeginsTest
  <2>2. CASE PhaseEnds
    BY <2>2, EndsPhase
  <2>3. CASE Condition
    <3>1. PICK level \in Level, logs \in BOOLEAN : Statement(level, logs, logs /\ level # "trace")
      BY <2>3 DEF Condition
    <3> QED BY <3>1, Begins
  <2>4. CASE Equality
    <3>1. PICK level \in {"error", "fatal"}, c \in Compared : Statement(level, c[1], c[2])
      BY <2>4 DEF Equality
    <3>2. /\ level \in Level /\ level # "trace"
          /\ c[1] \in BOOLEAN /\ c[2] \in BOOLEAN /\ (c[2] <=> c[1])
      BY ComparedAgrees DEF Level
    <3> QED BY <3>1, <3>2, Begins
  <2>5. CASE AssumeTrue
    BY <2>5, Begins DEF AssumeTrue, Level
  <2>6. CASE AssumeFalse \/ Pass \/ CAssert \/ Exit
    BY <2>6, CutsShort
  <2>7. CASE CCheck
    BY <2>7, Checks
  <2>8. CASE Operand
    BY <2>8, Writes
  <2>9. CASE Destroy
    BY <2>9, Ends
  <2>10. CASE Throw \/ Handled \/ Uncaught
    BY <2>10, Unwinds
  <2>11. CASE UNCHANGED vars
    BY <2>11 DEF vars, markVars, endVars, IInv, TypeOK, NoneOpen, TextOwned, LeftByCut, ForkIsClean,
           OpenDeserved, FailurePending, FailureKept, NoFalseFailure, CleanBuffers
  <2> QED BY <2>1, <2>2, <2>3, <2>4, <2>5, <2>6, <2>7, <2>8, <2>9, <2>10, <2>11 DEF Next
<1> QED BY <1>1, <1>2, PTL DEF Spec

\* A test in which an ASSERT, a CHECK or a logged error failed is marked as failed
\* when it is over, however its statements ran inside one another and shared a
\* buffer, and so is one that an exception left; an end inside a statement, and an
\* exit, are the exceptions.
THEOREM FailureIsKept == Spec => []FailureKept
BY Invariance, PTL DEF IInv

\* A test is marked as failed only if something in it failed, or an earlier test
\* that was not forked left text behind.
THEOREM FailureIsTrue == Spec => []NoFalseFailure
BY Invariance, PTL DEF IInv

\* Only a test that was cut leaves text in a buffer.
THEOREM BuffersAreClean == Spec => []CleanBuffers
BY Invariance, PTL DEF IInv
=============================================================================
