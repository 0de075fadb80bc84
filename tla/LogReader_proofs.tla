-------------------------- MODULE LogReader_proofs --------------------------
(***************************************************************************)
(* What deepstate_read_valgrind_xml makes of a log, for any number of      *)
(* errors, and of remarks on an address in each.                           *)
(***************************************************************************)
EXTENDS LogReader, WellFoundedInduction, TLAPS

\* A log, of any length.
AnyLog == [tags : Nat, objs : BOOLEAN, errors : Seq(Error)]

\* Those the runs look at are some of them.
LEMMA LogsAreLogs == Log \subseteq AnyLog
<1> SUFFICES ASSUME NEW l \in Log PROVE l \in AnyLog
  OBVIOUS
<1>1. \A o \in Stack : [own |-> o, aux |-> <<>>] \in Error
  <2>1. <<>> \in [1..0 -> Stack \cup {Bare}] /\ 0 \in 0..MaxAux
    BY AuxAssumption
  <2>2. <<>> \in UNION {[1..n -> Stack \cup {Bare}] : n \in 0..MaxAux}
    BY <2>1
  <2> QED BY <2>2 DEF Error
<1>2. l.errors \in Seq(Error)
  <2>1. \/ l.errors = <<>>
        \/ \E e \in Error : l.errors = <<e>>
        \/ \E e \in Error, o \in Stack : l.errors = <<e, [own |-> o, aux |-> <<>>]>>
    BY DEF Log
  <2>2. CASE l.errors = <<>>
    BY <2>2
  <2>3. CASE \E e \in Error : l.errors = <<e>>
    BY <2>3
  <2>4. ASSUME NEW e \in Error, NEW o \in Stack, l.errors = <<e, [own |-> o, aux |-> <<>>]>>
        PROVE  l.errors \in Seq(Error)
    BY <1>1, <2>4
  <2> QED BY <2>1, <2>2, <2>3, <2>4
<1> QED BY <1>2 DEF Log, AnyLog

-----------------------------------------------------------------------------
(* The stacks of an error. *)

LEMMA AuxType ==
  ASSUME NEW e \in Error
  PROVE  /\ Len(e.aux) \in Nat /\ DOMAIN e.aux = 1..Len(e.aux)
         /\ e.aux = <<>> <=> Len(e.aux) = 0
         /\ Stacks(e) \subseteq 0..Len(e.aux) /\ 0 \in Stacks(e)
         /\ \A k \in 1..Len(e.aux) : k \in Stacks(e) <=> e.aux[k] # Bare
<1>1. e.aux \in UNION {[1..n -> Stack \cup {Bare}] : n \in 0..MaxAux}
  BY DEF Error
<1>2. PICK n \in 0..MaxAux : e.aux \in [1..n -> Stack \cup {Bare}]
  BY <1>1
<1>3. n \in Nat
  BY AuxAssumption
<1>4. e.aux \in Seq(Stack \cup {Bare}) /\ Len(e.aux) = n
  BY <1>2, <1>3
<1> QED BY <1>2, <1>3, <1>4 DEF Stacks

\* A nonempty set of natural numbers has a least one.
LEMMA LeastExists ==
  ASSUME NEW S \in SUBSET Nat, S # {}
  PROVE  \E e \in S : \A d \in S : e <= d
<1> DEFINE R == {ss \in Nat \X Nat : ss[1] < ss[2]}
<1>1. IsWellFoundedOn(R, Nat)
  BY NatLessThanWellFounded DEF OpToRel
<1>2. PICK e \in S : \A d \in S : ~(<<d, e>> \in R)
  <2> HIDE DEF R
  <2> QED BY <1>1, WFMin
<1>3. ASSUME NEW d \in S PROVE e <= d
  <2>1. <<d, e>> \in Nat \X Nat /\ <<d, e>>[1] = d /\ <<d, e>>[2] = e
    OBVIOUS
  <2> QED BY <1>2, <2>1
<1> QED BY <1>3

\* There is a last one of them.
LEMMA LastStack ==
  ASSUME NEW e \in Error
  PROVE  Last(e) \in Stacks(e) /\ \A j \in Stacks(e) : j <= Last(e)
<1> DEFINE Bounds == {m \in Nat : \A j \in Stacks(e) : j <= m}
<1>1. Len(e.aux) \in Bounds /\ Stacks(e) \subseteq Nat /\ 0 \in Stacks(e)
  BY AuxType
<1>2. PICK m \in Bounds : \A d \in Bounds : m <= d
  <2>1. Bounds \in SUBSET Nat /\ Bounds # {}
    BY <1>1
  <2> HIDE DEF Bounds
  <2> QED BY <2>1, LeastExists
<1>3. m \in Stacks(e)
  <2> SUFFICES ASSUME m \notin Stacks(e) PROVE FALSE
    OBVIOUS
  <2>1. m # 0 /\ m \in Nat /\ \A j \in Stacks(e) : j <= m
    BY <1>1
  <2>2. \A j \in Stacks(e) : j <= m - 1
    BY <1>1, <2>1
  <2>3. m - 1 \in Bounds
    BY <2>1, <2>2
  <2> QED BY <1>2, <2>1, <2>3
<1>4. \E k \in Stacks(e) : \A j \in Stacks(e) : j <= k
  BY <1>3
<1> QED BY <1>4 DEF Last

\* An error with a trace of an address has a stack besides its own.
LEMMA TraceIsLater ==
  ASSUME NEW e \in Error, HasTrace(e)
  PROVE  1 \in Stacks(e) /\ Last(e) >= 1 /\ Last(e) \in 1..Len(e.aux)
<1>1. 1 \in 1..Len(e.aux) /\ e.aux[1] # Bare
  BY AuxType DEF HasTrace
<1>2. 1 \in Stacks(e)
  BY <1>1, AuxType
<1> QED BY <1>2, AuxType, LastStack

\* What a row of the table is.
LEMMA RowsAre ==
  ASSUME log \in AnyLog
  PROVE  /\ \A i \in DOMAIN log.errors : log.errors[i] \in Error
         /\ \A i \in DOMAIN log.errors : \A k \in ErrorStacks(log.errors[i]) :
               At(log.errors[i], k) = By(log) =>
                  [error |-> i, line |-> k, trace |-> Trace(log.errors[i])] \in Rows(log)
         /\ \A row \in Rows(log) :
               /\ row.error \in DOMAIN log.errors
               /\ row.line \in ErrorStacks(log.errors[row.error])
               /\ row.trace = Trace(log.errors[row.error])
<1>1. log.errors \in Seq(Error)
  BY DEF AnyLog
<1>2. \A i \in DOMAIN log.errors : log.errors[i] \in Error
  BY <1>1
<1> DEFINE Row(i, k) == [error |-> i, line |-> k, trace |-> Trace(log.errors[i])]
           Of(i) == {Row(i, k) : k \in {s \in ErrorStacks(log.errors[i]) :
                                            At(log.errors[i], s) = By(log)}}
<1>3. Rows(log) = UNION {Of(i) : i \in DOMAIN log.errors}
  BY DEF Rows
<1>4. ASSUME NEW i \in DOMAIN log.errors, NEW k \in ErrorStacks(log.errors[i]),
             At(log.errors[i], k) = By(log)
      PROVE  Row(i, k) \in Rows(log)
  <2>1. Row(i, k) \in Of(i)
    BY <1>4
  <2> HIDE DEF Of
  <2> QED BY <1>3, <2>1
<1>5. ASSUME NEW row \in Rows(log)
      PROVE  /\ row.error \in DOMAIN log.errors
             /\ row.line \in ErrorStacks(log.errors[row.error])
             /\ row.trace = Trace(log.errors[row.error])
  <2>1. PICK i \in DOMAIN log.errors : row \in Of(i)
    <3> HIDE DEF Of
    <3> QED BY <1>3
  <2>2. PICK k \in ErrorStacks(log.errors[i]) : row = Row(i, k)
    BY <2>1
  <2> QED BY <2>2
<1> QED BY <1>2, <1>4, <1>5

-----------------------------------------------------------------------------
(* The table. *)

\* Every error with a frame in the package is in the table at the line where it
\* happened, unless its frame names a file and another part of the log the directory.
THEOREM ErrorsAreKept == log \in AnyLog \cup {NoLog} => ErrorsKept
<1> SUFFICES ASSUME log \in AnyLog, NEW i \in DOMAIN log.errors, log.errors[i].own # "none"
             PROVE  \/ \E row \in Rows(log) : row.error = i /\ row.line = 0
                    \/ log.errors[i].own = "file" /\ By(log) = "dir"
  BY DEF ErrorsKept, Read, WellFormed, NoLog
<1> DEFINE e == log.errors[i]
           formsOf(j) == {At(log.errors[j], k) : k \in 0..Len(log.errors[j].aux)}
           forms == UNION {formsOf(j) : j \in DOMAIN log.errors}
<1>1. e \in Error /\ e.own \in {"dir", "file"}
  BY RowsAre DEF Error, Stack
<1>2. e.own \in forms
  <2>1. 0 \in 0..Len(e.aux) /\ At(e, 0) = e.own
    BY <1>1, AuxType DEF At
  <2>2. e.own \in formsOf(i)
    BY <2>1
  <2> HIDE DEF formsOf
  <2> QED BY <2>2
<1>3. By(log) = IF log.objs \/ "dir" \in forms THEN "dir"
                ELSE IF "file" \in forms THEN "file" ELSE "nothing"
  BY DEF By
<1> HIDE DEF forms
<1>4. By(log) = e.own \/ (e.own = "file" /\ By(log) = "dir")
  BY <1>1, <1>2, <1>3
<1>5. 0 \in ErrorStacks(e)
  BY <1>1, AuxType, TraceIsLater DEF ErrorStacks
<1>6. CASE At(e, 0) = By(log)
  <2>1. [error |-> i, line |-> 0, trace |-> Trace(e)] \in Rows(log)
    BY <1>5, <1>6, RowsAre
  <2> QED BY <2>1
<1> QED BY <1>4, <1>6 DEF At

\* A line that is not where an error happened is in the table only of an error whose
\* remarks have more stacks than the one taken for the address's, or none first.
THEOREM LinesAreOfErrors == log \in AnyLog \cup {NoLog} => LinesOfErrors
<1> SUFFICES ASSUME log \in AnyLog, NEW row \in Rows(log), row.line # 0,
                    log.errors[row.error].aux[1] # Bare
             PROVE  Len(log.errors[row.error].aux) > 1 /\ row.trace # row.line
  BY DEF LinesOfErrors, Read, WellFormed, NoLog
<1> DEFINE e == log.errors[row.error]
<1>1. /\ e \in Error /\ row.line \in ErrorStacks(e) /\ row.trace = Trace(e)
  BY RowsAre
<1> HIDE DEF e
<1>2. row.line \in Stacks(e) /\ row.line \in 1..Len(e.aux) /\ Len(e.aux) \in Nat
  BY <1>1, AuxType DEF ErrorStacks
<1>3. HasTrace(e)
  BY <1>1, <1>2, AuxType DEF HasTrace, e
<1>4. row.line # Last(e) /\ row.trace = Last(e)
  BY <1>1, <1>3 DEF ErrorStacks, Trace
<1>5. row.line <= Last(e) /\ Last(e) \in 1..Len(e.aux)
  BY <1>1, <1>2, <1>3, LastStack, TraceIsLater
<1> QED BY <1>2, <1>4, <1>5 DEF e
=============================================================================
