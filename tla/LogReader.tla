----------------------------- MODULE LogReader ------------------------------
(***************************************************************************)
(* deepstate_read_valgrind_xml: from the XML log of a run under valgrind   *)
(* to rows of error, line and address trace.  Analysis runs valgrind.      *)
(*                                                                         *)
(* An error of the log has the stack of where it happened and after it,    *)
(* for each remark on an address (auxwhat: "... is inside a block free'd", *)
(* "block was alloc'd at"), perhaps a stack of its own.  Of a stack the    *)
(* first frame counts that lies in the package's sources, which valgrind   *)
(* tells by directory or as a file "src/..."; "none" stands for a stack    *)
(* without such a frame.  A row's line is named by its place in the log:   *)
(* <<error, stack>>.                                                       *)
(***************************************************************************)
EXTENDS Naturals, Sequences

CONSTANT MaxAux     \* most remarks on an address in an error

ASSUME AuxAssumption == MaxAux \in Nat

Stack == {"dir", "file", "none"}
Bare  == "bare"     \* a remark without a stack
Error == [own : Stack, aux : UNION {[1..n -> Stack \cup {Bare}] : n \in 0..MaxAux}]

\* tags: how often </valgrindoutput> is in the log, once for each process that
\* wrote to it.  objs: it names an object file in the directory of the sources.
Log == [tags : 0..3, objs : BOOLEAN,
        errors : {<<>>} \cup {<<e>> : e \in Error}
                 \cup {<<e, [own |-> o, aux |-> <<>>]>> : e \in Error, o \in Stack}]

\* The first of two or more closing tags is taken out; read_xml stops unless one
\* is left.
WellFormed(tags) == tags \in {1, 2}

\* The stacks of an error, by their places: 0 for its own.
Stacks(e) == {0} \cup {k \in DOMAIN e.aux : e.aux[k] # Bare}
Last(e) == CHOOSE k \in Stacks(e) : \A j \in Stacks(e) : j <= k
At(e, k) == IF k = 0 THEN e.own ELSE e.aux[k]

\* How frames are looked for: by directory as soon as the directory is anywhere
\* in the log, else by file.
By(log) ==
    LET forms == UNION {{At(log.errors[i], k) : k \in 0..Len(log.errors[i].aux)} :
                            i \in DOMAIN log.errors}
    IN  IF log.objs \/ "dir" \in forms THEN "dir"
        ELSE IF "file" \in forms THEN "file" ELSE "nothing"

\* address.trace: the first remark is followed by a stack.
HasTrace(e) == e.aux # <<>> /\ e.aux[1] # Bare

\* Mutant: the stack of the address is read as one of the error's as well.
ErrorStacksAll(e) == Stacks(e)

\* Mutant: the first stack is taken for the address's.
ErrorStacksButFirst(e) == IF HasTrace(e) THEN Stacks(e) \ {0} ELSE Stacks(e)

\* The stacks whose lines get a row: all but the last, if that is the address's.
ErrorStacks(e) == IF HasTrace(e) THEN Stacks(e) \ {Last(e)} ELSE Stacks(e)

NoTrace == 0

\* The stack that is the address's: the last one.
Trace(e) == IF HasTrace(e) THEN Last(e) ELSE NoTrace

Rows(log) ==
    UNION {{[error |-> i, line |-> k, trace |-> Trace(log.errors[i])] :
               k \in {s \in ErrorStacks(log.errors[i]) : At(log.errors[i], s) = By(log)}} :
           i \in DOMAIN log.errors}

-----------------------------------------------------------------------------
(* What the table shows of a log that can be read. *)

VARIABLE log
NoLog == [tags |-> 4]     \* no log is looked at
Read == WellFormed(log.tags)

\* The errors are in the table, each at the line where it happened; one is left
\* out only if its frame names a file and another part of the log the directory.
ErrorsKept ==
    Read => \A i \in DOMAIN log.errors :
        LET e == log.errors[i]
        IN  e.own # "none" =>
                \/ \E row \in Rows(log) : row.error = i /\ row.line = 0
                \/ e.own = "file" /\ By(log) = "dir"

\* No line is in the table that is not where an error happened, but for an error
\* with two remarks: the stack of the one that is not its last, as in a use after
\* free, is taken for a place of the error.
LinesOfErrors ==
    Read => \A row \in Rows(log) :
        row.line # 0 => \/ Len(log.errors[row.error].aux) > 1
                           /\ row.trace # row.line
                        \/ log.errors[row.error].aux[1] = Bare
=============================================================================
