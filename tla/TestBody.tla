------------------------------ MODULE TestBody ------------------------------
(***************************************************************************)
(* The body of a test: the macros TEST and TEST_F, and the statements      *)
(* ASSERT, CHECK, ASSUME and LOG of DeepState.hpp, each of which is an     *)
(* object of class Stream (Stream.hpp) that lives as long as the statement *)
(* and reports when it ends.                                               *)
(*                                                                         *)
(* There is one buffer for each level of the log, not for each Stream, so  *)
(* a statement that runs inside another (in a function called by one of    *)
(* its << operands) writes to the same one.  A failure leaves the body by  *)
(* longjmp, past every destructor and past TearDown; an exception past     *)
(* TearDown only.  Buffers outlive both, and without --fork they outlive   *)
(* the test.  The runner is TestRunner.                                    *)
(* The library's functions are external: where its sources would tell      *)
(* which of two things happens, both are allowed.                          *)
(***************************************************************************)
EXTENDS Comparison, Sequences

CONSTANTS
    NTest,      \* tests, run one after the other
    Fixture,    \* those that are TEST_F
    MaxStmt,    \* most statements of a test
    MaxDepth    \* how deep statements are nested in operands of others

Test == 1..NTest

ASSUME BodyAssumption == /\ NTest \in Nat \ {0} /\ Fixture \subseteq Test
                         /\ MaxStmt \in Nat /\ MaxDepth \in Nat

\* The levels that fail a test, and one for those that do not.
Level == {"trace", "error", "fatal"}

VARIABLES
    forked,     \* each test runs in a child process
    test,       \* the test that runs, or ran last; 0 before the first
    pc,         \* "idle" between two tests, "setup", "body", "teardown"
    open,       \* the Streams alive, the innermost last
    buffer,     \* levels whose buffer holds text
    failure,    \* the mark DeepState_CatchFail() looks for
    abandoned,  \* the mark DeepState_CatchAbandoned() looks for
    unwinding,  \* an exception has been thrown that nothing has caught yet
    stmts       \* statements of the test so far

\* What happened, to compare with.
VARIABLES
    deserved,   \* an ASSERT or CHECK of the test was false, it logged an error, or
                \* an exception came out of it
    stale,      \* levels whose buffer held text when the test began
    ended,      \* how the test ended: "none" yet, at "pass", or by "fail",
                \* "assume", "abandon" or "exit"
    inside,     \* it was cut inside a statement
    everCut     \* some test was cut

markVars == <<failure, abandoned>>
endVars == <<ended, inside, everCut>>
vars == <<forked, test, pc, open, buffer, markVars, unwinding, stmts, deserved, stale, endVars>>

Stream == [level : Level, logs : BOOLEAN, said : BOOLEAN]

TypeOK ==
    /\ forked \in BOOLEAN /\ test \in 0..NTest
    /\ pc \in {"idle", "setup", "body", "teardown"}
    /\ open \in Seq(Stream) /\ Len(open) <= MaxDepth
    /\ buffer \subseteq Level /\ stale \subseteq Level
    /\ failure \in BOOLEAN /\ abandoned \in BOOLEAN
    /\ unwinding \in BOOLEAN /\ stmts \in 0..MaxStmt /\ deserved \in BOOLEAN
    /\ ended \in {"none", "pass", "fail", "assume", "abandon", "exit"}
    /\ inside \in BOOLEAN /\ everCut \in BOOLEAN

Init ==
    /\ forked \in BOOLEAN
    /\ test = 0 /\ pc = "idle" /\ open = <<>> /\ buffer = {}
    /\ failure = FALSE /\ abandoned = FALSE
    /\ unwinding = FALSE /\ stmts = 0 /\ deserved = FALSE /\ stale = {}
    /\ ended = "none" /\ inside = FALSE /\ everCut = FALSE

-----------------------------------------------------------------------------
(* TEST, TEST_F: how a test begins and goes on. *)

\* DeepState_Begin and the test's function.  A child's buffers are its own, and
\* without one a test that ends its process is the last.
Begin ==
    /\ pc = "idle" /\ test < NTest /\ (forked \/ ended # "exit")
    /\ test' = test + 1
    /\ pc' = IF test' \in Fixture THEN "setup" ELSE "body"
    /\ buffer' = IF forked THEN {} ELSE buffer
    /\ stale' = buffer'
    /\ failure' = FALSE /\ abandoned' = FALSE
    /\ stmts' = 0 /\ deserved' = FALSE
    /\ ended' = "none" /\ inside' = FALSE
    /\ UNCHANGED <<forked, open, unwinding, everCut>>

\* SetUp, DoRunTest and TearDown return, or the function of a TEST: at the end
\* comes DeepState_Pass.
PhaseEnds ==
    /\ pc # "idle" /\ open = <<>> /\ ~unwinding
    /\ \/ pc = "setup" /\ pc' = "body" /\ UNCHANGED ended
       \/ pc = "body" /\ test \in Fixture /\ pc' = "teardown" /\ UNCHANGED ended
       \/ /\ pc = "teardown" \/ (pc = "body" /\ test \notin Fixture)
          /\ pc' = "idle" /\ ended' = "pass"
    /\ UNCHANGED <<forked, test, open, buffer, markVars, unwinding, stmts, deserved, stale,
                   inside, everCut>>

\* DeepState_Fail and DeepState_Abandon, as DeepState_Pass: longjmp to the runner.
LongJump(how) ==
    /\ pc' = "idle" /\ open' = <<>> /\ unwinding' = FALSE /\ ended' = how
    /\ inside' = (open # <<>>) /\ everCut' = TRUE
    /\ failure' = (failure \/ how = "fail")
    /\ abandoned' = (abandoned \/ how = "abandon")

-----------------------------------------------------------------------------
(* Statements.  Any phase of a test may run some, or call what does. *)

MayRun == pc # "idle" /\ ~unwinding /\ stmts < MaxStmt /\ Len(open) < MaxDepth

\* DeepState_LogStream(level), when the buffers hold text for the levels in b:
\* text is logged and gone.  Logging a fatal error fails the test (the text may
\* be gone by then, or not), logging an error marks it.  next: what the code does
\* if it goes on.
LogStream(level, b, next) ==
    \/ /\ level \in b /\ level = "fatal"
       /\ LongJump("fail")
       /\ buffer' \in {b, b \ {level}}
    \/ /\ ~(level \in b /\ level = "fatal")
       /\ failure' = (failure \/ (level \in b /\ level = "error"))
       /\ next
       /\ UNCHANGED <<pc, endVars, abandoned, unwinding>>

\* Mutant: the constructor writes its place also when nothing is to be logged.
ConstructAlways(level, logs) ==
    LogStream(level, buffer,
        /\ open' = Append(open, [level |-> level, logs |-> logs, said |-> FALSE])
        /\ buffer' = buffer \cup {level})

\* The constructor of Stream: what is in the level's buffer is logged first; a
\* statement that is to log writes its place.
Construct(level, logs) ==
    LogStream(level, buffer,
        /\ open' = Append(open, [level |-> level, logs |-> logs, said |-> FALSE])
        /\ buffer' = (buffer \ {level}) \cup (IF logs THEN {level} ELSE {}))

Statement(level, logs, deserves) ==
    /\ MayRun
    /\ stmts' = stmts + 1
    /\ deserved' = (deserved \/ deserves)
    /\ Construct(level, logs)
    /\ UNCHANGED <<forked, test, stale>>

\* ASSERT and CHECK with a condition, and LOG and LOG_IF at any level.
Condition ==
    \E level \in Level, logs \in BOOLEAN : Statement(level, logs, logs /\ level # "trace")

\* What ASSERT_EQ, ASSERT_NE and the two CHECKs of operands may come to: whether
\* the comparison fails in the code, and whether it does in C.
Compared == {<<~Comparer(o.op, o.A, o.a, o.B, o.b), ~Holds(o.op, o.A, o.a, o.B, o.b)>> :
                 o \in Operands}

Equality ==
    \E level \in {"error", "fatal"}, c \in Compared : Statement(level, c[1], c[2])

\* ASSUME: a condition that holds is logged at the level of a trace.  One that
\* does not ends the test before there is a Stream, in which way is the library's;
\* OneOf and Pump abandon it where they have nothing to choose (module Draws).
AssumeTrue == Statement("trace", TRUE, FALSE)

AssumeFalse ==
    /\ MayRun
    /\ stmts' = stmts + 1
    /\ \E how \in {"assume", "abandon"} : LongJump(how)
    /\ UNCHANGED <<forked, test, buffer, deserved, stale>>

\* The test calls DeepState_Pass itself.
Pass ==
    /\ MayRun
    /\ stmts' = stmts + 1
    /\ LongJump("pass")
    /\ UNCHANGED <<forked, test, buffer, deserved, stale>>

\* DeepState_Assert and DeepState_Check of a false expression, without a Stream.
CAssert ==
    /\ MayRun
    /\ stmts' = stmts + 1 /\ deserved' = TRUE
    /\ LongJump("fail")
    /\ UNCHANGED <<forked, test, buffer, stale>>

CCheck ==
    /\ MayRun
    /\ stmts' = stmts + 1 /\ deserved' = TRUE
    /\ failure' = TRUE
    /\ UNCHANGED <<forked, test, pc, open, buffer, abandoned, unwinding, stale, endVars>>

\* klee_choose draws a number that is too large: klee_silent_exit(0) ends the
\* process, marks and all.
Exit ==
    /\ MayRun
    /\ stmts' = stmts + 1
    /\ LongJump("exit")
    /\ UNCHANGED <<forked, test, buffer, deserved, stale>>

Last == open[Len(open)]
Others == SubSeq(open, 1, Len(open) - 1)

\* An operand of << is written, if the statement logs; an empty std::string is not.
Operand ==
    /\ open # <<>> /\ Last.logs /\ ~unwinding
    /\ buffer' = buffer \cup {Last.level}
    /\ open' = Append(Others, [Last EXCEPT !.said = TRUE])
    /\ UNCHANGED <<forked, test, pc, markVars, unwinding, stmts, deserved, stale, endVars>>

\* Mutant: a statement that has nothing to say does not write "Checked condition".
DestroySilently ==
    /\ open # <<>>
    /\ IF Last.logs /\ Last.said
       THEN LogStream(Last.level, buffer, open' = Others /\ buffer' = buffer \ {Last.level})
       ELSE open' = Others /\ UNCHANGED <<buffer, pc, endVars, markVars, unwinding>>
    /\ UNCHANGED <<forked, test, stmts, deserved, stale>>

\* The destructor of Stream, at the end of the statement or while unwinding.
Destroy ==
    /\ open # <<>>
    /\ IF Last.logs
       THEN LET b == IF Last.said THEN buffer ELSE buffer \cup {Last.level}
            IN  LogStream(Last.level, b, open' = Others /\ buffer' = b \ {Last.level})
       ELSE open' = Others /\ UNCHANGED <<buffer, pc, endVars, markVars, unwinding>>
    /\ UNCHANGED <<forked, test, stmts, deserved, stale>>

-----------------------------------------------------------------------------
(* Exceptions, of the tested code or the standard library. *)

Throw ==
    /\ MayRun
    /\ stmts' = stmts + 1 /\ unwinding' = TRUE
    /\ UNCHANGED <<forked, test, pc, open, buffer, markVars, deserved, stale, endVars>>

\* The test catches it, in whatever function.
Handled ==
    /\ unwinding /\ unwinding' = FALSE
    /\ UNCHANGED <<forked, test, pc, open, buffer, markVars, stmts, deserved, stale, endVars>>

\* Mutant: a test that an exception ends is over, and has not failed.
UncaughtPasses ==
    /\ unwinding /\ open = <<>>
    /\ deserved' = TRUE
    /\ LongJump("pass")
    /\ UNCHANGED <<forked, test, buffer, stmts, stale>>

\* The runner catches it, "Convert uncaught C++ exceptions into a test failure".
Uncaught ==
    /\ unwinding /\ open = <<>>
    /\ deserved' = TRUE
    /\ LongJump("fail")
    /\ UNCHANGED <<forked, test, buffer, stmts, stale>>

Next == Begin \/ PhaseEnds \/ Condition \/ Equality \/ AssumeTrue \/ AssumeFalse \/ Pass
        \/ CAssert \/ CCheck \/ Exit \/ Operand \/ Destroy \/ Throw \/ Handled \/ Uncaught

Spec == Init /\ [][Next]_vars

-----------------------------------------------------------------------------
(* What a test's verdict must mean. *)

\* A test in which an ASSERT, a CHECK or a logged error failed, or that an exception
\* left, is marked as failed when it is over, whatever ran inside the statement that
\* failed and shared its buffer.  Two exceptions: a test that was ended inside a
\* statement, by an assumption, DeepState_Abandon or DeepState_Pass, and one that
\* ended its process, which takes the mark with it and exits with 0.
FailureKept ==
    pc = "idle" /\ deserved => failure \/ ended = "exit" \/ (inside /\ ended # "fail")

\* A test is marked as failed only if something in it failed.  What an earlier
\* test left in a buffer fails it otherwise, which --fork rules out.
NoFalseFailure == failure /\ ~deserved => ~forked /\ stale # {}

\* No test begins with text in a buffer, if those before it all came to their end.
CleanBuffers == stale # {} => everCut

-----------------------------------------------------------------------------
(* Why: who wrote what is in a buffer, and what will still be logged. *)

\* A statement that fails the test when what it wrote is logged.
Fails(s) == s.logs /\ s.level # "trace"

\* No statement lives on between two tests, and no exception.
NoneOpen == pc = "idle" => open = <<>> /\ ~unwinding

\* Text in a buffer is an open statement's, or was there when the test began.
TextOwned ==
    pc # "idle" =>
        \A l \in buffer : l \in stale \/ \E i \in DOMAIN open : open[i].logs /\ open[i].level = l

\* Between two tests there is text only if a test was cut.
LeftByCut == pc = "idle" /\ buffer # {} => everCut

\* A child's buffers are empty when its test begins.
ForkIsClean == forked => stale = {}

\* A statement that fails the test is open only in a test that deserves it.
OpenDeserved == pc # "idle" => \A i \in DOMAIN open : Fails(open[i]) => deserved

\* While a test runs that deserves to fail, it is marked, or a statement is open
\* that will mark it: one whose level's buffer holds text, or that has said nothing
\* and so writes "Checked condition" at its end.
FailurePending ==
    pc # "idle" /\ deserved =>
        failure \/ \E i \in DOMAIN open :
                       Fails(open[i]) /\ (open[i].level \in buffer \/ ~open[i].said)

\* All of it, which every step keeps.
IInv ==
    /\ TypeOK /\ NoneOpen /\ TextOwned /\ LeftByCut /\ ForkIsClean
    /\ OpenDeserved /\ FailurePending
    /\ FailureKept /\ NoFalseFailure /\ CleanBuffers
=============================================================================
