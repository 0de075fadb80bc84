----------------------------- MODULE TestRunner -----------------------------
(***************************************************************************)
(* DeepState_Run of DeepState.h, the main loop of a compiled harness: it   *)
(* runs the registered tests, or some of them on saved test cases, each in *)
(* a child process (or in its own, with --no_fork), and returns how many   *)
(* failed.  RcppDeepState runs a harness with --input_test_file when it    *)
(* analyzes a saved test case; the other modes are the harness's own.      *)
(* --fuzz is a loop of libdeepstate, and --list_tests only prints.         *)
(*                                                                         *)
(* A test ends by longjmp to ReturnToRun, by an exception, by a signal or  *)
(* by leaving the process; the runner knows only the marks the test left   *)
(* in the current run, and what waitpid returns.                           *)
(***************************************************************************)
EXTENDS Naturals, FiniteSets

CONSTANTS
    NTest,      \* number of tests, in the order they are registered
    Boring, Disabled, Matching,     \* tests whose names are such, or match
    NFile,      \* most saved test cases in a directory
    Flags,      \* the command lines: a set of records, see Flag
    Ends,       \* how the body of a test may end, see End
    ExitCodes,  \* what the tested code passes to exit()
    ForkFails   \* whether fork() may fail

Test == 1..NTest
NoTest == 0

\* The option that chooses the mode, and what else the loops look at; drfuzz is an
\* environment variable.  Of --abort_on_fail one place looks at whether it is given
\* and the others at its value, which is false where it is not given.
Flag == [mode : {"plain", "file", "dir", "cases"}, drfuzz : BOOLEAN, fork : BOOLEAN,
         boring : BOOLEAN, filter : BOOLEAN, disabled : BOOLEAN, output : BOOLEAN,
         abort : BOOLEAN, abort_given : BOOLEAN, exit : BOOLEAN]

\* A body returns to the runner, which passes it, or ends as named.
End == {"pass", "fail", "abandon", "throw", "crash", "exit"}

ASSUME NumbersAssumption == NTest \in Nat /\ NFile \in Nat
ASSUME FlagsAssumption == Flags \subseteq {f \in Flag : f.abort => f.abort_given}
ASSUME EndsAssumption == Ends \subseteq End /\ ExitCodes \subseteq Nat /\ ForkFails \in BOOLEAN

\* enum DeepState_TestRunResult; a child may exit with any other status.
Pass == 0    Fail == 1    Crash == 2    Abandon == 3

VARIABLES
    flag,       \* the command line
    pc,         \* where DeepState_Run is
    t,          \* the test whose turn it is
    files,      \* saved test cases the loop has still to visit
    failure,    \* DeepState_CatchFail() of the current run
    abandoned,  \* DeepState_CatchAbandoned() of the current run
    verdict,    \* result of the last run
    failed,     \* num_failed_tests
    alive,      \* tests whose Dr. Fuzz process runs
    dead,       \* tests whose Dr. Fuzz process has ended
    kept,       \* test cases saved: <<suffix, how the body went>>
    status      \* "running", "returned", "exited" or "killed"

\* What really happened, whatever the runner makes of it.
VARIABLES
    bad,        \* number of runs that did not pass
    lost,       \* number of those abandoned, or left with a status of their own
    unseen      \* number of those without a child, or left with 0 after a failure

markVars == <<failure, abandoned>>
truthVars == <<bad, lost, unseen>>
vars == <<flag, pc, t, files, markVars, verdict, failed, alive, dead, kept, status,
          truthVars>>

PC == {"test", "boring", "filter", "run", "wait", "find", "open", "load", "saved",
       "count", "end"}

TypeOK ==
    /\ flag \in Flags /\ pc \in PC
    /\ t \in 1..(NTest + 1) /\ files \in 0..NFile \cup {1}
    /\ failure \in BOOLEAN /\ abandoned \in BOOLEAN
    /\ verdict \in 0..255 /\ failed \in Nat
    /\ alive \subseteq Test /\ dead \subseteq Test
    /\ kept \subseteq {".pass", ".fail", ".crash"} \X {"pass", "fail", "abandon", "crash"}
    /\ status \in {"running", "returned", "exited", "killed"}
    /\ bad \in Nat /\ lost \in Nat /\ unseen \in Nat

\* DeepState_Run up to the choice of the mode.
Init ==
    /\ flag \in Flags
    /\ pc = CASE flag.mode = "plain" -> "test"
              [] flag.mode = "cases" -> "open"
              [] OTHER -> "find"
    /\ t = 1 /\ files = 0
    /\ failure = FALSE /\ abandoned = FALSE
    /\ verdict = Pass /\ failed = 0
    /\ alive = {} /\ dead = {} /\ kept = {} /\ status = "running"
    /\ bad = 0 /\ lost = 0 /\ unseen = 0

\* The harness ends; s says how.
Stop(s) == pc' = "end" /\ status' = s

Goto(p) == pc' = p /\ UNCHANGED status

-----------------------------------------------------------------------------
(* DeepState_Begin, DeepState_ForkAndRunTest and what it calls *)

\* Whether a body leaves the mark of a failure: soft is a failed CHECK before the
\* end e.  An exception becomes a failure.
Marked(soft, e) == soft \/ e \in {"fail", "throw"}

\* Mutant: the status is not cut to a byte.
WholeStatus(n) == n

ExitStatus(n) == n % 256

\* How the body went.
Went(soft, e, n) ==
    CASE e = "crash" -> "crash"
      [] e # "crash" /\ Marked(soft, e) -> "fail"
      [] e = "abandon" /\ ~soft -> "abandon"
      [] e = "exit" /\ ~soft /\ ExitStatus(n) # Pass -> "fail"
      [] OTHER -> "pass"

\* A status that is none of a passing, failing or crashing test's.
Lost(soft, e, n) == \/ e = "abandon" /\ ~soft
                    \/ e = "exit" /\ n % 256 \notin {Pass, Fail, Crash}

\* A passing test's status, after a failure.
Unseen(soft, e, n) == soft /\ e = "exit" /\ n % 256 = Pass

Happened(b, l, u) ==
    /\ bad' = IF b = "pass" THEN bad ELSE bad + 1
    /\ lost' = IF l THEN lost + 1 ELSE lost
    /\ unseen' = IF u THEN unseen + 1 ELSE unseen

\* Mutant: an abandoned test is looked for first.
CaughtAbandonedFirst(f, a) == IF a THEN Abandon ELSE IF f THEN Fail ELSE Pass

\* A test may have failed softly before it was abandoned: that comes first.
Caught(f, a) == IF f THEN Fail ELSE IF a THEN Abandon ELSE Pass

\* What is saved, if there is an output directory: by the run, of a test that
\* came back to it, or by DeepState_RunSavedTestCase, of one that crashed.
Saved(v, e, b) ==
    LET suffix == CASE v = Fail  /\ e \notin {"crash", "exit"} -> {".fail"}
                    [] v = Pass  /\ e \notin {"crash", "exit"} -> {".pass"}
                    [] v = Crash /\ flag.mode # "plain"        -> {".crash"}
                    [] OTHER -> {}
    IN  IF flag.output THEN suffix \X {b} ELSE {}

\* Mutant: the marks of the run before are not cleared.
BeganAgain(was, is) == was \/ is

\* DeepState_Begin clears the marks of the run before.
Began(was, is) == is

\* Forked: the child's exit status, or its death, is the result; what it marks
\* and saves is its own, but for the files.
ForkedRun(p) ==
    /\ flag.fork
    /\ \E soft \in BOOLEAN, e \in Ends, n \in ExitCodes :
           LET went == Went(soft, e, n)
               v == CASE e = "crash" -> Crash
                      [] e = "exit" -> ExitStatus(n)
                      [] OTHER -> Caught(Began(failure, Marked(soft, e)),
                                         Began(abandoned, e = "abandon"))
           IN  /\ verdict' = v
               /\ kept' = kept \cup Saved(v, e, went)
               /\ Happened(went, Lost(soft, e, n), Unseen(soft, e, n))
    /\ failure' = Began(failure, FALSE) /\ abandoned' = Began(abandoned, FALSE)
    /\ Goto(p)

\* Mutant: waitpid does not return while there is no child that has ended.
ReapOnlyDead(c) == c \in dead /\ dead' = dead \ {c}

\* waitpid(-1): it takes any child that has ended, and does not wait if there is
\* no child at all.
ReapAny(c) == \/ c \in dead /\ dead' = dead \ {c}
              \/ c = NoTest /\ alive \cup dead = {} /\ UNCHANGED dead

\* fork() fails and returns -1, which is what waitpid is then given: without a
\* child wstatus is still the 0 it was declared with, and with one of Dr. Fuzz's
\* its status is taken for the test's.
NotForked(p) ==
    /\ flag.fork /\ ForkFails
    /\ \E c \in Test \cup {NoTest} :
           /\ ReapAny(c)
           /\ verdict' \in IF c = NoTest THEN {Pass} ELSE {Pass, Fail, Crash, Abandon}
    /\ failure' = Began(failure, FALSE) /\ abandoned' = Began(abandoned, FALSE)
    /\ Happened("none", FALSE, verdict' = Pass)
    /\ Goto(p) /\ UNCHANGED kept

\* In the harness's own process: a crash or an exit() of the test ends it.
NoForkRun(p) ==
    /\ ~flag.fork
    /\ \E soft \in BOOLEAN, e \in Ends, n \in ExitCodes :
           LET went == Went(soft, e, n)
               v == Caught(failure', abandoned')
           IN  /\ failure' = Began(failure, Marked(soft, e))
               /\ abandoned' = Began(abandoned, e = "abandon")
               /\ Happened(went, Lost(soft, e, n), Unseen(soft, e, n))
               /\ IF e \in {"crash", "exit"}
                  THEN /\ Stop(IF e = "crash" THEN "killed" ELSE "exited")
                       /\ UNCHANGED <<verdict, kept>>
                  ELSE /\ verdict' = v /\ kept' = kept \cup Saved(v, e, went)
                       /\ IF v = Fail /\ flag.abort_given THEN Stop("killed") ELSE Goto(p)

ForkAndRunTest(p) ==
    \/ (ForkedRun(p) \/ NoForkRun(p)) /\ UNCHANGED dead
    \/ NotForked(p)

-----------------------------------------------------------------------------
(* DeepState_Run: all tests *)

\* num_failed_tests, after a run that did not end the harness.
CountFailed == failed' = IF pc' # "end" /\ verdict' # Pass THEN failed + 1 ELSE failed

PickTest ==
    /\ pc = "test"
    /\ \/ /\ t > NTest
          /\ IF flag.drfuzz THEN Goto("wait") ELSE Stop("returned")
          /\ UNCHANGED t
       \/ /\ t <= NTest /\ flag.boring /\ t \notin Boring
          /\ Goto("test") /\ t' = t + 1
       \/ /\ t <= NTest /\ (flag.boring => t \in Boring)
          /\ Goto(IF flag.boring THEN "boring" ELSE "filter") /\ UNCHANGED t
    /\ UNCHANGED <<flag, files, markVars, verdict, failed, alive, dead, kept, truthVars>>

\* With --boring_only, a run of the test's own; then the test goes on as others do.
RunBoring ==
    /\ pc = "boring"
    /\ ForkAndRunTest("filter") /\ CountFailed
    /\ UNCHANGED <<flag, t, files, alive>>

FilterTest ==
    /\ pc = "filter"
    /\ \/ /\ (flag.filter /\ t \notin Matching) \/ (~flag.disabled /\ t \in Disabled)
          /\ Goto("test") /\ t' = t + 1
       \/ /\ (flag.filter => t \in Matching) /\ (t \in Disabled => flag.disabled)
          /\ Goto("run") /\ UNCHANGED t
    /\ UNCHANGED <<flag, files, markVars, verdict, failed, alive, dead, kept, truthVars>>

RunTest ==
    /\ pc = "run" /\ ~flag.drfuzz
    /\ ForkAndRunTest("test") /\ CountFailed
    /\ t' = t + 1
    /\ UNCHANGED <<flag, files, alive>>

\* Under Dr. Fuzz the child runs the test, if there is one; the harness does not
\* look at it.
RunDrFuzz ==
    /\ pc = "run" /\ flag.drfuzz
    /\ alive' = alive \cup {t} \/ (ForkFails /\ UNCHANGED alive)
    /\ Goto("test") /\ t' = t + 1
    /\ UNCHANGED <<flag, files, markVars, verdict, failed, dead, kept, truthVars>>

DrFuzzEnds ==
    /\ \E c \in alive : alive' = alive \ {c} /\ dead' = dead \cup {c}
    /\ UNCHANGED <<flag, pc, t, files, markVars, verdict, failed, kept, status, truthVars>>

\* One waitpid, for any child.
WaitDrFuzz ==
    /\ pc = "wait"
    /\ \E c \in Test \cup {NoTest} : ReapAny(c)
    /\ Stop("returned")
    /\ UNCHANGED <<flag, t, files, markVars, verdict, failed, alive, kept, truthVars>>

-----------------------------------------------------------------------------
(* Saved test cases *)

\* DeepState_RunSingleSavedTestCase and -Dir: the test is the one asked for, the
\* first one, or there is none; a directory has any number of files.
FindTest ==
    /\ pc = "find"
    /\ \/ /\ Stop("returned") /\ UNCHANGED <<t, files>>
       \/ /\ t' \in Test
          /\ files' \in IF flag.mode = "file" THEN {1} ELSE 0..NFile
          /\ Goto("load")
    /\ UNCHANGED <<flag, markVars, verdict, failed, alive, dead, kept, truthVars>>

\* DeepState_RunSavedCases, for each test DeepState_RunSavedCasesForTest; a
\* directory that is not there is like an empty one.
OpenCases ==
    /\ pc = "open"
    /\ \/ t > NTest /\ Stop("returned") /\ UNCHANGED files
       \/ t <= NTest /\ files' \in 0..NFile /\ Goto("load")
    /\ UNCHANGED <<flag, t, markVars, verdict, failed, alive, dead, kept, truthVars>>

\* DeepState_RunSavedTestCase.  A file that cannot be read abandons the test, by
\* longjmp to the frame of this function, which makes a crash of it.
LoadCase ==
    /\ pc = "load" /\ files > 0
    /\ files' = files - 1
    /\ \/ /\ Goto("saved") /\ UNCHANGED <<markVars, verdict, truthVars>>
       \/ /\ abandoned' = TRUE /\ UNCHANGED failure
          /\ verdict' = Crash /\ Happened("unread", FALSE, FALSE)
          /\ Goto("count")
    /\ UNCHANGED <<flag, t, failed, alive, dead, kept>>

RunCase ==
    /\ pc = "saved"
    /\ ForkAndRunTest("count")
    /\ UNCHANGED <<flag, t, files, failed, alive>>

EndCases ==
    /\ pc = "load" /\ files = 0
    /\ IF flag.mode = "cases" THEN Goto("open") /\ t' = t + 1
                              ELSE Stop("returned") /\ UNCHANGED t
    /\ UNCHANGED <<flag, files, markVars, verdict, failed, alive, dead, kept, truthVars>>

\* One test's files: whatever is not a pass counts.
CountOfCases ==
    /\ flag.mode = "cases"
    /\ failed' = IF verdict # Pass THEN failed + 1 ELSE failed
    /\ Goto("load")

\* One file, or all of a directory, for a chosen test.
CountOfChosen ==
    /\ flag.mode # "cases"
    /\ IF verdict \notin {Fail, Crash} THEN Goto("load") /\ UNCHANGED failed
       ELSE IF flag.abort THEN Stop("killed") /\ UNCHANGED failed
       ELSE IF flag.exit THEN Stop("exited") /\ UNCHANGED failed
       ELSE Goto("load") /\ failed' = failed + 1

CountCase ==
    /\ pc = "count"
    /\ CountOfCases \/ CountOfChosen
    /\ UNCHANGED <<flag, t, files, markVars, verdict, alive, dead, kept, truthVars>>

-----------------------------------------------------------------------------
Plain == PickTest \/ RunBoring \/ FilterTest \/ RunTest \/ RunDrFuzz \/ WaitDrFuzz

SavedCases == FindTest \/ OpenCases \/ LoadCase \/ RunCase \/ EndCases \/ CountCase

Runner == Plain \/ SavedCases

Next == Runner \/ DrFuzzEnds

Spec == Init /\ [][Next]_vars

\* The harness goes on while it can, which it does if every test it runs ends,
\* and so do the processes of Dr. Fuzz.
FairSpec == Spec /\ WF_vars(Runner) /\ WF_vars(DrFuzzEnds)

-----------------------------------------------------------------------------
(* What holds. *)

Stopped == status \in {"exited", "killed"}

\* The run whose result is known and not counted yet.
Pending == IF pc = "count" /\ verdict # Pass THEN 1 ELSE 0

\* Over all tests, or all saved cases of all tests, num_failed_tests is the
\* number of runs that did not pass and could be seen not to: no mark of one run
\* is left for the next, whichever way it ended (DeepState_Begin, and the two
\* DeepState_RunTest).
CountTrue ==
    flag.mode \in {"plain", "cases"} /\ ~Stopped => failed + Pending + unseen = bad

\* With one file, or one directory, neither are the runs counted that were
\* abandoned without a failure before, or that left with a status of their own
\* (DeepState_RunSingleSavedTestDir).
CountTrueButLost ==
    flag.mode \in {"file", "dir"} /\ ~Stopped =>
        failed + (IF pc = "count" /\ verdict \in {Fail, Crash} THEN 1 ELSE 0)
            + lost + unseen = bad

\* With --exit_on_fail or --abort_on_fail a chosen test does not go on after a run
\* that fails, whatever the run before left.
StopsAtFirst ==
    flag.mode \in {"file", "dir"} /\ (flag.exit \/ flag.abort) /\ pc \in {"load", "saved"} =>
        bad = lost + unseen

\* The harness ends, however its children and the forks that fail are timed: no
\* waitpid waits for a child that was never started, or has been waited for.
RunnerEnds == <>(status # "running")

\* A test case is saved under the suffix that says how its run went, although the
\* child, its parent and the run itself save test cases.
KeptTrue == kept \subseteq {<<".pass", "pass">>, <<".fail", "fail">>,
                            <<".crash", "crash">>, <<".crash", "fail">>}

-----------------------------------------------------------------------------
(* The inductive invariant behind the properties above.                    *)

\* Where the runner can be with each option, with a test while it works on one.
\* Only the loop over all tests starts Dr. Fuzz, and a chosen test that does not
\* go on after a failure has counted none.
ModeInv ==
    /\ pc = "end" <=> status # "running"
    /\ flag.mode = "plain" => pc \in {"test", "boring", "filter", "run", "wait", "end"}
    /\ flag.mode = "cases" => pc \in {"open", "load", "saved", "count", "end"}
    /\ flag.mode \in {"file", "dir"} => pc \in {"find", "load", "saved", "count", "end"}
    /\ pc \in {"boring", "filter", "run", "load", "saved", "count"} => t \in Test
    /\ flag.mode # "plain" => alive = {} /\ dead = {}
    /\ flag.mode \in {"file", "dir"} /\ (flag.exit \/ flag.abort) => failed = 0

IInv == TypeOK /\ ModeInv /\ CountTrue /\ CountTrueButLost /\ KeptTrue
=============================================================================
