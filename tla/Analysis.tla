------------------------------ MODULE Analysis ------------------------------
(***************************************************************************)
(* The analysis side of RcppDeepState: one R session that runs saved test  *)
(* cases of the compiled harnesses under valgrind, one after the other,    *)
(* and collects a row for each: the file, the inputs the tested function   *)
(* got, and valgrind's errors.                                             *)
(*                                                                         *)
(* The steps of a call talk through files.  The harness writes the inputs  *)
(* to one directory per function, overwritten by every run; the analysis   *)
(* keeps its logs in directories of its own among the saved test cases; it *)
(* decides whether the harness ran from an exit code and one line of its   *)
(* output.                                                                 *)
(*                                                                         *)
(* Functions and saved test cases are numbered in the order in which       *)
(* Sys.glob lists them.                                                    *)
(***************************************************************************)
EXTENDS Naturals, FiniteSets

CONSTANTS
    NFun,           \* number of functions
    NBin,           \* number of inputs the fuzzer can save for a function
    OutputNamed,    \* functions with "_output" in their names
    NameFound,      \* whether the name given to deepstate_analyze_file is right
    Dotted,         \* whether there is a dot in the package's name
    MaxInputs,      \* values of max_inputs; "all" is 0
    MaxTestfiles,   \* values of testfiles; "all" is 0
    Calls,          \* the package's functions that the user calls
    Events          \* what happens between two calls

Fun == 1..NFun

ASSUME SizeAssumption == NFun \in Nat \ {0} /\ NBin \in Nat \ {0}
ASSUME ArgsAssumption == NameFound \subseteq BOOLEAN /\ Dotted \subseteq BOOLEAN /\ Dotted # {}
                         /\ MaxInputs \subseteq Nat /\ MaxTestfiles \subseteq Nat

\* Entries of the directory <f>_output: the saved test cases, then a directory
\* log_<name> for each one analyzed, then log_log_<name>: a name of the fuzzer
\* is hexadecimal, and sorts before "log_", and "log_<hex>" before "log_log_".
Entry == 1..(3 * NBin)
Saved == 1..NBin
LogOf(e) == e + NBin

\* Who wrote the files in <f>/inputs: nobody, the run of a saved test case, or
\* a fuzzing run under valgrind.
NoInputs   == 0
FuzzInputs == NBin + 1
Inputs     == 0..(NBin + 1)

VARIABLES
    dotted,     \* the package's name has dots, which its tests' names are without
    dir,        \* functions that have a directory in inst/testfiles
    obj, exe,   \* those whose .o file, whose executable exists
    entries,    \* entries[f]: what is in the directory <f>_output
    inputs,     \* inputs[f]: who wrote the files in <f>/inputs
    logs        \* logs[f]: entries whose log directory has a valgrind_log

VARIABLES
    pc,         \* where the running call is, "idle" between two calls
    top,        \* the function the user called
    max,        \* max_inputs
    todoFun,    \* functions deepstate_harness_analyze_pkg still has to visit
    beyond,     \* testfiles is more than the functions there are
    chosen,     \* functions the call is about
    cur,        \* the function being analyzed
    todo,       \* entries deepstate_analyze_fun still has to visit
    ent,        \* the entry being analyzed
    named,      \* the harness has a test of the package name that is passed
    listed,     \* <f>/inputs had files when deepstate_fuzz_fun_analyze began
    run,        \* how the last run of a harness went
    table,      \* rows collected so far
    result      \* how the last call ended

\* The build side's part of it.
Tree == INSTANCE HarnessTree

treeVars == <<dotted, dir, obj, exe, entries, inputs, logs>>
callVars == <<top, max, chosen, beyond>>
vars == <<treeVars, pc, callVars, todoFun, cur, todo, ent, named, listed, run,
          table, result>>

\* What the analysis finds out about a run (zero: exit code 0; read: the line
\* "Initialized test input buffer" is in its output), and what it does not:
\* whether valgrind started it and it came to the call of the tested function.
\* whole: what it left can be read, the log, to which each of its processes wrote,
\* by LogReader, and the inputs by qread and scan.
Run == [started : BOOLEAN, read : BOOLEAN, called : BOOLEAN, zero : BOOLEAN,
        whole : BOOLEAN]

\* file is 0 in the row of a fuzzing run.
Row == [fun : Fun, file : 0..(3 * NBin), inputs : Inputs, run : Run]

TypeOK ==
    /\ dotted \in BOOLEAN
    /\ dir \subseteq Fun /\ obj \subseteq Fun /\ exe \subseteq Fun
    /\ entries \in [Fun -> SUBSET Entry]
    /\ inputs \in [Fun -> Inputs]
    /\ logs \in [Fun -> SUBSET Entry]
    /\ pc \in {"idle", "pkg", "fun", "files", "file", "run", "read", "fuzz", "fuzzread"}
    /\ top \in {"none", "analyze_pkg", "analyze_fun", "analyze_file", "fuzz_analyze"}
    /\ max \in Nat
    /\ todoFun \subseteq Fun /\ beyond \in BOOLEAN /\ chosen \subseteq Fun
    /\ cur \in Fun
    /\ todo \subseteq Entry /\ ent \in Entry
    /\ named \in BOOLEAN /\ listed \in BOOLEAN
    /\ run \in Run
    /\ table \subseteq Row
    /\ result \in {"none", "value", "message", "stop", "killed"}

NotRun == [started |-> FALSE, read |-> FALSE, called |-> FALSE, zero |-> FALSE,
           whole |-> TRUE]

\* A package whose harnesses are not created yet.
Init ==
    /\ dotted \in Dotted
    /\ dir = {} /\ obj = {} /\ exe = {}
    /\ entries = [f \in Fun |-> {}]
    /\ inputs = [f \in Fun |-> NoInputs]
    /\ logs = entries
    /\ pc = "idle" /\ top = "none" /\ result = "none"
    /\ max = 0 /\ todoFun = {} /\ beyond = FALSE /\ chosen = {}
    /\ cur = 1 /\ todo = {} /\ ent = 1 /\ named = TRUE /\ listed = FALSE
    /\ run = NotRun /\ table = {}

Least(S) == CHOOSE e \in S : \A d \in S : e <= d

\* The first n in the order of their names, S[1:n] for n no more than there are.
First(S, n) == {e \in S : Cardinality({d \in S : d < e}) < n}

End(r) == pc' = "idle" /\ result' = r

\* A call can be made: the value of the last one has been returned.
Ready == pc = "idle" /\ top = "none"

Returned ==
    /\ pc = "idle" /\ top # "none"
    /\ top' = "none" /\ result' = "none"
    /\ max' = 0 /\ todoFun' = {} /\ beyond' = FALSE /\ chosen' = {}
    /\ cur' = 1 /\ todo' = {} /\ ent' = 1 /\ named' = TRUE /\ listed' = FALSE
    /\ run' = NotRun /\ table' = {}
    /\ UNCHANGED <<treeVars, pc>>

\* The R session is ended in the middle of a call.
Killed ==
    /\ pc # "idle" /\ "kill" \in Events
    /\ End("killed")
    /\ UNCHANGED <<treeVars, callVars, todoFun, cur, todo, ent, named, listed, run, table>>

-----------------------------------------------------------------------------
(* deepstate_harness_analyze_pkg *)

AnalyzePkg ==
    /\ Ready /\ "analyze_pkg" \in Calls
    /\ \E n \in MaxTestfiles, m \in MaxInputs :
           /\ max' = m
           /\ chosen' = IF n = 0 THEN dir ELSE First(dir, n)
           /\ beyond' = (n > Cardinality(dir))
    /\ top' = "analyze_pkg" /\ pc' = "pkg"
    /\ todoFun' = chosen' /\ named' = ~dotted /\ table' = {} /\ result' = "none"
    /\ UNCHANGED <<treeVars, cur, todo, ent, listed, run>>

\* After the last function: asked for more than there are, the name NA follows,
\* which has no directory.
NextFun ==
    /\ pc = "pkg"
    /\ \/ /\ todoFun # {}
          /\ cur' = Least(todoFun) /\ todoFun' = todoFun \ {cur'}
          /\ pc' = "fun" /\ UNCHANGED result
       \/ /\ todoFun = {}
          /\ End(IF beyond THEN "stop" ELSE "value")
          /\ UNCHANGED <<cur, todoFun>>
    /\ UNCHANGED <<treeVars, callVars, todo, ent, named, listed, run, table>>

-----------------------------------------------------------------------------
(* deepstate_analyze_fun *)

AnalyzeFun ==
    /\ Ready /\ "analyze_fun" \in Calls
    /\ cur' \in Fun /\ max' \in MaxInputs
    /\ top' = "analyze_fun" /\ chosen' = {cur'} /\ beyond' = FALSE
    /\ named' = ~dotted /\ table' = {}
    /\ IF cur' \in dir THEN pc' = "fun" /\ result' = "none" ELSE End("stop")
    /\ UNCHANGED <<treeVars, todoFun, todo, ent, listed, run>>

\* Mutant: one less than there should be, if the number is not given.
SelectedShort(S) ==
    IF max # 0 /\ max <= Cardinality(S) THEN First(S, max) ELSE First(S, 2)

\* Mutant: as many as asked for, and NA after the last there is.
SelectedMissing(S) ==
    IF max # 0 THEN First(S, max) \cup (IF max > Cardinality(S) THEN {0} ELSE {})
               ELSE First(S, 3)

\* The entries to analyze: as many as asked for, but three if there are fewer
\* than that, and three if none is asked for.
Selected(S) ==
    IF max # 0 /\ max <= Cardinality(S) THEN First(S, max) ELSE First(S, 3)

\* Back to the caller of deepstate_analyze_fun, or of deepstate_analyze_file.
FunReturn(r) ==
    IF top = "analyze_pkg" THEN pc' = "pkg" /\ UNCHANGED result ELSE End(r)

ListFiles ==
    /\ pc = "fun"
    /\ \/ /\ entries[cur] = {}
          /\ FunReturn("message")
          /\ UNCHANGED todo
       \/ /\ entries[cur] # {}
          /\ todo' = Selected(entries[cur])
          /\ pc' = "files" /\ UNCHANGED result
    /\ UNCHANGED <<treeVars, callVars, todoFun, cur, ent, named, listed, run, table>>

NextFile ==
    /\ pc = "files"
    /\ \/ /\ todo # {}
          /\ ent' = Least(todo) /\ todo' = todo \ {ent'}
          /\ pc' = "file" /\ UNCHANGED result
       \/ /\ todo = {}
          /\ FunReturn("value")
          /\ UNCHANGED <<ent, todo>>
    /\ UNCHANGED <<treeVars, callVars, todoFun, cur, named, listed, run, table>>

-----------------------------------------------------------------------------
(* deepstate_analyze_file *)

AnalyzeFile ==
    /\ Ready /\ "analyze_file" \in Calls
    /\ cur' \in Fun /\ ent' \in Saved /\ named' \in NameFound
    /\ top' = "analyze_file" /\ chosen' = {cur'} /\ beyond' = FALSE
    /\ pc' = "file" /\ todo' = {} /\ table' = {} /\ result' = "none"
    /\ UNCHANGED <<treeVars, max, todoFun, listed, run>>

\* The directory for the logs.  A file that does not exist is only reported:
\* the user asked for it, or the entry of the list has gone.
MakeLogDir ==
    /\ pc = "file"
    /\ IF ent \in entries[cur]
       THEN /\ entries' = [entries EXCEPT ![cur] = @ \cup ({LogOf(ent)} \cap Entry)]
            /\ pc' = "run" /\ UNCHANGED result
       ELSE /\ IF top = "analyze_file" THEN End("message")
                                       ELSE pc' = "files" /\ UNCHANGED result
            /\ UNCHANGED entries
    /\ UNCHANGED <<dotted, dir, obj, exe, inputs, logs, callVars, todoFun, cur, todo,
                   ent, named, listed, run, table>>

\* What a run of the harness on entry e of f can come to.  The executable's name
\* is made from the directory's, by replacing each "_output" in it.  The test is
\* asked for by the package's name; a test that is not there is no failure.  A
\* directory cannot be read.  A file is read; then the child can end before the
\* call (the test is abandoned, or it crashes drawing values), in it, or after.
Outcomes(f, e) ==
    IF f \notin exe \/ f \in OutputNamed THEN {NotRun}
    ELSE IF ~named
         THEN [started : {TRUE}, read : {FALSE}, called : {FALSE}, zero : {TRUE},
               whole : BOOLEAN]
    ELSE IF e \notin Saved
         THEN {[NotRun EXCEPT !.started = TRUE]}
    ELSE [started : {TRUE}, read : {TRUE}, called : BOOLEAN, zero : BOOLEAN, whole : BOOLEAN]

\* Mutant: the inputs are saved after the call, and lost if it crashes.
DumpedAfterCall(o, w, old) == IF o.called /\ o.zero THEN w ELSE old

\* The runner draws all inputs, saves them, and then calls the function.
Dumped(o, w, old) == IF o.called THEN w ELSE old

RunFile ==
    /\ pc = "run"
    /\ run' \in Outcomes(cur, ent)
    /\ inputs' = [inputs EXCEPT ![cur] = Dumped(run', ent, @)]
    /\ logs' = IF run'.started THEN [logs EXCEPT ![cur] = @ \cup {ent}] ELSE logs
    /\ pc' = "read"
    /\ UNCHANGED <<dotted, dir, obj, exe, entries, callVars, todoFun, cur, todo, ent,
                   named, listed, table, result>>

\* Mutant: what the run of the harness came to is not looked at.
NotAnalyzedNever == FALSE

\* Mutant: a harness that fails or crashes has not been analyzed.
NotAnalyzedExit == ~run.zero

\* An exit code other than 0, and the harness did not say it read the file.
NotAnalyzed == ~run.zero /\ ~run.read

\* Mutant: a run that left nothing to be read is repeated.
ReadRowRetries ==
    /\ pc = "read"
    /\ IF NotAnalyzed \/ ent \notin logs[cur] \/ ~run.whole
       THEN pc' = "run" /\ UNCHANGED <<table, result>>
       ELSE /\ table' = table \cup {[fun |-> cur, file |-> ent,
                                     inputs |-> inputs[cur], run |-> run]}
            /\ IF top = "analyze_file" THEN End("value")
                                       ELSE pc' = "files" /\ UNCHANGED result
    /\ UNCHANGED <<treeVars, callVars, todoFun, cur, todo, ent, named, listed, run>>

ReadRow ==
    /\ pc = "read"
    /\ IF NotAnalyzed \/ ent \notin logs[cur] \/ ~run.whole
       THEN End("stop") /\ UNCHANGED table
       ELSE /\ table' = table \cup {[fun |-> cur, file |-> ent,
                                     inputs |-> inputs[cur], run |-> run]}
            /\ IF top = "analyze_file" THEN End("value")
                                       ELSE pc' = "files" /\ UNCHANGED result
    /\ UNCHANGED <<treeVars, callVars, todoFun, cur, todo, ent, named, listed, run>>

-----------------------------------------------------------------------------
(* deepstate_fuzz_fun_analyze *)

\* The inputs are listed first; then the harness is compiled if there is no .o
\* file, and only then the time limit is looked at.  deepstate_compile_fun stops
\* if a file it needs is missing; make may fail, which nobody looks at.  The call
\* stops as well if there is no harness to read, or no test "runner" in it.
FuzzAnalyze ==
    /\ Ready /\ "fuzz_analyze" \in Calls
    /\ top' = "fuzz_analyze" /\ table' = {}
    /\ \E f \in Fun, files, limit, runner \in BOOLEAN :
           /\ cur' = f /\ chosen' = {f} /\ beyond' = FALSE
           /\ listed' = (inputs[f] # NoInputs)
           /\ \/ /\ f \notin dir \/ (f \notin obj /\ ~files)
                 /\ End("stop") /\ UNCHANGED <<obj, exe>>
              \/ /\ f \in dir /\ (f \in obj \/ files)
                 /\ IF f \in obj THEN UNCHANGED <<obj, exe>> ELSE Tree!Compile(f)
                 /\ IF limit /\ runner THEN pc' = "fuzz" /\ result' = "none"
                                      ELSE End("stop")
    /\ UNCHANGED <<dotted, dir, entries, inputs, logs, max, todoFun, todo, ent, named, run>>

\* The test's name is read from the harness, dots or no dots.  read: "Starting
\* fuzzing" is in the output.  Many runs in one: the inputs are of the last.
RunFuzzer ==
    /\ pc = "fuzz"
    /\ run' \in IF cur \notin exe THEN {NotRun}
                ELSE [started : {TRUE}, read : {TRUE}, called : BOOLEAN, zero : BOOLEAN,
                      whole : BOOLEAN]
    /\ inputs' = [inputs EXCEPT ![cur] = Dumped(run', FuzzInputs, @)]
    /\ pc' = "fuzzread"
    /\ UNCHANGED <<dotted, dir, obj, exe, entries, logs, callVars, todoFun, cur, todo, ent,
                   named, listed, table, result>>

FuzzRow ==
    /\ pc = "fuzzread"
    /\ IF NotAnalyzed \/ ~run.whole
       THEN End("stop") /\ UNCHANGED table
       ELSE /\ table' = {[fun |-> cur, file |-> 0, run |-> run,
                          inputs |-> IF listed THEN inputs[cur] ELSE NoInputs]}
            /\ End("value")
    /\ UNCHANGED <<treeVars, callVars, todoFun, cur, todo, ent, named, listed, run>>

-----------------------------------------------------------------------------
(***************************************************************************)
(* The rest of the package, between two calls: creating and compiling      *)
(* harnesses, as HarnessTree says and HarnessBuild does, and fuzzing.      *)
(***************************************************************************)

CallUnchanged == UNCHANGED <<dotted, pc, callVars, todoFun, cur, todo, ent, named, listed, run,
                             table, result>>

\* deepstate_pkg_create: what an earlier build and analysis left is removed.
Create(f) ==
    /\ "create" \in Events
    /\ Tree!Create(f)
    /\ entries' = [entries EXCEPT ![f] = {}]
    /\ inputs' = [inputs EXCEPT ![f] = NoInputs]
    /\ logs' = [logs EXCEPT ![f] = {}]

\* The cleanup of deepstate_pkg_create, killed part way: some of the files are gone,
\* of a log directory the log before the directory.
CutShort(f) ==
    /\ "cut" \in Events
    /\ Tree!Unlink(f)
    /\ \E gone \in SUBSET entries[f], left \in SUBSET logs[f] :
          /\ \A e \in left : LogOf(e) \notin gone
          /\ entries' = [entries EXCEPT ![f] = @ \ gone]
          /\ logs' = [logs EXCEPT ![f] = left]
    /\ inputs' \in {inputs, [inputs EXCEPT ![f] = NoInputs]}
    /\ UNCHANGED dir

\* deepstate_compile_fun; the harness may not compile, or not link.
CompileFun(f) ==
    /\ "compile" \in Events
    /\ Tree!Compile(f)
    /\ UNCHANGED <<entries, inputs, logs>>

\* deepstate_fuzz_fun runs the test "generator", which draws inputs and saves
\* neither them nor anything but the bytes they are drawn from.
FuzzFun(f) ==
    /\ "fuzz" \in Events /\ f \in exe
    /\ \E new \in SUBSET Saved : entries' = [entries EXCEPT ![f] = @ \cup new]
    /\ UNCHANGED <<dir, obj, exe, inputs, logs>>

\* Someone deletes the executable.
LoseExe(f) ==
    /\ "lose" \in Events
    /\ exe' = exe \ {f}
    /\ UNCHANGED <<dir, obj, entries, inputs, logs>>

Between ==
    /\ Ready
    /\ \E f \in Fun : Create(f) \/ CutShort(f) \/ CompileFun(f) \/ FuzzFun(f) \/ LoseExe(f)
    /\ CallUnchanged

UserCall == AnalyzePkg \/ AnalyzeFun \/ AnalyzeFile \/ FuzzAnalyze

\* All steps of a call but waiting for a harness that runs.
Advance == NextFun \/ ListFiles \/ NextFile \/ MakeLogDir \/ ReadRow \/ FuzzRow

SessionStep == Advance \/ RunFile \/ RunFuzzer

Next == UserCall \/ SessionStep \/ Returned \/ Between \/ Killed

Spec == Init /\ [][Next]_vars

\* A call that runs takes its next step.  A run of a harness need not end: on a saved
\* test case it has no time limit, and while fuzzing the time is looked at between
\* two runs of the tested function only.
FairSpec == Spec /\ WF_vars(Advance)

-----------------------------------------------------------------------------
(* What holds. *)

\* A row of the table is of a saved test case that the harness read, under
\* valgrind, in this call: not of a log directory, not of a file the harness did
\* not get to, with the log of an earlier call (analyze_binary_one.R, the check
\* of the exit code).  All but the rows of a package whose tests are not found
\* under the name that is passed: there they are of runs that did nothing.
RowsWereRun ==
    \A row \in table :
        /\ row.run.started
        /\ named \/ row.file = 0 => row.run.read /\ row.file \in Saved \cup {0}

\* Where the run came to the tested function, the inputs of the row are those
\* the function was called with, also if the call ended the harness: they go
\* through files every run overwrites (fun_harness_create.R, runner_body).  The
\* row of a fuzzing run has them, or none if there were none before it.
InputsOfCalled ==
    \A row \in table : row.run.called =>
        IF row.file # 0 THEN row.inputs = row.file ELSE row.inputs \in {FuzzInputs, NoInputs}

\* Analysis goes on over what it looks for: a test that fails, or a function
\* that crashes, ends no call; a log that more processes wrote to does.
StopsUnread ==
    result = "stop" /\ top \in {"analyze_fun", "analyze_file"} =>
        cur \notin dir \/ ~run.read \/ ~run.whole

Files(f) == {row.file : row \in {r \in table : r.fun = f}}

\* F is what analyzing as many saved test cases of f as asked for may come to:
\* those, in their order, if there are so many, and else three at least, or all: if
\* none are asked for, all are promised (analyze_binary.R, max_inputs) and three done.
Covers(F, f) ==
    LET S == entries[f] \cap Saved
    IN  /\ F \cap Saved \subseteq S
        /\ IF max \in 1..Cardinality(S) THEN F \cap Saved = First(S, max)
                                        ELSE First(S, 3) \subseteq F

\* When deepstate_harness_analyze_pkg turns to the next function, the ones it has
\* been to have their rows: no test case was passed over, though the loop went on
\* over failing runs, and over log directories of an earlier call, which are in
\* the same list and may be asked for in place of test cases.
FunctionsComplete ==
    pc = "pkg" => \A f \in chosen \ todoFun : Covers(Files(f), f)

\* Unless it waits for a run of a harness for good, every call ends, with a value
\* or an error: no run is repeated until it can be read.
CallEnds == <>[](pc \in {"run", "fuzz"}) \/ []<>(pc = "idle")

(***************************************************************************)
(* What the README says, and the code does not do.                         *)
(***************************************************************************)

\* README.md: "This method examines each test file created in the previous step
\* and produces a table"; where all harnesses are there, all asked for exist and
\* what the last run left can be read.
AnalysisGivesTable ==
    top = "analyze_pkg" /\ result = "stop" =>
        beyond \/ ~(chosen \subseteq exe) \/ ~run.whole

-----------------------------------------------------------------------------
(* The inductive invariant behind the properties above.                    *)

\* A call that runs has not ended, and which steps it takes depends on what was
\* called.
CallInv ==
    /\ pc # "idle" => result = "none"
    /\ pc = "pkg" => top = "analyze_pkg"
    /\ pc \in {"fun", "files"} => top \in {"analyze_pkg", "analyze_fun"}
    /\ pc \in {"file", "run", "read"} =>
          top \in {"analyze_pkg", "analyze_fun", "analyze_file"}
    /\ pc \in {"fuzz", "fuzzread"} => top = "fuzz_analyze"

\* What can be known of a run before its row is made: where the harness ended
\* well or read its file it was started, with its log, and had a file to read, if
\* the test was found.  Inputs were saved by this run if it came to the call.
RunInv ==
    /\ pc = "read" =>
          /\ run.started => ent \in logs[cur]
          /\ run.zero \/ run.read => run.started /\ (named => run.read /\ ent \in Saved)
          /\ run.called => inputs[cur] = ent
    /\ pc = "fuzzread" =>
          /\ run.zero \/ run.read => run.started /\ run.read
          /\ run.called => inputs[cur] = FuzzInputs

\* The files of cur that have a row or will have one, if nothing stops the call.
Sought == Files(cur) \cup todo \cup IF pc \in {"file", "run", "read"} THEN {ent} ELSE {}

\* In deepstate_harness_analyze_pkg a function has no row before its turn, and
\* from then on what is wanted of it is sought and not lost.
PkgInv ==
    top = "analyze_pkg" /\ pc # "idle" =>
        /\ todoFun \subseteq chosen
        /\ \A f \in todoFun : Files(f) = {}
        /\ pc # "pkg" => cur \in chosen \ todoFun
        /\ pc = "fun" => Files(cur) = {}
        /\ \A f \in chosen \ todoFun : f # cur \/ pc = "pkg" => Covers(Files(f), f)
        /\ pc \in {"files", "file", "run", "read"} =>
              Covers(Sought, cur) /\ todo \subseteq entries[cur]
        /\ pc = "file" => ent \in entries[cur]

IInv == /\ TypeOK /\ CallInv /\ RunInv /\ PkgInv
        /\ RowsWereRun /\ InputsOfCalled /\ StopsUnread
=============================================================================
