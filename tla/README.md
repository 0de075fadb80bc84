# A TLA+ model of RcppDeepState

RcppDeepState generates a fuzzing harness for every exported C++ function of an R package, compiles
it against DeepState, fuzzes it, runs the saved inputs under valgrind, and collects the errors in a
table. This directory holds specifications of its core, configurations that model-check them with
TLC, and theorems about them with proofs for TLAPS. Paths below are relative to `src/`.

## 1. The system

### Components

| Component | State it keeps | Operations | What makes it correct |
|---|---|---|---|
| Harness creation (`R/pkg_harness_create.R`, `R/fun_harness_create.R`, `R/fun_makefile_create.R`) | the tree `inst/testfiles/<f>/`: harness, Makefile, output directory; the package's `.so` and `RcppExports.cpp` | `deepstate_pkg_create`, `deepstate_fun_create`, `deepstate_create_makefile` | what is counted as created can be compiled; a harness the user wrote survives |
| Compilation and fuzzing (`R/fun_harness_compile.R`, `R/fun_harness_fuzz.R`, `R/pkg_harness_compile.R`) | `.o` file and executable of each harness | `deepstate_compile_fun`, `deepstate_fuzz_fun`, `deepstate_harness_compile_run` | what is reported was compiled from the harness there is; a run has a directory to save to; calls end unless a run does not |
| Editable harnesses (`R/editable_fun.R`) | two more harnesses and Makefiles in the same directory | `deepstate_editable_fun`, `deepstate_compile_generate_fun`, `deepstate_compile_checks_fun` | they can be compiled; the function that is named is the one that runs |
| libdeepstate build (`R/make_run.R`) | two archives below `~` | `deepstate_make_run` | a build that fails must not be mistaken for one that worked |
| The package's exports (`R/package_details.R`) | none | reads `RcppExports.cpp` with regular expressions | lists what the version of the file says |
| Analysis (`R/analyze_binary.R`, `R/analyze_binary_one.R`) | saved test cases, log directories, the files of `<f>/inputs` | `deepstate_harness_analyze_pkg`, `deepstate_analyze_fun`, `deepstate_analyze_file`, `deepstate_fuzz_fun_analyze` | a row stands for a run that happened, with the inputs of that run; no function is left out |
| Valgrind log reader (`R/xml_log.R`) | none | `deepstate_read_valgrind_xml` | each error with a frame in the package gives a row |
| Test runner (`inst/include/DeepState.h`) | marks of the current run, number of failed tests, child processes, saved test cases | `DeepState_Run` and its modes | the number returned is the number of runs that failed; a test case is saved under its true suffix |
| Tests and their statements (`DeepState.hpp`, `Stream.hpp`, `Log.h`) | the Streams alive, a log buffer for each level, the fixture | `TEST`, `TEST_F`, `ASSERT`, `CHECK`, `ASSUME`, `LOG`, the comparisons | a failure is never lost, and never another test's; text left in a buffer is a cut test's |
| Range of a draw (`inst/include/DeepState.h`) | none | `DeepState_<T>InRange` | a value within the bounds whatever the input and the width of the type |
| Draws of a test (`DeepState.hpp`, `Klee.h`) | none | `OneOf`, `Pump`, `...CStrUpToLen`, `klee_choose`, symbolic arrays and containers | every option is drawn, and nothing else |
| Generators (`inst/include/RcppDeepState.h`) | the vector that is filled | `RcppDeepState_NumericVector` and the others | every element is drawn, nothing is written outside |
| CI setup, file names (`R/ci_setup.R`, `R/files_names.R`) | none | write one file; look up and print names | |
| Formatted streams, options, compiler macros (`Stream.h`, `Option.h`, `Compiler.h`) | none here | declarations | |
| libdeepstate | current run, input buffer | `DeepState_Begin`, `DeepState_BeginDrFuzz`, `DeepState_Abandon`, ... | external |

### How they interact

Everything goes through files. `deepstate_pkg_create` writes harnesses and Makefiles;
`deepstate_compile_fun` runs `make` on them; `deepstate_fuzz_fun` runs the executable, which saves
test cases in `<f>_output`; the analysis lists that directory, runs the executable on each entry with
`--input_test_file`, and reads what the run left: `<f>/inputs/*`, `log_<x>/valgrind_log` and
`valgrind_log_text`. In the executable, `DeepState_Run` runs the body of the harness, which draws its
arguments from the generators, saves them, and calls the tested function. A child process answers its
parent by exit status only. Statements of the body talk to the library through text: a `Stream` writes to the
buffer of its level, and logging what is in the buffer of a fatal error is what fails the test.

### What is hard about it

* R is single threaded and holds nothing between calls, but every call may `stop()`, or be killed,
  between any two of its writes, of which some belong together (a Makefile and its rules, the files of a
  directory that is cleaned); the next one decides from *which files exist* what has been done.
* Three harnesses share one directory, one Makefile and one `rm -f *.o`.
* Users edit the tree, the sources, the shared object and the dependencies between calls.
* One `inputs` directory per function is overwritten by every run; logs live among the saved test cases.
* Whether a run happened is told from an exit code and a line of output.
* The runner has processes, `longjmp`, exceptions, signals and an exit status of a byte, and a result
  that is an enumeration.
* A failing statement leaves the body by `longjmp`, past destructors and `TearDown`, and an exception past
  `TearDown`; log buffers belong to levels, not to statements, and outlive the test.
* The tested function is run without a time limit, and fuzzing is there to break it.
* The log of valgrind is written by each process of a run, and its stacks are told apart by their order.
* Sizes and negations that overflow, indices of empty vectors, arguments larger than what there is.

`PROJECT.json` lists these, each at its line, with the properties that look for it.

## 2. The modules

| Module | Models | Module for TLC | Proofs |
|---|---|---|---|
| `HarnessFiles` | what the calls promise about harness files: abstract | in `MCHarnessBuild` | `HarnessBuild_proofs` |
| `HarnessTree` | what the build does to directories, objects and executables: abstract | in `MCHarnessBuild`, `MCAnalysis` | `HarnessBuild_proofs` |
| `HarnessBuild` (implements both) | creation, compilation, fuzzing, editable harnesses, libdeepstate build | `MCHarnessBuild` | `HarnessBuild_proofs` |
| `Analysis` (takes the build's steps from `HarnessTree`) | the four analysis functions, and the rest of the package between two calls of them | `MCAnalysis` | `Analysis_proofs` |
| `LogReader` | `deepstate_read_valgrind_xml` | `MCAnalysis` | `LogReader_proofs` |
| `TestRunner` | `DeepState_Run` | `MCTestRunner` | `TestRunner_proofs` |
| `TestBody` (extends `Comparison`) | a test and its statements | `MCTestBody` | `TestBody_proofs` |
| `Comparison` | `Comparer` and what it is made of | `MCTestBody` | `TestBody_proofs` |
| `SymbolicRange` | `DEEPSTATE_MAKE_SYMBOLIC_RANGE` | `MCGenerators` | `SymbolicRange_proofs` |
| `Draws` (extends `SymbolicRange`) | what a test draws besides plain values | `MCGenerators` | `Draws_proofs` |
| `Generators` (extends `SymbolicRange`) | the generators | `MCGenerators` | `Generators_proofs` |

### HarnessBuild

The first group of variables is what outlives a call: `srcVer`, `rcpp` and `so` are the versions of the
package's sources, of `RcppExports.cpp` and of the shared object; `deps` and `lib` say whether the
package can be built and libdeepstate is there; `dir`, `cpp`, `make`, `obj`, `exe` and `out` are the
tree. A harness is its `Text`: absent, `"empty"` (the file exists and nothing is in it),
`"generated"`, or a text of the user's. An object file or executable is the text it was compiled
from, which is what makes staleness visible. The second group is the call: `pc`, the call's own
arguments, and its loops.

`make[f][s]` is whose `Rules` a Makefile has: a Makefile is copied, emptied and written, and one copied from another
is one for the wrong harness until it is. An action is one change of a file, or a stretch of code
without any:

* `deepstate_pkg_create` is `PkgCreate`, `NextDir`, `CleanFile` (one file of a directory, in the order of
  `list.files`, given by `Rank`), `DirCleaned`, `MakeRun`, `CompileAttributes`, `NextFun` and `PkgCreated`;
* `deepstate_fun_create` is `CreateStops`, `CreateExisting`, `CreateUnsupported`, `CreateDir`, `CreateNew`,
  for an editable harness `CopyMakefile`, `NewSepMakefile`, `WriteSepMakefile`, `RemoveMakefile` and
  `MakeSepOutput`, and then `WriteHarness`; `FunReturn` is its return to whichever function called it;
* `deepstate_create_makefile` is `BuildShared`, `MakeOutput`, `NewMakefile` and `WriteMakefile`;
* `NextFuzz` and `CompileRunReturns` belong to `deepstate_harness_compile_run`, `Fuzz` and `Run` to
  `deepstate_fuzz_fun`, `CompileStops` and `Compile` to `deepstate_compile_fun`, `CompileSep` to the two functions of
  `editable_fun.R`.

`Killed` happens between any two of them; the variables of the call go with it, the files stay. Still one step
each are the writing of one file's text, and what the code starts and waits for: the build of libdeepstate,
`compileAttributes`, the installation of the package, and `make`, whose `Builds` is a choice over outcomes,
those of its own end half way among them: the compiler fails, the linker fails with or without removing the
old executable, or both succeed, the last only if `Links`. `Compile` follows the rules of the Makefile there
is, also where they are of another harness or none. The user's events happen only between two calls. Loops
take functions in any order.

`torn` is no variable of the program. A kill between two changes that belong together (`HalfWay`) leaves a directory that
some properties cannot hold of; `torn` remembers which, until a cleanup is through it, and `Intact` says it is not one.

Two abstract specifications say what all this amounts to. `HarnessFiles` knows the text of each harness,
whether a call runs, and the one harness it has made and not written: a call writes only where there was
nothing, and only the cleanup removes, file after file and never a default harness. The refinement mapping
takes `cpp` as it is, `pc` to a mode, and the program points between `file.create` and the text to `making`.
`HarnessTree` knows which directories, objects and executables of default harnesses exist; the mapping forgets
what they were compiled from.

### Analysis

Functions and directory entries are numbers in the order `Sys.glob` lists them. `entries[f]` is the output
directory: saved test cases, and the log directories that analyses make among them. `inputs[f]` is who wrote
the files in `<f>/inputs`. A row of `table` keeps the file, the writer of the inputs shown and what the run
really came to (`started`, `read`, `called`, `zero` exit), which the code cannot see and the properties
compare with. `Outcomes` is what `DeepState_RunSingleSavedTestCase` can come to for an entry. `Create` and
`CompileFun` are the steps of `HarnessTree`, to which they add what the cleanup does to `entries`, `inputs`
and `logs`: `Analysis` and `HarnessBuild` meet there, the one built on it and the other shown to implement it.
`dotted` says whether the package's name has dots, with which its tests are not found. A run is `whole` if
what it left can be read: the log by `LogReader`, and the inputs by `qread` and `scan`. `CutShort` is a
cleanup that was killed part way.

### LogReader

A log has errors, an error the stack of where it happened and remarks on an address, each perhaps with a stack. Of a
stack it only matters whether its first frame in the package is known by directory, by file, or missing. `Rows` is
the table: which stacks give a line (`ErrorStacks`), which one is the address's (`Trace`), and how frames are looked
for (`By`). Whether there are too few or too many closing tags is `WellFormed`.

### TestRunner

`pc` is where `DeepState_Run` is; `failure` and `abandoned` are the marks of the current run; `failed` is
`num_failed_tests`. The body of a test may fail softly and go on, and may return, fail, be abandoned, throw,
crash or exit with any status. `bad`, `lost` and `unseen` are history variables: how many runs really did not
pass, and how many of those the runner has no way to, or chooses not to, count. `ForkedRun`, `NotForked` and
`NoForkRun` are the three ways of `DeepState_ForkAndRunTest`: a child that runs the test, a child there is
none of, which leaves the marks `DeepState_Begin` has cleared, and no child at all. Of `--abort_on_fail` the
code looks at whether it was given in one place and at its value in others: `abort_given` and `abort`.
`Caught` is the branches after `setjmp` in `DeepState_RunTest` and `DeepState_RunTestNoFork`. `ReapAny` is
`waitpid` with -1, which is what it gets from a `fork()` that failed, too: it may take a child of Dr. Fuzz.

### TestBody and Comparison

`open` is the stack of Streams alive, since an operand of `<<` may call a function that has statements of its
own; `buffer` is the levels whose buffer holds text. `Construct`, `Operand` and `Destroy` are the class
`Stream`. `Condition`, `Equality`, `AssumeTrue`, `AssumeFalse`, `CAssert`, `CCheck`, `Pass` and `Exit` are the
statements, `LongJump` the way out. `Throw` begins an exception: while `unwinding`, only destructors run,
until the test catches it (`Handled`) or the runner does (`Uncaught`). `deserved` is what the verdict should
be, and `stale` what an earlier test left. `Equality` takes its condition from `Comparison`, where a type is a
sign and a width and `Expanded` is the comparison byte by byte, and compares it with `Holds`, what C says of
the operands.

### Draws

A call is described by the set of values it may return, over all inputs, or over the runs a symbolic executor splits
it into. `Pump` removes the least value in each round.

### SymbolicRange and Generators

A type of `w` bits is `Half = 2^(w-1)`, its arithmetic wraps. `InRange` and `UInRange` are the macro
step by step: swap, equal bounds, a value that fits is kept, another is made non-negative (twice,
because the smallest value is its own negation) and reduced by the size of the range. `Generators`
follows one call of one generator: `DrawSize`, `Branch` (`OneOf`), `Fill`, and `Inject`, which overwrites
elements at drawn indices. An element is known by where its value comes from. Indices come from `InRange`.

## 3. What is checked

Each property has a mutant in `PROJECT.json`: a variant of one definition, standing in the module with
the comment `Mutant:`, under which TLC finds the property violated in the same run.

| Run | Question | Properties | Distinct states |
|---|---|---|---|
| `Build` | whole-package calls, with a user who edits, provides, changes sources, dependencies and shared object, and a session killed in any step | `IInv`, `CreatedUsable`, `ReportedIsCurrent`, `ReportedHasFunction`, `FilesKept`, `TreeKept` | 576,000 |
| `Editable` | three harnesses of a function around one Makefile, created, compiled, fuzzed and run in any order of calls, killed in any step | `IInv`, `OutputBeforeRun`, `CallEnds` | 652,000 |
| `Single` | single creations between whole-package ones, a function that is not exported any more, a cleanup that deletes in any order, a user who edits and deletes harnesses, killed in any step | `GeneratedHasMakefile`, `DefaultHarnessKept`, `FilesKept` | 2,685,000 |
| `Generate` | every generator, every size up to the bounds, every input to the draws of sizes and indices; every range and input of a four-bit type; every choice and length | `IInv`, `WritesInside`, `AllDrawn`, `FewOutOfRange`, `InBounds`, `AllReached` | 20,000 |
| `Analyze` | one function with two test cases, all calls, all outcomes of a run, name with or without dots, killed in any step, partly cleaned | `IInv`, `RowsWereRun`, `InputsOfCalled`, `StopsUnread` | 4,665,000 |
| `AnalyzePkg` | the loop over two functions, or over one with up to four test cases, `testfiles` and `max_inputs` not given, at and above what there is; every small log | `FunctionsComplete`, `CallEnds`, `ErrorsKept`, `LinesOfErrors` | 2,841,000 |
| `Runner` | every mode and option of the runner | `IInv`, `CountTrue`, `CountTrueButLost`, `StopsAtFirst`, `KeptTrue`, `RunnerEnds` | 117,000 |
| `Body` | three tests with up to four statements each, nested, with exceptions, with and without fork | `IInv`, `FailureKept`, `NoFalseFailure`, `CleanBuffers` | 25,000 |

`IInv` is the inductive invariant of a module, of which its type invariant is a part; checking it is what
found it before it was proved. `FilesKept` and `TreeKept` are the refinements: `HarnessBuild` implements
`HarnessFiles` and `HarnessTree`. All eight pass. Some of what they show is weaker than one might expect, and
the exceptions are part of the statement:

* `ReportedIsCurrent` leaves out `kept`, the directories the cleanup passed over because their
  default harness was gone.
* `GeneratedHasMakefile` and `OutputBeforeRun` leave out the directories in `torn`. A cleanup deletes
  Makefiles before some harnesses, and an editable harness gets its output directory last: a call killed in
  between leaves one that cannot be compiled, or one that is compiled and run without a directory. TLC finds
  either property violated when `torn` is taken out of it.
* `AllDrawn` leaves out the last element of a numeric vector with missing values, which may stay R's 0;
  `FewOutOfRange` counts it among those that may be out of the bounds.
* `CountTrue` counts apart the runs without a child or that leave with status 0 after a failure
  (`unseen`), `CountTrueButLost` also those abandoned (`lost`).
* `RowsWereRun` excepts the rows of a package whose tests are not found under the name that is passed: one
  with dots in its name.
* `FailureKept` excepts a test that is ended inside a failing statement, by an assumption, `DeepState_Abandon` or
  `DeepState_Pass`, and one that ends its process.
* `NoFalseFailure` lets a test fail for what an earlier one left in a buffer, without fork; `CleanBuffers`
  says that only a test that was cut short leaves anything.
* `AllReached` states what the macros of a named swarm do.
* `LinesOfErrors` excepts errors with two remarks on an address, `ErrorsKept` frames known by file in a log that
  names the directory elsewhere.
* `FunctionsComplete` says three at least, or all there are, where as many as asked for are not there or no number is
  given. The comment at `R/analyze_binary.R:3` promises all then (section 5); the run has four test cases, so
  that three are not all. Where log directories count as entries, a number asked for may bring more.
* `StopsUnread` lets a run stop a call whose log or whose inputs cannot be read.
* `CallEnds` lets a call wait for a run of a harness for good.

Four runs find what a document or comment says and the code does not do (section 5):
`EmptyHarness`, `WrongFunction`, `AnalyzeAgain`, `EmptyVector`.

Deadlock is checked in `HarnessBuild` and `Analysis`: a session can always be called again.
It is off for the runner, the tests and the generators, which end.

`MCAnalysis` and `MCGenerators` are sums: a behaviour is of one of their two parts, which share no variable.

### Bounds, and why they are enough

* `HarnessBuild`: two functions (one to be worked on, one whose files must not be disturbed; one supported or
  exported and one not), three harnesses each. `MaxVer = 2`: code depends on versions only by which functions
  they export: in `Build` the first exports both, the second drops `f`. One text of the user's: texts are only
  compared for equality, and the comparisons are with `"empty"`, `"generated"` and older content. `Editable`
  and `Single` have one function: functions share nothing there but `so` and `lib`. In `Editable` the user
  edits nothing: edited default harnesses are compiled in `Build`, and edited ones of all kinds go through
  every creation and cleanup in `Single`. `Rank` is the order of the C locale, where `Makefile` comes first,
  and in `Single` any order.
* `Analysis`: two test cases in `Analyze`, with `max_inputs` 0 (not given), 1 and 3, and up to four in
  `AnalyzePkg`, with 0 and 4: below, at and above the three the code falls back to. There the second function
  has one at most, and the first no more when the second is there (`Small`): the outer loop does not look into
  the rows. Test cases, log directories of them, log directories of log directories: `Entry` has these three
  levels, and an analysis of the third would make a fourth; its name sorts after all others, and no analysis
  gets past the first directory it tries to read (`read` is false for it and the call stops), so levels beyond
  are not reached by the loop; `\cap Entry` cuts them off.
* `TestRunner`: two tests, so that a mark can be left by one for the other; three files, so that a
  loop has a first, an inner and a last one. Exit statuses 0, 2 and 300: a pass, the runner's own
  code for a crash, and one that is another number as a byte.
* `SymbolicRange`: four bits have all the cases of wider types (ranges that do not fit,
  the smallest value); the theorems hold for every width.
* `LogReader`: up to two errors, so that one decides how the frames of the other are looked for; the first with up to
  two remarks, so that the last stack is or is not the first remark's. Up to three closing tags.
* `TestBody`: three tests, so that one leaves a buffer, one finds it and one comes after; four statements, of
  which two nest: the code looks at one level of nesting only, as a buffer either holds text or does not. Bytes of
  two bits, an `int` of two bytes and types of one to three give every order of widths and signs.
* `Draws`: options and lengths up to four; maps of a swarm from any number of choices to any.
* `Generators`: vectors up to 7 for the code's 100, two more than the five rounds that overwrite elements and
  the one that is not assigned, and matrices up to 2 by 2 for 10 by 10, with `Half = 8`. The theorems hold for
  every `MaxSize`, `MaxDim` below `Half`.

### Fairness

`FairSpec` of `HarnessBuild` and of `Analysis` is `WF_vars(Advance)`: the running call takes its next step,
unless that is to wait for a run of a harness (`Run`, `RunFile`, `RunFuzzer`). R does not wait for the user in
any of the calls modelled, and the compiler ends. A run of a harness need not: the analysis starts it with
`system()` and no time limit (`R/analyze_binary_one.R:97`) on a tested function that may loop, and `--timeout`
of a fuzzing run is looked at between two runs of the test only. So `CallEnds` says that a call ends or waits
in a run for good, and the same specification without the first alternative is refuted. `CallEnds` has no
fairness for the user's calls and events, and none for `Killed`.

`FairSpec` of `TestRunner` is `WF_vars(Runner) /\ WF_vars(DrFuzzEnds)`: the runner takes its next step where it is
not waiting, and a process of Dr. Fuzz ends, as does every test. `RunnerEnds` then says that no `waitpid` waits for a
child that was never started or was already waited for.

## 4. What is proved

`tlapm` checks the following for every value of the constants that satisfies the modules' `ASSUME`s. No proof
assumes the sets of functions, texts, tests, files, operands or calls to be small. Every safety and action property of the
passing runs is stated by a theorem, and so are both refinements; the theorems that state them are listed in
`PROJECT.json`. The shape is the same throughout: `Invariance` is `Spec => []IInv`, from lemmas of one action or group of
actions each; the properties are conjuncts of `IInv` or follow from it. What `IInv` adds to the properties, and why:

**HarnessBuild** (`Supported` is a set of functions, `GlobalFun` a function or
`NoFun`, `Exports` gives a set of functions for each version, the user's texts are none of
`"none"`, `"empty"`, `"generated"`).

* `TreeInv`: a function without a directory has no files. Where nothing was cut short (`Intact`) a Makefile
  has the rules of its harness, but while it is made (`BeingMade`), and what has a Makefile or was compiled
  has its output directory. Without it `OutputBeforeRun` fails on an object file that an earlier call left.
* `CreateInv`: where `deepstate_fun_create` is, its harness file exists, is empty until it is written, and the
  right Makefile is there when it is, at each of the steps that make it. That makes `GeneratedHasMakefile`
  hold when the text appears, and `HarnessSurvives`, the action property `DefaultHarnessKept`, when a harness
  is written over: what is overwritten is empty.
* `WholeInv`: in a call that goes through the cleanup, nothing is compiled in a cleaned directory
  until fuzzing begins; from then on only from the harness there is, which nothing in that call
  changes; and a function is reported once. That is why `ReportedIsCurrent` holds although
  `deepstate_fuzz_fun` never compares the two.
* `LinkInv`: in the same call an executable made from a generated harness was linked with the shared object that is
  there. It is why `ReportedHasFunction` holds although nothing looks at the age of the shared object: none is
  built once fuzzing has started (`ReportedCallsFunction`).

*Refinement.* `ImplementsFiles` and `ImplementsTree` show `Spec => FilesKept` and `Spec => TreeKept`: initial
states map to initial states, and under `IInv` each action maps to an abstract step or to none. For
`HarnessFiles` the lemmas go by what an action does to the harness files and to the mode: `FilesQuiet`
(neither), `FilesSession` (a call begins, goes from cleanup to work or ends), `FilesUser` (the user writes);
`Make` and `Write` are the two steps of `deepstate_fun_create` at which the file and then its text appear.
`CreateInv` supplies their guards: the file that is made was not there, the one that is written is the one
that was made. For `HarnessTree` one lemma, `TreeStep`, has a case for each action.

**Analysis** (`NBin` and `NFun` positive, the arguments natural numbers; the sets of calls and events those of the code).

* `CallInv`: which steps a call takes follows from what was called, and a call that runs has no result.
* `RunInv`: before a row is made, a run that ended well or read its file was started, left its log and, if its
  test was found, read a saved test case; and if it came to the call, the files in `inputs` are its own. With
  this `RowsWereRun` and `InputsOfCalled` hold of the row that is added, and `StopsUnread` of a call that
  stops.
* `PkgInv`: in `deepstate_harness_analyze_pkg` a function before its turn has no row, and what is wanted of
  the function whose turn it is lies among its rows, the entry at hand and the entries to come (`Sought`).
  `FunctionsComplete` is what is left of it at the end of the turn. `SelectedCovers` proves it of the entries
  the code selects; it rests on `LeastExists`, and on `FirstOfSaved` and `FirstBeyond`: log directories sort
  after the test cases, so the first entries are the first test cases.

**TestRunner** (numbers of tests and files natural, exit codes natural, flags and ends those of the code).
`IInv` adds `ModeInv`: which program points a mode comes to, that only the plain mode has children of Dr.
Fuzz, and that with one file or directory and `--exit_on_fail` or `--abort_on_fail` nothing has been counted.
`ResultTells` is the core: a run is not passed exactly if its result is not `Pass` or it was unseen, and lost
exactly if the result is none of three. `SavedTrue` says the same of suffixes, `RunsTest` lifts both to the
three ways of running a test, so that each mode's loop adds to `failed`, `lost` and `unseen` what it adds to
`bad`.

**TestBody and Comparison** (`Byte` at least 2, an `int` not wider than the widest type, and
`PowerAssumption`: a power of `Byte` is a positive natural number, a fact of arithmetic the provers do not
have). `ComparesAsC`: for all types and operands `Comparer` gives the answer of C. A value of a type is not
changed by conversion to that type (`ConvertOwn`), and the comparison byte by byte always says no
(`ExpandedSaysNo`): from the last byte on, by `NoneAtTheEnd`, each byte that matches is followed by another.
So `deserved` and what a statement logs agree, and `IInv` can say who owns a text:

* `TextOwned`: text in a buffer is of an open statement that logs, or was there when the test began;
  `ForkIsClean`: never in a child.
* `OpenDeserved`: a statement open that fails the test is open in one that deserves it. These give `FailureIsTrue`
  (`NoFalseFailure`): whatever text is logged as an error has such an owner.
* `FailurePending`: while a test that deserves to fail runs, it is marked, or a statement is open whose
  level's buffer holds text or that has said nothing, and so marks it at its end. A statement inside another
  may log and empty the buffer both share, but then it marks the test. This gives `FailureIsKept` at every way
  out of a test: an exception runs the destructors (`Unwinds`), and what it passes last is the runner, which
  marks the test.
* `LeftByCut`: between two tests there is text only if one was cut; `BuffersAreClean` follows.

**SymbolicRange** (`Half` a positive natural number). `SignedInBounds` and `UnsignedInBounds`: the value lies
between the arguments, in either order, for every width. The argument: an input that is outside is reduced by
a size that is not 0 (only the full range has size 0, and it has no outside); if the size fits the type the
remainder is below it; if not it is negative, its absolute value is what C's remainder uses, and the sum wraps
into the range.

**Draws** (`MaxChoice` below `Half`). `RangeInBounds` is the theorem on ranges for the calls. `EachIsReached`:
what a call may return is exactly what was asked for, for any number of options and any width. An index is
drawn up to its bound (`EachIndex`, `EachElement`), and `Pump` splits a run into one of each value
(`EachPumped`): after `k` rounds the indices below `k` are gone (`RoundsLeave`).

**Generators** (`MaxSize` and `MaxDim * MaxDim` below `Half`). `StaysInside` (no write outside a vector that
has elements), `ReturnsDrawn` and `FewAreOutOfRange`. `Progress`, the added part: elements not assigned lie
ahead of the filling loop, and when elements are overwritten at most the last one is left. Indices are in
bounds by `SignedInBounds`. `FewOutOfRange` bounds a cardinality: when the first loop is over the set is empty
or that of the last element (`FilledWithin`), and each round adds at most one (`NextRanged`).

**LogReader** (`MaxAux` natural). `ErrorsAreKept` and `LinesAreOfErrors`, for logs (`AnyLog`) with any number of
errors, each with any number of remarks up to `MaxAux`; `LogsAreLogs` says that those of the runs are among them.

*Recursive definitions.* The theorems that need an induction (`LeastExists` and what rests on it) get it from
the library's `WFMin`, which takes a set and no operator: a least counterexample is picked and refuted. That
is enough for the two functions defined by recursion, `from` in `Expanded` and `left` in `LeftAfter`. Such a
definition is a `CHOOSE`, so each proof first gives a function that satisfies the equation.

*What the proofs found.* The type of the number of files in `TestRunner` left out that a single file is one
also where the constant allows none. `FunctionsComplete` once said exactly how many rows a function has, which
is false after an earlier call left log directories: they are counted as entries, so that a number asked for
that the test cases do not reach is reached by them. `Covers` says what holds instead: the first three, and
what more there may be.

*Only model-checked.* The liveness properties `CallEnds` of `HarnessBuild` and of `Analysis` and `RunnerEnds`
of `TestRunner`: `tlapm` proves nothing about `ENABLED` and fairness. And the four runs of section 5, each of
which is a counterexample.

## 5. What the documents say and the code does not do

Refuted by a run:

* `EmptyHarness`: `deepstate_fun_create` makes the file (`R/fun_harness_create.R:118`) before it makes sure
  of the shared object. When that stops, the next `deepstate_pkg_create` takes the empty file for an
  existing harness and returns its name as one of the "TestHarness files that are generated"
  (`R/pkg_harness_create.R:12`).
* `WrongFunction`: `deepstate_compile_generate_fun` and `deepstate_compile_checks_fun` pass on `fun_name`
  (`R/editable_fun.R:55`), a variable of the session and not their parameter `function_name`.
* `AnalyzeAgain`: the log directories of an analysis are entries of the directory that the next one
  lists (`R/analyze_binary_one.R:30`, `:85`); the harness cannot read one, and the call stops, where `README.md:58` has it
  produce a table. The property leaves out functions that are not there, executables that are missing and runs whose log
  or inputs cannot be read, so that the counterexample is a second analysis.
* `EmptyVector`: with a drawn size of 0, an index is drawn from 0 to -1 (`inst/include/RcppDeepState.h:54`).

Read in the code and visible in the models; no run is kept for them:

* `deepstate_pkg_create` deletes the editable harnesses (`R/pkg_harness_create.R:31`), which the comment
  in the default harness tells the user to edit (`R/fun_harness_create.R:112-115`). `DefaultHarnessKept`
  is about the default one only.
* A session killed inside the cleanup leaves a generated editable harness whose Makefile is gone
  (`R/pkg_harness_create.R:31-32`): it cannot be compiled, and is not made anew, as it exists. One killed before
  `R/fun_harness_create.R:110` leaves a Makefile and an empty editable harness without an output directory, which compiles
  and is run. `torn` names both.
* One directory that cannot be compiled stops `deepstate_harness_compile_run` (`R/pkg_harness_compile.R:29`);
  `README.md:43` promises a list and a warning.
* Creating an editable harness deletes `Makefile` (`R/fun_harness_create.R:108`); the vignette
  (line 71) says that each folder has its makefiles.
* An object file that exists is not compiled again (`R/fun_harness_fuzz.R:42`); in a directory
  that the cleanup passed over, `deepstate_harness_compile_run` runs what is old. `ReportedIsCurrent`
  excepts these.
* With no supported function the code stops (`R/pkg_harness_create.R:97`) where the vignette (line 51) has it
  return their names.
* `max_inputs = "all"`, the default, is three (`R/analyze_binary_one.R:39`); the comments at `R/analyze_binary.R:3-4` and
  `R/analyze_binary_one.R:4-5` say that it is all. `FunctionsComplete` says three, with four test cases in its run.
* A function whose name contains `_output` has another executable looked for (`R/analyze_binary_one.R:81`);
  `OutputNamed` models it, and is empty in the runs.
* A run that does not come to the call shows the inputs of the run before (`R/analyze_binary_one.R:108`);
  `InputsOfCalled` is about runs that do. Fuzzing alone saves no inputs (`R/fun_harness_fuzz.R:52`),
  other than the vignette says (line 109).
* A test name that is not in the harness returns 0 (`inst/include/DeepState.h:882`), and gives a row
  without a run; `NameFound` models it, and is true in the runs. The package's name loses its dots in the test's
  name (`R/fun_harness_create.R:126`) and not where the harness is run
  (`R/fun_harness_fuzz.R:52`, `R/analyze_binary_one.R:91`): fuzzing and the analysis of saved test cases then run
  nothing, and the table has rows of runs that were not. `dotted` models it.
* Abandoned tests are not counted with one file or directory (`inst/include/DeepState.h:892`, `:965`); a
  `fork()` that fails counts as a pass (`:697`); tests named `Boring` run and count twice with
  `--boring_only` (`:1042-1051` and `:1075-1078`); one `waitpid` (`:1083`) does not wait for all
  children, as its comment says.
* The first of `missing_values` is not within the bounds (`inst/include/RcppDeepState.h:63`), nor need be the
  last element of the numeric vector, which no loop assigns (`:72`), other than the comment "inclusive range"
  at `:61` says; `FewOutOfRange` bounds how many such elements there are.
* `DeepState_PureSwarmCStrUpToLen` and the macros like it expand to the functions without `UpToLen`
  (`inst/include/DeepState.hpp:563-565`, `:571-573`), whose strings all have the full length; the comments at `:628`
  and `:652` say that possible sizes are pumped through.
* A string or vector made of a length is symbolized up to the address of its last element
  (`inst/include/DeepState.hpp:162`), which `DeepState_SymbolizeData` excludes (`inst/include/DeepState.h:208`);
  one made of nothing not at all (`:168`). These blocks are not modelled.
* `TearDown` does not run when a test is left by `longjmp` or an exception (`inst/include/DeepState.hpp:690`):
  what a fixture would give back there stays taken.
* `klee_choose` with too large a number exits with status 0 (`inst/include/Klee.h:60`): a failed CHECK before it is lost.
* The message on an address is the first remark's and the trace the last stack's (`R/xml_log.R:44`, `:49`): with two
  remarks, as in a use after free, they are of different remarks, and the first one's stack gives a row of
  its own, as if the error had happened there.
* A log with three or more closing tags loses one of them (`R/xml_log.R:12-13`) and cannot be read.

## 6. What is not modelled

* CI setup, names of datatypes and files: stateless, or a single write.
* `R/package_details.R` as text processing; `Exports` stands for what it reads.
* The text of harnesses and Makefiles, beyond the order in which a generated harness saves its
  inputs and calls the function (`Dumped`).
* `--fuzz` and `--list_tests` of the runner; formatted streams, options and compiler macros; arithmetic on
  `Symbolic<T>`, the blocks it symbolizes and floating point draws; libdeepstate, but for what the headers use of it.
* Sizes of `size_t` that `unsigned` does not hold (`UpToLen`): `MaxChoice` is below `Half`.
* Kills inside the compiler, the linker and the installation of the package, beyond the outcomes `Builds` has.
* The texts of valgrind's messages, and that equal rows are one.
* The analysis that `deepstate_compile_generate_fun` and `deepstate_compile_checks_fun` end with.
* Two R sessions on the same package at the same time.
* Shared objects after linking: which version of a function a run meets is decided when it is loaded.

## 7. Plan

Done, in this order: `HarnessBuild` with its invariant and proofs; `SymbolicRange` and `Generators` with
proofs; `Analysis`; `TestRunner`; `HarnessFiles` and `HarnessTree`, with `HarnessBuild` implementing and `Analysis`
using them; `TestBody`, `Comparison`, `Draws` and `LogReader`; liveness of the runner.

Then the proofs: the refinements of `HarnessBuild`; the invariants of `TestRunner`, `Analysis`, `TestBody`,
`Draws` and `LogReader`.

To do:

1. An abstract `TestRunner` (each run has a result, the count is their sum), with `TestRunner` as an
   implementation where nothing is lost or unseen, checked and proved.
2. That the steps of `Analysis` on the tree are those of `HarnessTree`, as a theorem, so that the two
   modules meet in a proof as they do in the model.
3. The safety half of termination: measures that each step of a call lowers, so that fairness is all that
   `CallEnds` still takes on trust.
4. The analysis of editable harnesses.
