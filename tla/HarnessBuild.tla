---------------------------- MODULE HarnessBuild ----------------------------
(***************************************************************************)
(* The build side of RcppDeepState: one R session that creates, compiles   *)
(* and runs the test harnesses kept in <package>/inst/testfiles.           *)
(*                                                                         *)
(* The state is what outlives a call (the files below inst/testfiles, the  *)
(* package's sources, RcppExports.cpp and shared object, libdeepstate) and *)
(* the control state of the call that runs.  R is single threaded: at most *)
(* one call is under way.  What makes the system hard is the file tree:    *)
(* every call stops (R's stop()) or is killed between two of its steps,    *)
(* leaves the tree as it is, and the next call decides what to do from     *)
(* which files exist.                                                      *)
(*                                                                         *)
(* A loop over functions takes them in any order: list.files, Sys.glob and *)
(* unique(funName) each have an order of their own.                        *)
(***************************************************************************)
EXTENDS Naturals

CONSTANTS
    Fun,        \* names of functions of the tested package
    Supported,  \* those all of whose parameter types are in types_table
    MaxVer,     \* number of versions the package's sources go through
    Exports,    \* Exports[v]: functions (with parameters) version v exports
    Others,     \* versions that export functions without parameters as well
    Edits,      \* texts a user writes into a harness file
    GlobalFun,  \* what the R variable fun_name holds in the user's session
    NoFun,      \* GlobalFun when there is no such variable
    Rank,       \* Rank[<<kind, s>>]: where list.files() has a file of a directory
    Calls,      \* the package's functions that the user calls
    Events      \* what the user does between two calls

Ver == 1..MaxVer

ASSUME FunAssumption == /\ Supported \subseteq Fun
                        /\ NoFun \notin Fun
                        /\ GlobalFun \in Fun \cup {NoFun}
ASSUME VerAssumption == /\ MaxVer \in Nat \ {0}
                        /\ Exports \in [Ver -> SUBSET Fun]
                        /\ Others \subseteq Ver
ASSUME EditsAssumption == Edits \cap {"none", "empty", "generated"} = {}

\* The three harnesses of a function: <f>_DeepState_TestHarness.cpp and the
\* editable ones, with the suffixes _generation and _checks.
Sep == {"infun", "generation", "checks"}

\* What a directory holds of each: source, Makefile, object file, executable and
\* output directory.
Kind == {"cpp", "make", "obj", "exe", "out"}

ASSUME RankAssumption == Rank \in [Kind \X Sep -> Nat]

\* Content of a harness file, and of what is compiled from it; "none" is a
\* file that does not exist and "empty" one that file.create() just made.
Text == {"none", "empty", "generated"} \cup Edits

\* Content of a Makefile: the rules for one of the three harnesses.
Rules == {"none", "empty"} \cup Sep

VARIABLES
    srcVer,     \* version of the sources in <package>/src
    rcpp,       \* version RcppExports.cpp was generated from, 0 if missing
    so,         \* version src/*.so was built from, 0 if missing
    deps,       \* the dependencies that building the package needs are there
    lib,        \* libdeepstate.a and libdeepstate32.a exist
    dir,        \* functions that have a directory in inst/testfiles
    cpp,        \* cpp[f][s]: text of the harness
    make,       \* make[f][s]: rules in Makefile, <s>.Makefile
    obj,        \* obj[f][s]: text the .o file was compiled from
    exe,        \* exe[f][s]: text the executable was linked from
    out         \* out[f]: the harnesses whose _output directory exists

VARIABLES
    pc,         \* where the running call is, "idle" between two calls
    top,        \* the function the user called
    asked,      \* the function_name the user passed, where there is one
    cur, sep,   \* function and harness being worked on
    after,      \* where deepstate_create_makefile returns to
    limit,      \* time.limit.seconds > 0
    todo,       \* functions the running loop has still to visit
    kept,       \* directories the cleanup left as they were
    created,    \* functions deepstate_pkg_create counts as created
    reported,   \* compiled.code of deepstate_harness_compile_run
    result      \* how the last call ended

\* No variable of the program: what the properties tell apart by it is only how
\* a directory came to be as it is.
VARIABLE
    torn        \* functions in whose directory a call was killed between two
                \* changes that belong together, until a cleanup is through it

pkgVars  == <<srcVer, rcpp, so, deps, lib>>
treeVars == <<dir, cpp, make, obj, exe, out>>
argVars  == <<top, asked, limit>>
loopVars == <<todo, kept, created, reported>>
vars == <<pkgVars, treeVars, pc, argVars, cur, sep, after, loopVars, result, torn>>

PC == {"idle", "clean", "cleandir", "library", "loop", "create", "makefile",
       "newmake", "rules", "sepfile", "sepnew", "seprules", "sepmove", "sepout",
       "write", "fuzzloop", "fuzz", "compile", "run"}

Top == {"none", "pkg_create", "compile_run", "fun_create", "editable",
        "compile_fun", "fuzz_fun", "compile_generate", "compile_checks"}

\* Calls that go through deepstate_pkg_create.
Whole == {"pkg_create", "compile_run"}

TypeOK ==
    /\ srcVer \in Ver
    /\ rcpp \in 0..MaxVer
    /\ so \in 0..MaxVer
    /\ deps \in BOOLEAN
    /\ lib \in BOOLEAN
    /\ dir \subseteq Fun
    /\ cpp \in [Fun -> [Sep -> Text]]
    /\ make \in [Fun -> [Sep -> Rules]]
    /\ obj \in [Fun -> [Sep -> Text]]
    /\ exe \in [Fun -> [Sep -> Text]]
    /\ out \in [Fun -> SUBSET Sep]
    /\ pc \in PC
    /\ top \in Top
    /\ asked \in Fun
    /\ cur \in Fun
    /\ sep \in Sep
    /\ after \in {"return", "sepnew", "write"}
    /\ limit \in BOOLEAN
    /\ todo \subseteq Fun
    /\ kept \subseteq Fun
    /\ created \subseteq Fun
    /\ reported \subseteq Fun
    /\ result \in {"none", "value", "na", "stop", "killed"}
    /\ torn \subseteq Fun

-----------------------------------------------------------------------------
(***************************************************************************)
(* A package as it comes from its repository: sources, perhaps with        *)
(* RcppExports.cpp committed, no build product and no test tree.           *)
(***************************************************************************)
Init ==
    /\ srcVer = 1 /\ rcpp \in {0, 1} /\ so = 0
    /\ deps \in BOOLEAN /\ lib \in BOOLEAN
    /\ dir = {}
    /\ cpp = [f \in Fun |-> [s \in Sep |-> "none"]]
    /\ make = cpp /\ obj = cpp /\ exe = cpp
    /\ out = [f \in Fun |-> {}]
    /\ pc = "idle" /\ top = "none" /\ result = "none"
    /\ asked \in Fun /\ cur = asked /\ sep = "infun"
    /\ after = "return" /\ limit = TRUE
    /\ todo = {} /\ kept = {} /\ created = {} /\ reported = {}
    /\ torn = {}

\* The call ends with a value, an NA or an R error; no file changes.
End(r) == pc' = "idle" /\ result' = r

\* The user calls t, which starts at p on the harness s of f, or stops at once
\* because of its arguments (p = "idle").
Call(t, p, f, s) ==
    /\ pc = "idle" /\ t \in Calls
    /\ pc' = p /\ top' = t /\ asked' = f /\ sep' = s
    /\ result' = (IF p = "idle" THEN "stop" ELSE "none")
    /\ kept' = {} /\ created' = {} /\ reported' = {}
    /\ UNCHANGED <<pkgVars, treeVars, after, torn>>

\* The call works on f itself, on no list of functions.
Single(f, positive) == cur' = f /\ limit' = positive /\ todo' = {}

-----------------------------------------------------------------------------
(* deepstate_pkg_create: clean the tree, build libdeepstate, create.       *)

PkgCreate(t, f) ==
    /\ t \in Whole
    /\ Call(t, "clean", f, "infun")
    /\ todo' = dir
    /\ cur' = f /\ limit' = TRUE

\* The next directory: it is cleaned if it has a default harness.
NextDir(f) ==
    /\ pc = "clean" /\ f \in todo
    /\ todo' = todo \ {f}
    /\ IF cpp[f]["infun"] # "none"
       THEN pc' = "cleandir" /\ cur' = f /\ UNCHANGED kept
       ELSE kept' = kept \cup {f} /\ UNCHANGED <<pc, cur>>
    /\ UNCHANGED <<pkgVars, treeVars, argVars, sep, after, created, reported,
                   result, torn>>

\* Mutant: the files a build makes are left out of what is deleted.
DoomedButBinaries(f, kind, s) ==
    \/ kind = "cpp" /\ s # "infun" /\ cpp[f][s] # "none"
    \/ kind = "make" /\ make[f][s] # "none"
    \/ kind = "out" /\ s \in out[f]

\* Mutant: every harness is spared, not only the default one.
DoomedButSources(f, kind, s) ==
    \/ kind = "make" /\ make[f][s] # "none"
    \/ kind = "obj" /\ obj[f][s] # "none"
    \/ kind = "exe" /\ exe[f][s] # "none"
    \/ kind = "out" /\ s \in out[f]

\* Mutant: the default harness is not taken out of what is deleted.
DoomedAll(f, kind, s) ==
    \/ kind = "cpp" /\ cpp[f][s] # "none"
    \/ kind = "make" /\ make[f][s] # "none"
    \/ kind = "obj" /\ obj[f][s] # "none"
    \/ kind = "exe" /\ exe[f][s] # "none"
    \/ kind = "out" /\ s \in out[f]

\* What is to be deleted from the directory of f: all but the default harness.
Doomed(f, kind, s) ==
    \/ kind = "cpp" /\ s # "infun" /\ cpp[f][s] # "none"
    \/ kind = "make" /\ make[f][s] # "none"
    \/ kind = "obj" /\ obj[f][s] # "none"
    \/ kind = "exe" /\ exe[f][s] # "none"
    \/ kind = "out" /\ s \in out[f]

\* unlink() deletes one file after the other, in the order list.files() has them
\* in, which is that of their names in the session's locale.
CleanFile(kind, s) ==
    /\ pc = "cleandir" /\ Doomed(cur, kind, s)
    /\ \A k \in Kind, x \in Sep : Doomed(cur, k, x) => Rank[<<kind, s>>] <= Rank[<<k, x>>]
    /\ cpp' = (IF kind = "cpp" THEN [cpp EXCEPT ![cur][s] = "none"] ELSE cpp)
    /\ make' = (IF kind = "make" THEN [make EXCEPT ![cur][s] = "none"] ELSE make)
    /\ obj' = (IF kind = "obj" THEN [obj EXCEPT ![cur][s] = "none"] ELSE obj)
    /\ exe' = (IF kind = "exe" THEN [exe EXCEPT ![cur][s] = "none"] ELSE exe)
    /\ out' = (IF kind = "out" THEN [out EXCEPT ![cur] = @ \ {s}] ELSE out)
    /\ UNCHANGED <<pkgVars, dir, pc, argVars, cur, sep, after, loopVars, result, torn>>

DirCleaned ==
    /\ pc = "cleandir" /\ \A kind \in Kind, s \in Sep : ~Doomed(cur, kind, s)
    /\ pc' = "clean" /\ torn' = torn \ {cur}
    /\ UNCHANGED <<pkgVars, treeVars, argVars, cur, sep, after, loopVars, result>>

\* deepstate_make_run: wget, unzip, cmake and make, none of whose exit
\* statuses is looked at, so the library may still be missing afterwards.
MakeRun ==
    /\ pc = "clean" /\ todo = {}
    /\ pc' = "library"
    /\ lib' \in (IF lib THEN {TRUE} ELSE BOOLEAN)
    /\ UNCHANGED <<srcVer, rcpp, so, deps, treeVars, argVars, cur, sep, after,
                   loopVars, result, torn>>

\* Rcpp::compileAttributes, then the list of functions to test.
CompileAttributes ==
    /\ pc = "library"
    /\ rcpp' = srcVer
    /\ todo' = Exports[srcVer]
    /\ IF Exports[srcVer] = {} THEN End("stop")
                               ELSE pc' = "loop" /\ UNCHANGED result
    /\ UNCHANGED <<srcVer, so, deps, lib, treeVars, argVars, cur, sep, after,
                   kept, created, reported, torn>>

NextFun(f) ==
    /\ pc = "loop" /\ f \in todo
    /\ todo' = todo \ {f}
    /\ cur' = f /\ sep' = "infun" /\ pc' = "create"
    /\ UNCHANGED <<pkgVars, treeVars, argVars, after, kept, created, reported,
                   result, torn>>

\* pkg_create returns what it counted, or stops when that is nothing;
\* compile_run goes on with every directory of the tree, created or not.
PkgCreated ==
    /\ pc = "loop" /\ todo = {}
    /\ IF created = {} THEN End("stop") /\ UNCHANGED todo
       ELSE IF top = "pkg_create" THEN End("value") /\ UNCHANGED todo
       ELSE pc' = "fuzzloop" /\ todo' = dir /\ UNCHANGED result
    /\ UNCHANGED <<pkgVars, treeVars, argVars, cur, sep, after, kept, created,
                   reported, torn>>

-----------------------------------------------------------------------------
(* deepstate_fun_create and deepstate_create_makefile.                     *)

FunCreate(f, s) ==
    /\ Call("fun_create", "create", f, s)
    /\ Single(f, TRUE)

EditableFun(f) ==
    /\ Call("editable", "create", f, "generation")
    /\ Single(f, TRUE)

\* deepstate_fun_create returns to its caller; ok: a file name, else NA.
FunReturn(ok) ==
    /\ IF top \in Whole
       THEN /\ pc' = "loop"
            /\ created' = (IF ok THEN created \cup {cur} ELSE created)
            /\ UNCHANGED <<sep, result>>
       ELSE /\ UNCHANGED created
            /\ IF top = "editable" /\ sep = "generation"
               THEN pc' = "create" /\ sep' = "checks" /\ UNCHANGED result
               ELSE End(IF ok THEN "value" ELSE "na") /\ UNCHANGED sep

\* Functions found in RcppExports.cpp.
Listed == IF rcpp = 0 THEN {} ELSE Exports[rcpp]

\* deepstate_get_package_details stops, or the $ on what it returns fails: there
\* is no RcppExports.cpp, or no function in it.
NothingListed == Listed = {} /\ rcpp \notin Others

CreateStops ==
    /\ pc = "create" /\ NothingListed
    /\ End("stop")
    /\ UNCHANGED <<pkgVars, treeVars, argVars, cur, sep, after, loopVars, torn>>

\* Mutant: an existing harness is returned without its Makefile made anew.
CreateExistingReturns ==
    /\ pc = "create" /\ ~NothingListed
    /\ cpp[cur][sep] # "none"
    /\ FunReturn(TRUE)
    /\ UNCHANGED <<pkgVars, treeVars, argVars, cur, after, todo, kept, reported, torn>>

\* An existing file is used whatever it holds, and before the types of the
\* parameters are looked at.
CreateExisting ==
    /\ pc = "create" /\ ~NothingListed
    /\ cpp[cur][sep] # "none"
    /\ pc' = "makefile" /\ after' = "return"
    /\ UNCHANGED <<pkgVars, treeVars, argVars, cur, sep, loopVars, result, torn>>

CreateUnsupported ==
    /\ pc = "create" /\ ~NothingListed
    /\ cpp[cur][sep] = "none" /\ cur \in Listed \ Supported
    /\ FunReturn(FALSE)
    /\ UNCHANGED <<pkgVars, treeVars, argVars, cur, after, todo, kept, reported, torn>>

CreateDir ==
    /\ pc = "create" /\ ~NothingListed
    /\ cpp[cur][sep] = "none" /\ cur \notin Listed \ Supported /\ cur \notin dir
    /\ dir' = dir \cup {cur}
    /\ UNCHANGED <<pkgVars, cpp, make, obj, exe, out, pc, argVars, cur, sep, after,
                   loopVars, result, torn>>

\* Mutant: the harness is created without a look whether it exists.
CreateNewOverwrites ==
    /\ pc = "create" /\ ~NothingListed
    /\ cur \notin Listed \ Supported /\ cur \in dir
    /\ cpp' = [cpp EXCEPT ![cur][sep] = "empty"]
    /\ IF sep # "infun" /\ make[cur]["infun"] # "none"
       THEN pc' = "sepfile" /\ UNCHANGED after
       ELSE pc' = "makefile" /\ after' = (IF sep = "infun" THEN "write" ELSE "sepnew")
    /\ UNCHANGED <<pkgVars, dir, make, obj, exe, out, argVars, cur, sep, loopVars,
                   result, torn>>

\* file.create: the harness exists, and is empty, from here on.
CreateNew ==
    /\ pc = "create" /\ ~NothingListed
    /\ cpp[cur][sep] = "none" /\ cur \notin Listed \ Supported /\ cur \in dir
    /\ cpp' = [cpp EXCEPT ![cur][sep] = "empty"]
    /\ IF sep # "infun" /\ make[cur]["infun"] # "none"
       THEN pc' = "sepfile" /\ UNCHANGED after
       ELSE pc' = "makefile" /\ after' = (IF sep = "infun" THEN "write" ELSE "sepnew")
    /\ UNCHANGED <<pkgVars, dir, make, obj, exe, out, argVars, cur, sep, loopVars,
                   result, torn>>

\* No shared object: install.packages leaves one in src/ if it can build.
BuildShared ==
    /\ pc = "makefile" /\ so = 0
    /\ IF deps THEN so' = srcVer /\ UNCHANGED <<pc, result>>
               ELSE UNCHANGED so /\ End("stop")
    /\ UNCHANGED <<srcVer, rcpp, deps, lib, treeVars, argVars, cur, sep, after,
                   loopVars, torn>>

\* Mutant: the output directory is left for the run to create.
MakeNoOutput ==
    /\ pc = "makefile" /\ so # 0
    /\ pc' = "newmake"
    /\ UNCHANGED <<pkgVars, treeVars, argVars, cur, sep, after, loopVars, result, torn>>

\* There is a shared object, whatever it was built from.
MakeOutput ==
    /\ pc = "makefile" /\ so # 0
    /\ out' = [out EXCEPT ![cur] = @ \cup {"infun"}]
    /\ pc' = "newmake"
    /\ UNCHANGED <<pkgVars, dir, cpp, make, obj, exe, argVars, cur, sep, after,
                   loopVars, result, torn>>

\* file.create empties a Makefile that is there.
NewMakefile ==
    /\ pc = "newmake"
    /\ make' = [make EXCEPT ![cur]["infun"] = "empty"]
    /\ pc' = "rules"
    /\ UNCHANGED <<pkgVars, dir, cpp, obj, exe, out, argVars, cur, sep, after,
                   loopVars, result, torn>>

WriteMakefile ==
    /\ pc = "rules"
    /\ make' = [make EXCEPT ![cur]["infun"] = "infun"]
    /\ IF after = "return" THEN FunReturn(TRUE)
       ELSE pc' = after /\ UNCHANGED <<created, sep, result>>
    /\ UNCHANGED <<pkgVars, dir, cpp, obj, exe, out, argVars, cur, after, todo,
                   kept, reported, torn>>

-----------------------------------------------------------------------------
(* <sep>.Makefile and the output directory of an editable harness.         *)

\* file.copy does not overwrite.
CopyMakefile ==
    /\ pc = "sepfile"
    /\ make' = (IF make[cur][sep] = "none"
                THEN [make EXCEPT ![cur][sep] = make[cur]["infun"]] ELSE make)
    /\ pc' = "sepnew"
    /\ UNCHANGED <<pkgVars, dir, cpp, obj, exe, out, argVars, cur, sep, after,
                   loopVars, result, torn>>

NewSepMakefile ==
    /\ pc = "sepnew"
    /\ make' = [make EXCEPT ![cur][sep] = "empty"]
    /\ pc' = "seprules"
    /\ UNCHANGED <<pkgVars, dir, cpp, obj, exe, out, argVars, cur, sep, after,
                   loopVars, result, torn>>

\* Mutant: the lines of Makefile are written as they are.
WriteSepMakefileAsIs ==
    /\ pc = "seprules"
    /\ make' = [make EXCEPT ![cur][sep] = make[cur]["infun"]]
    /\ pc' = "sepmove"
    /\ UNCHANGED <<pkgVars, dir, cpp, obj, exe, out, argVars, cur, sep, after,
                   loopVars, result, torn>>

\* The lines of Makefile, with the name of the harness replaced.
WriteSepMakefile ==
    /\ pc = "seprules"
    /\ make' = [make EXCEPT ![cur][sep] = IF make[cur]["infun"] = "infun" THEN sep
                                                                        ELSE "empty"]
    /\ pc' = "sepmove"
    /\ UNCHANGED <<pkgVars, dir, cpp, obj, exe, out, argVars, cur, sep, after,
                   loopVars, result, torn>>

RemoveMakefile ==
    /\ pc = "sepmove"
    /\ make' = [make EXCEPT ![cur]["infun"] = "none"]
    /\ pc' = "sepout"
    /\ UNCHANGED <<pkgVars, dir, cpp, obj, exe, out, argVars, cur, sep, after,
                   loopVars, result, torn>>

\* Mutant: the editable harness gets no output directory of its own.
MakeNoSepOutput ==
    /\ pc = "sepout"
    /\ pc' = "write"
    /\ UNCHANGED <<pkgVars, treeVars, argVars, cur, sep, after, loopVars, result, torn>>

MakeSepOutput ==
    /\ pc = "sepout"
    /\ out' = [out EXCEPT ![cur] = @ \cup {sep}]
    /\ pc' = "write"
    /\ UNCHANGED <<pkgVars, dir, cpp, make, obj, exe, argVars, cur, sep, after,
                   loopVars, result, torn>>

\* The text is put together and written; the loop over the rows of a function
\* that is not exported fails on its first row, which does not exist.
WriteHarness ==
    /\ pc = "write"
    /\ IF cur \in Listed
       THEN /\ cpp' = [cpp EXCEPT ![cur][sep] = "generated"]
            /\ FunReturn(TRUE)
       ELSE End("stop") /\ UNCHANGED <<cpp, created, sep>>
    /\ UNCHANGED <<pkgVars, dir, make, obj, exe, out, argVars, cur, after, todo,
                   kept, reported, torn>>

-----------------------------------------------------------------------------
(* deepstate_compile_fun, deepstate_fuzz_fun, deepstate_harness_compile_run*)

CompileFun(f, s) ==
    /\ Call("compile_fun", "compile", f, s)
    /\ Single(f, TRUE)

FuzzFun(f, s, positive) ==
    /\ Call("fuzz_fun", "fuzz", f, s)
    /\ Single(f, positive)

\* deepstate_harness_compile_run checks its time limit before anything else.
CompileRunStops(f) ==
    /\ Call("compile_run", "idle", f, "infun")
    /\ Single(f, FALSE)

NextFuzz(f) ==
    /\ pc = "fuzzloop" /\ f \in todo
    /\ todo' = todo \ {f}
    /\ cur' = f /\ sep' = "infun" /\ pc' = "fuzz"
    /\ UNCHANGED <<pkgVars, treeVars, argVars, after, kept, created, reported,
                   result, torn>>

CompileRunReturns ==
    /\ pc = "fuzzloop" /\ todo = {}
    /\ End("value")
    /\ UNCHANGED <<pkgVars, treeVars, argVars, cur, sep, after, loopVars, torn>>

\* An object file that exists is taken to be up to date.
Fuzz ==
    /\ pc = "fuzz"
    /\ pc' = (IF obj[cur][sep] = "none" THEN "compile" ELSE "run")
    /\ UNCHANGED <<pkgVars, treeVars, argVars, cur, sep, after, loopVars, result, torn>>

CompileStops ==
    /\ pc = "compile"
    /\ cpp[cur][sep] = "none" \/ make[cur][sep] = "none"
    /\ End("stop")
    /\ UNCHANGED <<pkgVars, treeVars, argVars, cur, sep, after, loopVars, torn>>

\* Mutant: a symbol that is missing is left to be found when the harness runs.
LinksLazily(f, text) == lib /\ so # 0

\* The harness can be linked; one without a test refers to no function.
Links(f, text) ==
    /\ lib /\ so # 0
    /\ text = "generated" => f \in Exports[so]

\* The harness h is compiled to the object o and linked to the executable x: both
\* succeed, the linker fails (and may have removed the executable), or the compiler
\* fails.  A Makefile without rules comes to the last, as h without a source does.
Builds(h, o, x) ==
    /\ o \in {"none", cpp[cur][h]}
    /\ x \in {exe[cur][h]} \cup (IF o = "none" THEN {} ELSE {"none", cpp[cur][h]})
    /\ x \in {"none", exe[cur][h]} \/ Links(cur, x)

Compiled ==
    /\ IF top = "compile_fun" THEN End("value")
                              ELSE pc' = "run" /\ UNCHANGED result
    /\ UNCHANGED <<pkgVars, dir, cpp, make, out, argVars, cur, sep, after,
                   loopVars, torn>>

\* Mutant: one command compiles and links, and leaves no object file.
CompileAtOnce ==
    /\ pc = "compile" /\ cpp[cur][sep] # "none"
    /\ \/ /\ make[cur][sep] = "empty"
          /\ obj' = [obj EXCEPT ![cur] = [s \in Sep |-> "none"]] /\ UNCHANGED exe
       \/ \E h \in Sep, o, x \in Text :
             /\ make[cur][sep] = h /\ Builds(h, o, x)
             /\ obj' = [obj EXCEPT ![cur] = [s \in Sep |-> "none"]]
             /\ exe' = [exe EXCEPT ![cur][h] = x]
    /\ Compiled

\* rm -f *.o && make, with the rules of the Makefile; its status is not looked at.
Compile ==
    /\ pc = "compile" /\ cpp[cur][sep] # "none"
    /\ \/ /\ make[cur][sep] = "empty"
          /\ obj' = [obj EXCEPT ![cur] = [s \in Sep |-> "none"]] /\ UNCHANGED exe
       \/ \E h \in Sep, o, x \in Text :
             /\ make[cur][sep] = h /\ Builds(h, o, x)
             /\ obj' = [obj EXCEPT ![cur] = [s \in Sep |-> IF s = h THEN o ELSE "none"]]
             /\ exe' = [exe EXCEPT ![cur][h] = x]
    /\ Compiled

\* Mutant: a harness without object or executable is compiled again.
RunRetries ==
    /\ pc = "run"
    /\ LET done == obj[cur][sep] # "none" /\ exe[cur][sep] # "none"
       IN  IF ~limit THEN End("stop") /\ UNCHANGED reported
           ELSE IF ~done THEN pc' = "compile" /\ UNCHANGED <<reported, result>>
           ELSE IF top = "compile_run"
           THEN /\ reported' = reported \cup {cur}
                /\ pc' = "fuzzloop"
                /\ UNCHANGED result
           ELSE End("value") /\ UNCHANGED reported
    /\ UNCHANGED <<pkgVars, treeVars, argVars, cur, sep, after, todo, kept,
                   created, torn>>

\* The executable runs and its status is dropped; the function is executed
\* if the object file and the executable exist.
Run ==
    /\ pc = "run"
    /\ LET done == obj[cur][sep] # "none" /\ exe[cur][sep] # "none"
       IN  IF ~limit THEN End("stop") /\ UNCHANGED reported
           ELSE IF top = "compile_run"
           THEN /\ reported' = (IF done THEN reported \cup {cur} ELSE reported)
                /\ pc' = "fuzzloop"
                /\ UNCHANGED result
           ELSE End(IF done THEN "value" ELSE "na") /\ UNCHANGED reported
    /\ UNCHANGED <<pkgVars, treeVars, argVars, cur, sep, after, todo, kept,
                   created, torn>>

-----------------------------------------------------------------------------
(* deepstate_compile_generate_fun and deepstate_compile_checks_fun.        *)

SepOf(t) == IF t = "compile_generate" THEN "generation" ELSE "checks"

\* Whether ranges (generation) or assertions (checks) may be missing: a user's
\* text has them, a generated one has no assertion and, when a parameter takes
\* a range, lacks the range.
MaybeMissing(s, text) ==
    CASE text \in Edits      -> {FALSE}
      [] s = "checks"        -> {TRUE}
      [] text = "generated"  -> BOOLEAN
      [] OTHER               -> {FALSE}

\* Both pass fun_name on, which is not their parameter function_name.
CompileSep(t, f, continue) ==
    /\ t \in {"compile_generate", "compile_checks"}
    /\ \E missing \in MaybeMissing(SepOf(t), cpp[f][SepOf(t)]) :
          LET proceeds == /\ f \in dir /\ cpp[f][SepOf(t)] # "none"
                          /\ ~(missing /\ ~continue)
                          /\ GlobalFun # NoFun
          IN  /\ Call(t, IF proceeds THEN "fuzz" ELSE "idle", f, SepOf(t))
              /\ Single(IF proceeds THEN GlobalFun ELSE f, TRUE)

-----------------------------------------------------------------------------
(* The user, between two calls.                                            *)

userFrame == <<pc, argVars, cur, sep, after, loopVars, result, torn>>

Happens(e) == pc = "idle" /\ e \in Events

EditHarness(f, s, e) ==
    /\ Happens("edit") /\ cpp[f][s] # "none"
    /\ cpp' = [cpp EXCEPT ![f][s] = e]
    /\ UNCHANGED <<pkgVars, dir, make, obj, exe, out, userFrame>>

\* A harness written by hand, for a function whose types are not supported.
ProvideHarness(f, e) ==
    /\ Happens("provide") /\ cpp[f]["infun"] = "none"
    /\ dir' = dir \cup {f}
    /\ cpp' = [cpp EXCEPT ![f]["infun"] = e]
    /\ UNCHANGED <<pkgVars, make, obj, exe, out, userFrame>>

\* The default harness is deleted, so that it is generated anew.
RemoveHarness(f) ==
    /\ Happens("remove") /\ cpp[f]["infun"] # "none"
    /\ cpp' = [cpp EXCEPT ![f]["infun"] = "none"]
    /\ UNCHANGED <<pkgVars, dir, make, obj, exe, out, userFrame>>

ChangeSource(v) ==
    /\ Happens("source") /\ v # srcVer
    /\ srcVer' = v
    /\ UNCHANGED <<rcpp, so, deps, lib, treeVars, userFrame>>

\* src/*.so built (or rebuilt) by the user, or deleted, and dependencies
\* installed or lost.
ChangeShared(v) ==
    /\ Happens("shared") /\ v \in {0, srcVer} \ {so}
    /\ so' = v
    /\ UNCHANGED <<srcVer, rcpp, deps, lib, treeVars, userFrame>>

ChangeDeps ==
    /\ Happens("deps")
    /\ deps' = ~deps
    /\ UNCHANGED <<srcVer, rcpp, so, lib, treeVars, userFrame>>

\* Changes that belong together: the files of a cleaned directory, a Makefile and
\* its rules, what an editable harness gets in place of the default one's.
HalfWay == {"cleandir", "rules", "sepnew", "seprules", "sepmove", "sepout"}

\* The session is interrupted or killed: the files stay as they are.
Killed ==
    /\ "kill" \in Events /\ pc # "idle"
    /\ End("killed")
    /\ torn' = (IF pc \in HalfWay THEN torn \cup {cur} ELSE torn)
    /\ cur' = asked /\ sep' = "infun" /\ after' = "return"
    /\ todo' = {} /\ kept' = {} /\ created' = {} /\ reported' = {}
    /\ UNCHANGED <<pkgVars, treeVars, argVars>>

-----------------------------------------------------------------------------
UserCall ==
    \/ \E f \in Fun, t \in Whole : PkgCreate(t, f)
    \/ \E f \in Fun, s \in Sep : FunCreate(f, s)
    \/ \E f \in Fun : EditableFun(f)
    \/ \E f \in Fun, s \in Sep : CompileFun(f, s)
    \/ \E f \in Fun, s \in Sep, positive \in BOOLEAN : FuzzFun(f, s, positive)
    \/ \E f \in Fun : CompileRunStops(f)
    \/ \E f \in Fun, t \in Top, continue \in BOOLEAN : CompileSep(t, f, continue)

\* All steps of a call but waiting for a harness that runs.
Advance ==
    \/ \E f \in Fun : NextDir(f)
    \/ \E kind \in Kind, s \in Sep : CleanFile(kind, s)
    \/ DirCleaned
    \/ MakeRun
    \/ CompileAttributes
    \/ \E f \in Fun : NextFun(f)
    \/ PkgCreated
    \/ CreateStops
    \/ CreateExisting
    \/ CreateUnsupported
    \/ CreateDir
    \/ CreateNew
    \/ BuildShared
    \/ MakeOutput
    \/ NewMakefile
    \/ WriteMakefile
    \/ CopyMakefile
    \/ NewSepMakefile
    \/ WriteSepMakefile
    \/ RemoveMakefile
    \/ MakeSepOutput
    \/ WriteHarness
    \/ \E f \in Fun : NextFuzz(f)
    \/ CompileRunReturns
    \/ Fuzz
    \/ CompileStops
    \/ Compile

SessionStep == Advance \/ Run

UserEvent ==
    \/ \E f \in Fun, s \in Sep, e \in Edits : EditHarness(f, s, e)
    \/ \E f \in Fun, e \in Edits : ProvideHarness(f, e)
    \/ \E f \in Fun : RemoveHarness(f)
    \/ \E v \in Ver : ChangeSource(v)
    \/ \E v \in 0..MaxVer : ChangeShared(v)
    \/ ChangeDeps

Next == UserCall \/ SessionStep \/ UserEvent \/ Killed

Spec == Init /\ [][Next]_vars

\* A call that runs takes its next step: nothing in R waits for the user, and
\* wget, the compiler and the installation of a package end.  The harness need
\* not: its --timeout is looked at between two runs of the tested function, of
\* which each may take for ever.
FairSpec == Spec /\ WF_vars(Advance)

-----------------------------------------------------------------------------
(* Properties.                                                             *)

\* Working: the call goes through deepstate_pkg_create and has not ended.
Working == top \in Whole /\ pc # "idle"

\* What deepstate_pkg_create counts as created can be compiled when it returns,
\* and all through the fuzzing of deepstate_harness_compile_run: harness,
\* Makefile, output directory and shared object exist, though the cleanup has
\* deleted all but the first and other functions are created in between.
CreatedUsable ==
    Working => \A f \in created :
        /\ cpp[f]["infun"] # "none" /\ make[f]["infun"] = "infun"
        /\ "infun" \in out[f] /\ so # 0

\* A function deepstate_harness_compile_run reports was run from an executable
\* built from the harness that is there now, although deepstate_fuzz_fun never
\* compares the two: the cleanup made sure there was nothing older.
ReportedIsCurrent ==
    pc = "fuzzloop" => \A f \in reported \ kept :
        exe[f]["infun"] = cpp[f]["infun"] /\ obj[f]["infun"] = cpp[f]["infun"]

\* Nothing was, and nothing is being, cut short in the directory of f.
Intact(f) == f \notin torn /\ (pc = "cleandir" => cur # f)

\* A generated editable harness can be compiled: it has a Makefile with rules of
\* its own and an output directory, whatever calls, cleanups and interruptions
\* came since; but in a directory a call left half way.
GeneratedHasMakefile ==
    \A f \in Fun, s \in Sep \ {"infun"} :
        Intact(f) /\ cpp[f][s] = "generated" => make[f][s] = s /\ s \in out[f]

\* deepstate_fuzz_fun never runs a harness that has no directory to save its
\* inputs in, also when it runs an executable of an earlier call; but in a
\* directory a call left half way.
OutputBeforeRun == pc = "run" /\ cur \notin torn => sep \in out[cur]

\* No call of the package changes or deletes a default harness that has a text:
\* one that was edited or provided by hand survives every call.
DefaultHarnessKept ==
    [][pc # "idle" => \A f \in Fun :
        cpp[f]["infun"] \notin {"none", "empty"} =>
            cpp'[f]["infun"] = cpp[f]["infun"]]_vars

\* Unless it waits for one run of a harness for good, every call ends, with a
\* value or an error: no step is repeated until it succeeds.
CallEnds == <>[](pc = "run") \/ []<>(pc = "idle")

\* The executable of a reported function that was generated calls a function the
\* package's shared object has, although neither the sources nor a rebuilt
\* shared object ever caused a harness to be compiled again: the cleanup did.
ReportedHasFunction ==
    pc = "fuzzloop" => \A f \in reported \ kept :
        exe[f]["infun"] = "generated" => so # 0 /\ f \in Exports[so]

\* The calls keep to what HarnessFiles promises, whatever the order of calls,
\* failures and the user's own changes to the files.
Making == \/ pc \in {"sepfile", "sepnew", "seprules", "sepmove", "sepout", "write"}
          \/ pc \in {"makefile", "newmake", "rules"} /\ after # "return"

Mode == CASE pc = "idle"                  -> "user"
          [] pc \in {"clean", "cleandir"} -> "cleaning"
          [] OTHER                        -> "working"
Made == IF Making THEN {<<cur, sep>>} ELSE {}

Files == INSTANCE HarnessFiles WITH text <- cpp, mode <- Mode, making <- Made

FilesKept == Files!Spec

\* Of the default harnesses' files, those the analysis looks at, the calls change
\* no more than HarnessTree says, on which module Analysis rests: an executable
\* or an object appears only where the compiler made the object, in a directory
\* that is there.
Objects == {h \in Fun : obj[h]["infun"] # "none"}
Executables == {h \in Fun : exe[h]["infun"] # "none"}

Tree == INSTANCE HarnessTree WITH obj <- Objects, exe <- Executables

TreeKept == Tree!Spec

-----------------------------------------------------------------------------
(* What the documentation and the comments say and the code does not do;   *)
(* each is refuted by a run of its own.                                    *)

\* "A character vector of TestHarness files that are generated": what
\* deepstate_pkg_create counts as created has a text.
CreatedIsGenerated == Working => \A f \in created : cpp[f]["infun"] # "empty"

\* deepstate_compile_generate_fun and deepstate_compile_checks_fun run the
\* harness of the function the caller names.
NamedFunctionRuns ==
    pc \in {"fuzz", "compile", "run"}
    /\ top \in {"compile_generate", "compile_checks"} => cur = asked

-----------------------------------------------------------------------------
(* The inductive invariant behind the properties above.                    *)

\* The Makefile of harness s of f is between file.create and its rules, or its
\* output directory is still to come.
BeingMade(f, s) ==
    /\ f = cur
    /\ \/ pc = "rules" /\ s = "infun"
       \/ pc \in {"sepnew", "seprules", "sepmove", "sepout"} /\ s = sep

\* A function without a directory has no file.  Where nothing was cut short a
\* Makefile has the rules of its harness, but while it is being made, and a
\* harness that has a Makefile or was compiled has its output directory.
TreeInv ==
    \A f \in Fun, s \in Sep :
        /\ f \notin dir => /\ cpp[f][s] = "none" /\ make[f][s] = "none"
                           /\ obj[f][s] = "none" /\ exe[f][s] = "none"
        /\ Intact(f) /\ make[f][s] # "none" /\ ~BeingMade(f, s) =>
              make[f][s] = s /\ s \in out[f]
        /\ Intact(f) /\ obj[f][s] # "none" => s \in out[f]

\* A directory that is cleaned keeps its default harness.
\* Where deepstate_fun_create is, its own harness file exists; from the moment
\* it made the file to the moment it writes the text, the file is empty, and
\* when it writes, the Makefile the harness needs is there.
CreateInv ==
    /\ pc = "cleandir" => cpp[cur]["infun"] # "none"
    /\ pc \in {"makefile", "newmake", "rules"} \/ Making =>
          cur \in dir /\ cpp[cur][sep] # "none"
    /\ Making => cpp[cur][sep] = "empty"
    /\ pc \in {"makefile", "newmake", "rules"} /\ after # "return" =>
          (after = "write" <=> sep = "infun")
    /\ pc \in {"newmake", "rules"} => so # 0 /\ "infun" \in out[cur]
    /\ pc \in {"sepfile", "sepnew", "seprules", "sepmove", "sepout"} => sep # "infun"
    /\ pc \in {"sepfile", "sepnew", "seprules"} => make[cur]["infun"] # "none"
    /\ pc \in {"sepmove", "sepout"} /\ cur \notin torn => make[cur][sep] = sep
    /\ pc = "write" =>
          /\ sep = "infun" => /\ make[cur]["infun"] = "infun"
                              /\ "infun" \in out[cur] /\ so # 0
          /\ cur \notin torn => make[cur][sep] = sep /\ sep \in out[cur]

Cleaning == {"clean", "cleandir"}
Building == {"library", "loop", "create", "makefile", "newmake", "rules", "write"}
Fuzzing  == {"fuzzloop", "fuzz", "compile", "run"}

\* In a call that goes through deepstate_pkg_create only default harnesses are
\* worked on; until fuzzing starts nothing is compiled in a directory that was
\* cleaned, and from then on only from the harness that is there.
WholeInv ==
    /\ pc \in Cleaning \cup {"library", "loop", "fuzzloop"} => top \in Whole
    /\ Working =>
        /\ sep = "infun"
        /\ pc \in Cleaning \cup {"library"} => created = {}
        /\ pc \in Building \ {"library"} => todo \cap created = {}
        /\ pc \in Building \ {"library", "loop"} => cur \notin todo \cup created
        /\ pc \in Cleaning \cup Building =>
              /\ reported = {}
              /\ \A f \in Fun \ kept :
                    (pc \in Cleaning => f \notin todo) /\ (pc = "cleandir" => f # cur) =>
                        obj[f]["infun"] = "none" /\ exe[f]["infun"] = "none"
        /\ pc \in Fuzzing =>
              /\ todo \cap reported = {}
              /\ pc # "fuzzloop" => cur \notin todo \cup reported
              /\ \A f \in Fun \ kept :
                    /\ obj[f]["infun"] \in {"none", cpp[f]["infun"]}
                    /\ exe[f]["infun"] \in {"none", cpp[f]["infun"]}
              /\ \A f \in reported \ kept :
                    /\ obj[f]["infun"] = cpp[f]["infun"]
                    /\ exe[f]["infun"] = cpp[f]["infun"]

\* In the same call an executable made from a generated harness was linked with
\* the shared object that is there: none is built once fuzzing has started.
LinkInv ==
    Working /\ pc \in Fuzzing => \A f \in Fun \ kept :
        exe[f]["infun"] = "generated" => so # 0 /\ f \in Exports[so]

\* What the calls keep true of the files; see the parts.
FilesInv ==
    /\ TypeOK
    /\ TreeInv
    /\ CreateInv
    /\ WholeInv
    /\ CreatedUsable
    /\ GeneratedHasMakefile
    /\ OutputBeforeRun

\* What every step of the session preserves.
IInv == FilesInv /\ LinkInv
=============================================================================
