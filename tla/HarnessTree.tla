----------------------------- MODULE HarnessTree -----------------------------
(***************************************************************************)
(* What the build side of RcppDeepState does to the files from which its   *)
(* fuzzing and analysis side decides what to do: the directory of a        *)
(* function, the object file and the executable of its default harness.    *)
(* HarnessBuild implements this, call by call; Analysis takes its steps    *)
(* between two calls from here.                                            *)
(***************************************************************************)
CONSTANT Fun

VARIABLES
    dir,    \* functions that have a directory in inst/testfiles
    obj,    \* those whose .o file exists
    exe     \* those whose executable exists

vars == <<dir, obj, exe>>

Init == dir = {} /\ obj = {} /\ exe = {}

\* A directory is made, or what an earlier build left in it is removed.
Create(f) == dir' = dir \cup {f} /\ obj' = obj \ {f} /\ exe' = exe \ {f}

\* What an earlier build left is removed one file after the other, and the call
\* that does it may be killed in between.
Unlink(f) ==
    /\ obj' \in {obj, obj \ {f}} /\ exe' \in {exe, exe \ {f}}
    /\ UNCHANGED dir

\* Objects are deleted first.  Where the compiler fails that is all; where the
\* linker does, the old executable may be gone.
Compile(f) ==
    /\ f \in dir
    /\ \/ obj' = obj \ {f} /\ UNCHANGED exe
       \/ obj' = obj \cup {f} /\ exe' \in {exe, exe \ {f}, exe \cup {f}}
    /\ UNCHANGED dir

Next == \E f \in Fun : Create(f) \/ Unlink(f) \/ Compile(f)

Spec == Init /\ [][Next]_vars
=============================================================================
