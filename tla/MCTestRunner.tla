---------------------------- MODULE MCTestRunner ----------------------------
(***************************************************************************)
(* Small instances of TestRunner: the command lines of each.               *)
(***************************************************************************)
EXTENDS TestRunner

\* Every command line, with FALSE for the options its mode does not look at.
MCAll ==
    {f \in Flag :
        /\ f.abort => f.abort_given
        /\ IF f.mode = "plain" THEN ~f.exit
           ELSE /\ ~f.drfuzz /\ ~f.boring /\ ~f.filter /\ ~f.disabled
                /\ f.mode = "cases" => ~f.exit}

MCEnds    == End
=============================================================================
