----------------------------- MODULE MCAnalysis -----------------------------
(***************************************************************************)
(* Small instances of Analysis and LogReader.  A behaviour is of a session *)
(* that analyzes a package, or looks at one of Logs.                       *)
(***************************************************************************)
EXTENDS Analysis, LogReader

CONSTANT Logs

MCAllCalls  == {"analyze_pkg", "analyze_fun", "analyze_file", "fuzz_analyze"}
MCAllEvents == {"create", "cut", "compile", "fuzz", "lose", "kill"}

MCTrue  == {TRUE}
MCFalse == {FALSE}
MCBoth  == BOOLEAN

\* Many saved test cases of one function, or one of each of two.
Small == dir \subseteq {1} \/ \A f \in Fun : entries[f] \cap Saved \subseteq {1}

MCInit == Init /\ (log = NoLog \/ (log \in Logs /\ dotted = FALSE))

MCNext ==
    \/ log = NoLog /\ Next /\ Small' /\ UNCHANGED log
    \/ log # NoLog /\ UNCHANGED <<vars, log>>

MCSpec == MCInit /\ [][MCNext]_<<vars, log>>

MCFairSpec == MCSpec /\ WF_vars(log = NoLog /\ Advance /\ UNCHANGED log)
=============================================================================
