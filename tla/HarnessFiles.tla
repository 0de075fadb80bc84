---------------------------- MODULE HarnessFiles ----------------------------
(***************************************************************************)
(* What RcppDeepState promises about the harness files of a package, told  *)
(* without a word on how it makes them: the files belong to the user.  A   *)
(* call writes a harness only where there was none when it came to it, and *)
(* makes one at a time; a call that is cut short leaves that one empty.    *)
(* Only the cleanup at the start of a call removes files, and never a      *)
(* default harness.  HarnessBuild implements this.                         *)
(***************************************************************************)
EXTENDS Naturals

CONSTANTS Fun, Sep, Edits

VARIABLES
    text,       \* text[f][s]: what the harness s of f holds
    mode,       \* "user", between two calls, "cleaning" or "working"
    making      \* the harness a call has made and not written: at most one

vars == <<text, mode, making>>

Init ==
    /\ text = [f \in Fun |-> [s \in Sep |-> "none"]]
    /\ mode = "user" /\ making = {}

BeginCall == mode = "user" /\ mode' \in {"cleaning", "working"} /\ UNCHANGED <<text, making>>

\* One file after the other, of a function whose default harness is there.
CleanUp(f, s) ==
    /\ mode = "cleaning" /\ s # "infun" /\ text[f]["infun"] # "none"
    /\ text' = [text EXCEPT ![f][s] = "none"]
    /\ UNCHANGED <<mode, making>>

CleanedUp == mode = "cleaning" /\ mode' = "working" /\ UNCHANGED <<text, making>>

Make(f, s) ==
    /\ mode = "working" /\ making = {} /\ text[f][s] = "none"
    /\ text' = [text EXCEPT ![f][s] = "empty"]
    /\ making' = {<<f, s>>} /\ UNCHANGED mode

Write(f, s) ==
    /\ <<f, s>> \in making
    /\ text' = [text EXCEPT ![f][s] = "generated"]
    /\ making' = {} /\ mode' \in {"working", "user"}

EndCall == mode # "user" /\ mode' = "user" /\ making' = {} /\ UNCHANGED text

UserWrites(f, s) ==
    /\ mode = "user"
    /\ \E e \in Edits \cup {"none"} : text' = [text EXCEPT ![f][s] = e]
    /\ UNCHANGED <<mode, making>>

Next ==
    \/ BeginCall \/ CleanedUp \/ EndCall
    \/ \E f \in Fun, s \in Sep : CleanUp(f, s) \/ Make(f, s) \/ Write(f, s) \/ UserWrites(f, s)

Spec == Init /\ [][Next]_vars
=============================================================================
