--------------------------- MODULE MCHarnessBuild ---------------------------
(***************************************************************************)
(* Instances of HarnessBuild for TLC.  Two functions f and g; the sources  *)
(* go through versions that export both, or one of them only.              *)
(***************************************************************************)
EXTENDS HarnessBuild

CONSTANTS f, g

MCFun == {f, g}
MCOnlyF == {f}

\* One version, with both functions or one.
MCStable == <<{f, g}>>
MCOne == <<{f}>>

\* The second version exports functions without parameters only.
MCOthers == <<{f}, {}>>

\* The second version does not export f, the function whose types are supported.
MCDropF == <<{f, g}, {g}>>

\* The files of rcpp_f in the order of the C locale, where upper case comes first,
\* and files deleted in any order.
Names == <<<<"make", "infun">>, <<"make", "checks">>, <<"make", "generation">>,
           <<"exe", "infun">>, <<"cpp", "infun">>, <<"obj", "infun">>,
           <<"exe", "checks">>, <<"cpp", "checks">>, <<"obj", "checks">>,
           <<"exe", "generation">>, <<"cpp", "generation">>, <<"obj", "generation">>,
           <<"out", "infun">>, <<"out", "checks">>, <<"out", "generation">>>>
MCByName == [k \in Kind \X Sep |-> CHOOSE i \in DOMAIN Names : Names[i] = k]
MCAnyOrder == [k \in Kind \X Sep |-> 0]

\* A machine on which libdeepstate has been built, so that harnesses may be linked.
MCInit == Init /\ lib

MCLinks == MCInit /\ [][Next]_vars

MCFairLinks == MCLinks /\ WF_vars(Advance)
=============================================================================
