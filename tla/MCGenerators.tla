---------------------------- MODULE MCGenerators ----------------------------
(***************************************************************************)
(* Small instances of Generators and Draws, with the integers of a narrow  *)
(* type: vectors of up to MaxSize elements, matrices of up to              *)
(* MaxDim x MaxDim, and every call of Draws.  A behaviour runs a generator *)
(* or looks at a call.                                                     *)
(***************************************************************************)
EXTENDS Generators, Draws

MCInit ==
    \/ Init /\ call = NoCall /\ input = 0
    \/ Init /\ gen = "mat" /\ DrawInit

MCNext ==
    \/ call = NoCall /\ Next /\ UNCHANGED drawVars
    \/ Read /\ UNCHANGED vars

MCSpec == MCInit /\ [][MCNext]_<<vars, drawVars>>
=============================================================================
