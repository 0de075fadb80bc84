---------------------------- MODULE MCTestBody -----------------------------
(***************************************************************************)
(* Three tests, the second of them a TEST_F; bytes of two bits, an int of  *)
(* two bytes, and types that are wider and narrower.                       *)
(***************************************************************************)
EXTENDS TestBody

Fixtures == {2}
=============================================================================
