----------------------------- MODULE MCSessions -----------------------------
(***************************************************************************)
(* Instances of Sessions.                                                  *)
(***************************************************************************)
EXTENDS Sessions, TLC

RequestSymmetry == Permutations(Request)
=============================================================================
