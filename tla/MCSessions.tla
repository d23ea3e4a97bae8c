----------------------------- MODULE MCSessions -----------------------------
(***************************************************************************)
(* Instances of Sessions for TLC.  Limits of one and two ticks, and a      *)
(* clock that outlives both.                                               *)
(***************************************************************************)
EXTENDS Sessions, TLC

Symmetry == Permutations(Calls) \cup Permutations(Users)
=============================================================================
