---------------------------- MODULE MCGlobalLimits ----------------------------
(***************************************************************************)
(* GlobalLimits on a small instance.  Processes and recipients may be      *)
(* exchanged: nothing in the module tells one from another, and only       *)
(* safety is checked.                                                      *)
(***************************************************************************)
EXTENDS GlobalLimits, TLC

Symmetry == Permutations(Procs) \cup Permutations(Recipients)
=============================================================================
