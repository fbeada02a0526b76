---------------------------- MODULE MCJobService ----------------------------
(* Instances of JobService for TLC: one or two workers that may serve any   *)
(* interleaving of requests about three jobs of which two are retained.     *)
EXTENDS JobService, TLC

Symmetry == Permutations(Workers)
=============================================================================
