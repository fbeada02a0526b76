---------------------------- MODULE MCAdmission ----------------------------
(* Instances of Admission for TLC: a few threads, a limit below their       *)
(* number, and a word long enough for the requests that are sent.           *)
EXTENDS Admission, TLC

Symmetry == Permutations(Workers)
=============================================================================
