---------------------------- MODULE MCLifecycle ----------------------------
(* An instance of Lifecycle for TLC: two clients before a pool of one thread*)
(* that may grow to two, connections of two requests.                       *)
EXTENDS Lifecycle
=============================================================================
