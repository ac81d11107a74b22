-------------------------- MODULE MCRuntimeLifecycle --------------------------
(***************************************************************************)
(* Instances of RuntimeLifecycle for TLC.                                  *)
(***************************************************************************)
EXTENDS RuntimeLifecycle, TLC

Interchangeable == Permutations(Request)
=============================================================================
