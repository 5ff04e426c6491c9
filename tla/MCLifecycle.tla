----------------------------- MODULE MCLifecycle -----------------------------
(* Lifecycle on small instances.  The application's tasks are alike. *)
EXTENDS Lifecycle, TLC

Symmetry == Permutations(Callers)
===============================================================================
