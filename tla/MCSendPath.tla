------------------------------ MODULE MCSendPath ------------------------------
(* SendPath on small instances.  The calls are alike. *)
EXTENDS SendPath, TLC

Symmetry == Permutations(Sends)
===============================================================================
