------------------------------ MODULE MCNgrok ------------------------------
(* Small instances of NgrokService for TLC. *)
EXTENDS NgrokService, TLC

Symmetry == Permutations(Callers) \cup Permutations(Paths)
=============================================================================
