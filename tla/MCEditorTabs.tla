---------------------------- MODULE MCEditorTabs ----------------------------
(* Model values and symmetry for EditorTabs. *)
EXTENDS EditorTabs, TLC
CONSTANTS f1, f2, g1, g2
Symmetry == Permutations({f1, f2}) \cup Permutations({g1, g2})
=============================================================================
