--------------------------- MODULE MCSceneManager ---------------------------
(* The scene with two sources; the names are alike.                       *)
EXTENDS SceneManager, TLC

Symmetry == Permutations(Names)
=============================================================================
