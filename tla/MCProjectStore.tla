--------------------------- MODULE MCProjectStore ---------------------------
(* The project store over a few edits, with ends of the process anywhere.  *)
EXTENDS ProjectStore
=============================================================================
