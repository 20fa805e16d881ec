------------------------------ MODULE MCStartUp ------------------------------
(* No project on disk, or one of two items that are not in the order of    *)
(* their ids: while it is loaded, two items have the same id.              *)
EXTENDS StartUp

MCProjects == {Absent, [items |-> <<2, 1>>, counter |-> 2]}
=============================================================================
