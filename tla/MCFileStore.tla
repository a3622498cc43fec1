---------------------------- MODULE MCFileStore ----------------------------
(* Model values for FileStore. *)
EXTENDS FileStore, TLC

(* Tasks run the same code, temporary names are interchangeable. *)
Symmetry == Permutations(Task) \cup Permutations(Write)
=============================================================================
