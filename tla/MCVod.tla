------------------------------- MODULE MCVod -------------------------------
(* OpenVOD on small instances: the slots and the cache behind it, and the
   range arithmetic on the files it serves itself. *)
EXTENDS VodStream, TLC

Symmetry == Permutations(Calls)

(* Around both edges of every file. *)
SmallNumbers == -1..6
SmallSizes == 1..5
=============================================================================
