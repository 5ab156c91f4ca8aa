------------------------------ MODULE MCLists ------------------------------
(* Small instances of Lists. *)
EXTENDS Lists, TLC

CONSTANTS h1, h2, d1, d2, s1, s2

(* Nothing tells one source from another. *)
Symmetry == Permutations(Sources)
============================================================================
