------------------------------- MODULE MCAuth -------------------------------
(* Auth with users and handler slots that are interchangeable.               *)
EXTENDS Auth, TLC

Symmetry == Permutations(Users) \cup Permutations(Tasks)
=============================================================================
