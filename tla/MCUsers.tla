------------------------------- MODULE MCUsers -------------------------------
(* Users with values of each kind that are interchangeable.                  *)
EXTENDS Users, TLC

Symmetry == Permutations(Emails) \cup Permutations(Passwords)
            \cup Permutations(Codes) \cup Permutations(Tasks)
=============================================================================
