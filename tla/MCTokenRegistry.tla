--------------------------- MODULE MCTokenRegistry ---------------------------
(* TokenRegistry with handler slots that are interchangeable.                *)
EXTENDS TokenRegistry, TLC

CONSTANTS k1, k2, k3, n1, n2, n3

\* Two keys of networks of the seed, and one of a network that has no provider.
MCNetworkOf == k1 :> n1 @@ k2 :> n2 @@ k3 :> n3

Symmetry == Permutations(Requests)
=============================================================================
