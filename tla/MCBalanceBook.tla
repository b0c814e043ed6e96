---------------------------- MODULE MCBalanceBook ----------------------------
(* BalanceBook with slots, currencies and symbols that are interchangeable.  *)
EXTENDS BalanceBook, TLC

Symmetry == Permutations(Tasks) \cup Permutations(Currencies) \cup Permutations(Symbols)
=============================================================================
