-------------------------- MODULE MCWalletRegistry --------------------------
(* WalletRegistry with two users, whose wallets are told apart, and handler  *)
(* slots that are interchangeable.                                          *)
EXTENDS WalletRegistry, TLC

Symmetry == Permutations(Users) \cup Permutations(Requests)
=============================================================================
