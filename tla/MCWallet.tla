------------------------------ MODULE MCWallet ------------------------------
(* Small instances of Wallet for TLC: two requests in flight are           *)
(* interchangeable.                                                        *)
EXTENDS Wallet, TLC

Symmetry == Permutations(Handlers)
=============================================================================
