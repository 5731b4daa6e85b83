---------------------------- MODULE MCSettlement ----------------------------
(* Small instances of Settlement for TLC.                                  *)
EXTENDS Settlement, TLC

\* Two requests in flight are interchangeable, and so are two accounts.
Symmetry == Permutations(Handlers) \cup Permutations(Accounts)
=============================================================================
