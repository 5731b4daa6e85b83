------------------------------ MODULE Account -------------------------------
(***************************************************************************)
(* What a wallet promises: money moves in one step per movement, and no    *)
(* movement leaves an account deeper in debt than its owner was ever       *)
(* entitled to be.  How the entitlement is looked up, and when, is not     *)
(* said here; services/wallet.ts does it before the transaction.           *)
(***************************************************************************)
EXTENDS Integers

CONSTANT Users

VARIABLES
  balance,   \* what each user has, or owes when negative
  depth      \* the deepest debt each user was ever entitled to

Init ==
  /\ balance = [u \in Users |-> 0]
  /\ depth = [u \in Users |-> 0]

Move(u) ==
  /\ balance' \in [Users -> Int]
  /\ \A v \in Users \ {u} : balance'[v] = balance[v]
  /\ balance'[u] < balance[u] => balance'[u] >= -depth[u]
  /\ UNCHANGED depth

\* Entitlements that were granted are not taken back from the past.
Widen ==
  /\ depth' \in [Users -> Nat]
  /\ \A u \in Users : depth'[u] >= depth[u]
  /\ UNCHANGED balance

Next == Widen \/ \E u \in Users : Move(u)

Spec == Init /\ [][Next]_<<balance, depth>>
=============================================================================
