------------------------------ MODULE MCOrders ------------------------------
(* Small instances of Orders for TLC.  Each instance names its orders by   *)
(* what they are; Catalog says of each name what the order is.             *)
EXTENDS Orders, TLC

Catalog == [
  bulk    |-> [kind |-> "new", price |-> 2, quantity |-> 2],
  free    |-> [kind |-> "new", price |-> 0, quantity |-> 1],
  manual  |-> [kind |-> "new", price |-> 2, quantity |-> 1],
  renewal |-> [kind |-> "renew", price |-> 1, quantity |-> 1],
  edition |-> [kind |-> "edit", price |-> 1, quantity |-> 1],
  extra   |-> [kind |-> "addon", price |-> 1, quantity |-> 1],
  prepaid |-> [kind |-> "renew_reserve", price |-> 1, quantity |-> 1],
  charge  |-> [kind |-> "wallet_charge", price |-> 2, quantity |-> 1]]

MCKind == [o \in Orders |-> Catalog[o].kind]
MCPrice == [o \in Orders |-> Catalog[o].price]
MCQuantity == [o \in Orders |-> Catalog[o].quantity]

\* Two requests in flight are interchangeable.
Symmetry == Permutations(Handlers)
=============================================================================
