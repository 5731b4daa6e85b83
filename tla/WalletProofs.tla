---------------------------- MODULE WalletProofs ----------------------------
(* Theorems about the wallet service, for every set of users, requests,    *)
(* sums and limits.                                                        *)
EXTENDS Wallet, TLAPS

-----------------------------------------------------------------------------
(* What appending a well-formed row does to a well-formed ledger.          *)
LEMMA PostType ==
  ASSUME TypeOK, NEW u \in Users, NEW t \in {"charge", "adjust", "purchase"},
         NEW a \in Int, NEW n \in Int, Post(u, t, a, n)
  PROVE  /\ balance' \in [Users -> Int]
         /\ ledger' \in [Users -> Seq(Row)]
<1>1. [type |-> t, amount |-> a, before |-> balance[u], after |-> n] \in Row
  BY DEF TypeOK, Row
<1>2. Append(ledger[u], [type |-> t, amount |-> a, before |-> balance[u], after |-> n])
        \in Seq(Row)
  BY <1>1 DEF TypeOK
<1> QED
  BY <1>2 DEF Post, TypeOK

LEMMA ReturnType ==
  ASSUME TypeOK, NEW h \in Handlers, Return(h)
  PROVE  /\ pc' \in [Handlers -> {"idle", "allowed", "limit", "tx"}]
         /\ req' \in [Handlers -> Request \cup {NoRequest}]
         /\ seen' \in [Handlers -> Nat]
         /\ \A k \in Handlers : pc'[k] # "idle" => k # h /\ pc[k] = pc'[k]
                                  /\ req'[k] = req[k] /\ seen'[k] = seen[k]
  BY DEF TypeOK, Return

(* The variables keep their types through every call, read and transaction. *)
THEOREM TypeCorrect == Spec => []TypeOK
<1>1. Init => TypeOK
  BY LimitsAssumption DEF Init, TypeOK
<1>2. TypeOK /\ [Next]_vars => TypeOK'
  <2> SUFFICES ASSUME TypeOK, [Next]_vars PROVE TypeOK'
    OBVIOUS
  <2>1. ASSUME NEW h \in Handlers, Call(h) PROVE TypeOK'
    <3> PICK u \in Users, a \in Amounts :
          \/ CallCredit(h, u, a) \/ CallAdjust(h, u, a)
          \/ CallAdjust(h, u, -a) \/ CallDebit(h, u, a)
      BY <2>1 DEF Call
    <3>1. a \in Int /\ -a \in Int
      BY AmountsAssumption
    <3>2. \A b \in Int, o \in Ops : [op |-> o, user |-> u, amount |-> b] \in Request
      BY DEF Request
    <3>3. PICK r \in Request, at \in {"allowed", "tx"} : Begin(h, r, at)
      BY <3>1, <3>2 DEF CallCredit, CallAdjust, CallDebit, Ops
    <3> QED
      BY <3>3 DEF Begin, TypeOK, store, policy
  <2>2. ASSUME NEW h \in Handlers, ReadAllowed(h) PROVE TypeOK'
    BY <2>2 DEF ReadAllowed, TypeOK, store, policy
  <2>3. ASSUME NEW h \in Handlers, ReadLimit(h) PROVE TypeOK'
    BY <2>3 DEF ReadLimit, TypeOK, store, policy
  <2>4. ASSUME NEW h \in Handlers, CreditTx(h) \/ AdjustTx(h) \/ DebitTx(h)
        PROVE  TypeOK'
    <3>1. /\ req[h].user \in Users
          /\ req[h].amount \in Int
          /\ balance[req[h].user] \in Int
      BY <2>4 DEF CreditTx, AdjustTx, DebitTx, TypeOK, Request
    <3>2. PICK t \in {"charge", "adjust", "purchase"}, n \in Int :
            Post(req[h].user, t, req[h].amount, n)
      BY <2>4, <3>1 DEF CreditTx, AdjustTx, DebitTx
    <3>3. Return(h) /\ UNCHANGED policy
      BY <2>4 DEF CreditTx, AdjustTx, DebitTx
    <3>4. balance' \in [Users -> Int] /\ ledger' \in [Users -> Seq(Row)]
      BY <3>1, <3>2, PostType
    <3> QED
      BY <3>3, <3>4, ReturnType DEF TypeOK, policy
  <2>5. ASSUME NEW h \in Handlers, Refuse(h) \/ TxFails(h) PROVE TypeOK'
    <3>1. Return(h) /\ UNCHANGED <<store, policy>>
      BY <2>5 DEF Refuse, TxFails
    <3> QED
      BY <3>1, ReturnType DEF TypeOK, store, policy
  <2>6. ASSUME NEW u \in Users, NEW b \in BOOLEAN, SetAllowed(u, b) PROVE TypeOK'
    BY <2>6 DEF SetAllowed, TypeOK, store, handling
  <2>7. ASSUME NEW n \in Limits, SetLimit(n) PROVE TypeOK'
    BY <2>7, LimitsAssumption DEF SetLimit, TypeOK, store, handling
  <2>8. CASE UNCHANGED vars
    BY <2>8 DEF vars, TypeOK
  <2> QED
    BY <2>1, <2>2, <2>3, <2>4, <2>5, <2>6, <2>7, <2>8 DEF Next, Proceed
<1> QED
  BY <1>1, <1>2, PTL DEF Spec

-----------------------------------------------------------------------------
(* A balance moves only as its transaction says.                           *)
LEMMA PostBalance ==
  ASSUME TypeOK, NEW u \in Users, NEW t, NEW a, NEW n \in Int, Post(u, t, a, n)
  PROVE  /\ balance'[u] = n
         /\ \A v \in Users \ {u} : balance'[v] = balance[v]
  BY DEF Post, TypeOK

(* Every step keeps the floor and what the requests in flight rely on. *)
LEMMA FloorStep ==
  ASSUME TypeOK, TypeOK', FloorInv, [Next]_vars
  PROVE  FloorInv'
<1> USE DEF FloorInv, PolicyBounded, SeenJustified, FloorRespected, Floor
<1>1. ASSUME NEW h \in Handlers, Call(h) PROVE FloorInv'
  <2> PICK u \in Users, a \in Amounts :
        \/ CallCredit(h, u, a) \/ CallAdjust(h, u, a)
        \/ CallAdjust(h, u, -a) \/ CallDebit(h, u, a)
    BY <1>1 DEF Call
  <2>1. PICK r \in [op : Ops, user : Users, amount : Int], at \in {"allowed", "tx"} :
           Begin(h, r, at) /\ (r.op = "credit" => r.amount > 0)
    BY AmountsAssumption DEF CallCredit, CallAdjust, CallDebit, Ops
  <2>2. /\ pc[h] = "idle" /\ seen[h] = 0 /\ seen' = seen
        /\ \A k \in Handlers :
             \/ k = h /\ pc'[k] = at /\ req'[k] = r
             \/ pc'[k] = pc[k] /\ req'[k] = req[k]
    BY <2>1 DEF Begin, TypeOK
  <2>3. UNCHANGED <<store, policy>>
    BY <2>1 DEF Begin
  <2>4. \A v \in Users : Floor(v) >= 0
    BY DEF TypeOK
  <2> QED
    BY <2>1, <2>2, <2>3, <2>4 DEF store, policy
<1>2. ASSUME NEW h \in Handlers, ReadAllowed(h) PROVE FloorInv'
  <2>1. UNCHANGED <<store, policy, req, seen>>
    BY <1>2 DEF ReadAllowed
  <2>2. \A k \in Handlers :
          \/ k = h /\ pc[k] = "allowed" /\ seen[k] = 0
                   /\ \/ pc'[k] = "limit" /\ allowed[req[k].user]
                      \/ pc'[k] = "tx"
          \/ pc'[k] = pc[k]
    BY <1>2 DEF ReadAllowed, TypeOK
  <2>3. /\ req[h].user \in Users
        /\ \A v \in Users : Floor(v) >= 0
    BY <1>2 DEF ReadAllowed, TypeOK, Request
  <2> QED
    BY <2>1, <2>2, <2>3 DEF store, policy
<1>3. ASSUME NEW h \in Handlers, ReadLimit(h) PROVE FloorInv'
  <2>1. UNCHANGED <<store, policy, req>>
    BY <1>3 DEF ReadLimit
  <2>2. \A k \in Handlers :
          \/ k = h /\ pc[k] = "limit" /\ pc'[k] = "tx" /\ seen'[k] = limit
          \/ pc'[k] = pc[k] /\ seen'[k] = seen[k]
    BY <1>3 DEF ReadLimit, TypeOK
  <2> QED
    BY <2>1, <2>2 DEF store, policy
<1>4. ASSUME NEW h \in Handlers, CreditTx(h) \/ AdjustTx(h) \/ DebitTx(h)
      PROVE  FloorInv'
  <2> DEFINE u == req[h].user
             n == balance[u] + Delta(req[h])
  <2>1. req[h] \in Request /\ u \in Users /\ req[h].amount \in Int /\ n \in Int
    BY <1>4 DEF CreditTx, AdjustTx, DebitTx, TypeOK, Request, Delta
  <2>2. PICK t : Post(u, t, req[h].amount, n)
    BY <1>4, <2>1 DEF CreditTx, AdjustTx, DebitTx, Delta
  <2>3. Return(h) /\ UNCHANGED policy
    BY <1>4 DEF CreditTx, AdjustTx, DebitTx
  <2>4. n >= -Floor(u)
    <3>1. CASE CreditTx(h)
      <4>1. req[h].amount > 0
        BY <3>1 DEF CreditTx
      <4> QED
        BY <3>1, <4>1, <2>1 DEF CreditTx, Delta, TypeOK
    <3>2. CASE AdjustTx(h) \/ DebitTx(h)
      <4>1. n >= -seen[h] /\ pc[h] = "tx"
        BY <3>2, <2>1 DEF AdjustTx, DebitTx, Delta, TypeOK
      <4>2. seen[h] <= Floor(u)
        BY <4>1
      <4>3. seen[h] \in Int /\ Floor(u) \in Int
        BY DEF TypeOK
      <4> QED
        BY <4>1, <4>2, <4>3, <2>1
    <3> QED
      BY <1>4, <3>1, <3>2
  <2>5. /\ balance'[u] = n
        /\ \A v \in Users \ {u} : balance'[v] = balance[v]
    BY <2>1, <2>2, PostBalance
  <2>6. \A k \in Handlers :
          \/ k = h /\ pc'[k] = "idle" /\ seen'[k] = 0
          \/ pc'[k] = pc[k] /\ req'[k] = req[k] /\ seen'[k] = seen[k]
    BY <2>3 DEF Return, TypeOK
  <2> QED
    BY <2>3, <2>4, <2>5, <2>6 DEF policy
<1>5. ASSUME NEW h \in Handlers, Refuse(h) \/ TxFails(h) PROVE FloorInv'
  <2>1. Return(h) /\ UNCHANGED <<store, policy>>
    BY <1>5 DEF Refuse, TxFails
  <2>2. \A k \in Handlers :
          \/ k = h /\ pc'[k] = "idle" /\ seen'[k] = 0
          \/ pc'[k] = pc[k] /\ req'[k] = req[k] /\ seen'[k] = seen[k]
    BY <2>1 DEF Return, TypeOK
  <2> QED
    BY <2>1, <2>2 DEF store, policy
<1>6. ASSUME NEW u \in Users, NEW b \in BOOLEAN, SetAllowed(u, b) PROVE FloorInv'
  BY <1>6 DEF SetAllowed, TypeOK, store, handling
<1>7. ASSUME NEW n \in Limits, SetLimit(n) PROVE FloorInv'
  BY <1>7, LimitsAssumption DEF SetLimit, TypeOK, store, handling
<1>8. CASE UNCHANGED vars
  BY <1>8 DEF vars
<1> QED
  BY <1>1, <1>2, <1>3, <1>4, <1>5, <1>6, <1>7, <1>8 DEF Next, Proceed

(***************************************************************************)
(* No wallet is ever under what its owner was at some time entitled to     *)
(* owe.  FloorInv adds what a request in flight has already been promised: *)
(* the limit it computed is covered by the history even if the policy has  *)
(* since been tightened.                                                   *)
(***************************************************************************)
THEOREM FloorAlwaysRespected == Spec => []FloorRespected
<1>1. Init => FloorInv
  BY LimitsAssumption
     DEF Init, FloorInv, PolicyBounded, SeenJustified, FloorRespected, Floor
<1>2. TypeOK /\ TypeOK' /\ FloorInv /\ [Next]_vars => FloorInv'
  BY FloorStep
<1>3. FloorInv => FloorRespected
  BY DEF FloorInv
<1> QED
  BY <1>1, <1>2, <1>3, TypeCorrect, PTL DEF Spec

(***************************************************************************)
(* The wallet implements the account, for every user, request, sum and     *)
(* limit: a transaction is one movement, everything else is a stutter or   *)
(* widens the entitlement.                                                 *)
(***************************************************************************)
THEOREM ImplementsAccount == Spec => WalletIsAccount
<1> DEFINE depth == [u \in Users |-> Floor(u)]
<1>1. Init => A!Init
  BY DEF Init, A!Init, Floor
<1>2. TypeOK /\ TypeOK' /\ FloorInv /\ [Next]_vars => [A!Next]_<<balance, depth>>
  <2> SUFFICES ASSUME TypeOK, TypeOK', FloorInv, [Next]_vars
               PROVE  A!Next \/ (balance' = balance /\ depth' = depth)
    OBVIOUS
  <2>1. FloorRespected'
    BY FloorStep DEF FloorInv
  <2>2. ASSUME NEW h \in Handlers, CreditTx(h) \/ AdjustTx(h) \/ DebitTx(h)
        PROVE  A!Next
    <3> DEFINE u == req[h].user
               n == balance[u] + Delta(req[h])
    <3>1. req[h] \in Request /\ u \in Users /\ req[h].amount \in Int /\ n \in Int
      BY <2>2 DEF CreditTx, AdjustTx, DebitTx, TypeOK, Request, Delta
    <3>2. PICK t : Post(u, t, req[h].amount, n)
      BY <2>2, <3>1 DEF CreditTx, AdjustTx, DebitTx, Delta
    <3>3. /\ balance'[u] = n
          /\ \A v \in Users \ {u} : balance'[v] = balance[v]
      BY <3>1, <3>2, PostBalance
    <3>4. UNCHANGED policy
      BY <2>2 DEF CreditTx, AdjustTx, DebitTx
    <3>5. \A v \in Users : Floor(v)' = Floor(v)
      BY <3>4 DEF policy, Floor
    <3>6. balance'[u] >= -depth[u]
      BY <2>1, <3>1, <3>5 DEF FloorRespected
    <3>7. A!Move(u)
      BY <3>1, <3>3, <3>5, <3>6 DEF A!Move, TypeOK
    <3> QED
      BY <3>1, <3>7 DEF A!Next
  <2>3. ASSUME UNCHANGED balance, UNCHANGED policy
        PROVE  balance' = balance /\ depth' = depth
    BY <2>3 DEF policy, Floor
  <2>4. ASSUME UNCHANGED store, limit' \in Nat, everAllowed \subseteq everAllowed',
               peak' >= peak
        PROVE  A!Next
    <3>1. \A v \in Users : Floor(v)' \in Nat /\ Floor(v)' >= Floor(v)
      BY <2>4 DEF Floor, TypeOK
    <3> QED
      BY <2>4, <3>1 DEF A!Next, A!Widen, store
  <2>5. ASSUME NEW h \in Handlers, Call(h) PROVE UNCHANGED balance /\ UNCHANGED policy
    BY <2>5 DEF Call, CallCredit, CallAdjust, CallDebit, Begin, store
  <2>6. ASSUME NEW h \in Handlers,
               ReadAllowed(h) \/ ReadLimit(h) \/ Refuse(h) \/ TxFails(h)
        PROVE  UNCHANGED balance /\ UNCHANGED policy
    BY <2>6 DEF ReadAllowed, ReadLimit, Refuse, TxFails, store
  <2>7. ASSUME NEW u \in Users, NEW b \in BOOLEAN, SetAllowed(u, b) PROVE A!Next
    BY <2>4, <2>7 DEF SetAllowed, TypeOK
  <2>8. ASSUME NEW n \in Limits, SetLimit(n) PROVE A!Next
    BY <2>4, <2>8, LimitsAssumption DEF SetLimit, TypeOK
  <2>9. CASE UNCHANGED vars
    BY <2>3, <2>9 DEF vars, policy
  <2> QED
    BY <2>2, <2>3, <2>5, <2>6, <2>7, <2>8, <2>9 DEF Next, Proceed
<1>3. Init => FloorInv
  BY LimitsAssumption
     DEF Init, FloorInv, PolicyBounded, SeenJustified, FloorRespected, Floor
<1>4. TypeOK /\ TypeOK' /\ FloorInv /\ [Next]_vars => FloorInv'
  BY FloorStep
<1> QED
  BY <1>1, <1>2, <1>3, <1>4, TypeCorrect, PTL DEF Spec, WalletIsAccount, A!Spec


-----------------------------------------------------------------------------
(* Appending the row of a transaction that moved the balance keeps the     *)
(* ledger a chain that ends at the balance.                                *)
LEMMA PostChains ==
  ASSUME TypeOK, LedgerChained, NEW u \in Users,
         NEW t \in {"charge", "adjust", "purchase"}, NEW a \in Int,
         Post(u, t, a, balance[u] + (IF t = "purchase" THEN -a ELSE a))
  PROVE  LedgerChained'
<1> DEFINE n == balance[u] + (IF t = "purchase" THEN -a ELSE a)
           row == [type |-> t, amount |-> a, before |-> balance[u], after |-> n]
           old == ledger[u]
           new == ledger'[u]
<1>1. old \in Seq(Row) /\ row \in Row /\ balance[u] \in Int
  BY DEF TypeOK, Row
<1>2. /\ new = Append(old, row)
      /\ balance'[u] = n
      /\ \A v \in Users \ {u} : ledger'[v] = ledger[v] /\ balance'[v] = balance[v]
  BY DEF Post, TypeOK
<1>3. /\ Len(old) \in Nat
      /\ Len(new) = Len(old) + 1
      /\ \A i \in 1..Len(old) : new[i] = old[i]
      /\ new[Len(old) + 1] = row
  BY <1>1, <1>2
<1>4. row.before = Opening(u, Len(old) + 1)
  BY DEF LedgerChained
<1>5. row.after = row.before + Moved(row)
  BY <1>1 DEF Moved
<1>6. \A i \in 1..(Len(new) + 1) :
        Opening(u, i)' = IF i = Len(new) + 1 THEN n ELSE Opening(u, i)
  <2> TAKE i \in 1..(Len(new) + 1)
  <2>1. CASE i = 1
    BY <2>1, <1>3 DEF Opening
  <2>2. CASE i # 1 /\ i = Len(new) + 1
    BY <2>2, <1>3 DEF Opening
  <2>3. CASE i # 1 /\ i # Len(new) + 1
    <3>1. i - 1 \in 1..Len(old)
      BY <2>3, <1>3
    <3> QED
      BY <2>3, <3>1, <1>3 DEF Opening
  <2> QED
    BY <2>1, <2>2, <2>3
<1>7. \A i \in 1..Len(new) :
        /\ new[i].before = Opening(u, i)'
        /\ new[i].after = new[i].before + Moved(new[i])
  <2> TAKE i \in 1..Len(new)
  <2>1. CASE i = Len(old) + 1
    BY <2>1, <1>3, <1>4, <1>5, <1>6
  <2>2. CASE i \in 1..Len(old)
    <3>1. new[i] = old[i] /\ Opening(u, i)' = Opening(u, i)
      BY <2>2, <1>3, <1>6
    <3> QED
      BY <2>2, <3>1 DEF LedgerChained
  <2> QED
    BY <2>1, <2>2, <1>3
<1>8. balance'[u] = Opening(u, Len(ledger[u]) + 1)'
  <2>1. Len(new) + 1 \in 1..(Len(new) + 1)
    BY <1>3
  <2>2. \A i : i = Len(new) + 1 => balance'[u] = Opening(u, i)'
    BY <1>2, <1>6, <2>1
  <2> QED
    BY <2>2
<1>9. \A v \in Users \ {u} :
        /\ \A i \in 1..Len(ledger'[v]) :
             /\ ledger'[v][i].before = Opening(v, i)'
             /\ ledger'[v][i].after = ledger'[v][i].before + Moved(ledger'[v][i])
        /\ balance'[v] = Opening(v, Len(ledger[v]) + 1)'
  <2> TAKE v \in Users \ {u}
  <2>1. ledger'[v] = ledger[v] /\ balance'[v] = balance[v]
    BY <1>2
  <2>2. \A i : Opening(v, i)' = Opening(v, i)
    BY <2>1 DEF Opening
  <2>3. \A i \in 1..Len(ledger[v]) :
          /\ ledger[v][i].before = Opening(v, i)
          /\ ledger[v][i].after = ledger[v][i].before + Moved(ledger[v][i])
    BY DEF LedgerChained
  <2>4. \A i : i = Len(ledger'[v]) + 1 => balance'[v] = Opening(v, i)'
    BY <2>1, <2>2 DEF LedgerChained
  <2> QED
    BY <2>1, <2>2, <2>3, <2>4
<1> QED
  BY <1>7, <1>8, <1>9 DEF LedgerChained, Moved

(***************************************************************************)
(* The ledger always explains the balance, whatever requests interleave:   *)
(* the chain is inductive because balance and row are written by one       *)
(* transaction that also read the balance.                                 *)
(***************************************************************************)
THEOREM LedgerAlwaysChained == Spec => []LedgerChained
<1>1. Init => LedgerChained
  <2> SUFFICES ASSUME Init, NEW u \in Users
               PROVE  /\ \A i \in 1..Len(ledger[u]) :
                           /\ ledger[u][i].before = Opening(u, i)
                           /\ ledger[u][i].after = ledger[u][i].before
                                                     + Moved(ledger[u][i])
                      /\ balance[u] = Opening(u, Len(ledger[u]) + 1)
    BY Zenon DEF LedgerChained
  <2>1. Len(ledger[u]) = 0 /\ balance[u] = 0
    BY DEF Init
  <2> QED
    BY <2>1 DEF Opening
<1>2. TypeOK /\ LedgerChained /\ [Next]_vars => LedgerChained'
  <2> SUFFICES ASSUME TypeOK, LedgerChained, [Next]_vars PROVE LedgerChained'
    OBVIOUS
  <2>1. ASSUME NEW h \in Handlers, CreditTx(h) \/ AdjustTx(h) \/ DebitTx(h)
        PROVE  LedgerChained'
    <3>1. /\ req[h].user \in Users
          /\ req[h].amount \in Int
          /\ balance[req[h].user] \in Int
      BY <2>1 DEF CreditTx, AdjustTx, DebitTx, TypeOK, Request
    <3>2. PICK t \in {"charge", "adjust", "purchase"} :
            Post(req[h].user, t, req[h].amount,
                 balance[req[h].user]
                   + (IF t = "purchase" THEN -req[h].amount ELSE req[h].amount))
      BY <2>1, <3>1 DEF CreditTx, AdjustTx, DebitTx
    <3> QED
      BY <3>1, <3>2, PostChains
  <2>2. CASE UNCHANGED store
    BY <2>2 DEF store, LedgerChained, Opening
  <2>3. CASE UNCHANGED vars
    BY <2>2, <2>3 DEF vars, store
  <2> QED
    BY <2>1, <2>2, <2>3
       DEF Next, Call, CallCredit, CallAdjust, CallDebit, Begin, Proceed, ReadAllowed,
           ReadLimit, Refuse, TxFails, SetAllowed, SetLimit
<1> QED
  BY <1>1, <1>2, TypeCorrect, PTL DEF Spec
=============================================================================
