------------------------------- MODULE Wallet -------------------------------
(***************************************************************************)
(* The wallet service (services/wallet.ts) with the credit-limit lookup of *)
(* services/negative-credit.ts.  A wallet is a balance and a ledger of     *)
(* rows, both written by one database transaction.  The limit a debit may  *)
(* overdraw to is read BEFORE that transaction, in two awaited reads       *)
(* (User.negativeCreditAllowed, then the setting negative_credit_limit);   *)
(* an administrator may change either between the reads and the            *)
(* transaction.  A handler is one request in flight.                       *)
(***************************************************************************)
EXTENDS Integers, Sequences

CONSTANTS
  Users,       \* wallet owners
  Handlers,    \* requests the process may have in flight at the same time
  Amounts,     \* sizes of the sums moved (toman)
  Limits,      \* values the setting negative_credit_limit takes
  MaxRows,     \* bound: ledger rows per user
  NoRequest    \* what an idle handler works on

Ops == {"credit", "adjust", "debit"}
Request == [op : Ops, user : Users, amount : Int]

ASSUME AmountsAssumption == Amounts \subseteq Nat \ {0}
ASSUME LimitsAssumption == Limits \subseteq Nat /\ Limits # {}
ASSUME MaxRowsAssumption == MaxRows \in Nat
ASSUME NoRequestAssumption == NoRequest \notin Request

VARIABLES
  balance,     \* Wallet.balance of each user
  ledger,      \* WalletTransaction rows of each user, oldest first
  allowed,     \* User.negativeCreditAllowed
  limit,       \* the setting negative_credit_limit
  pc,          \* where each handler's code stands
  req,         \* the call each handler serves
  seen,        \* the creditLimit each handler has computed
  everAllowed, \* history: users who were ever allowed negative credit
  peak         \* history: the largest limit ever set

store == <<balance, ledger>>
policy == <<allowed, limit, everAllowed, peak>>
handling == <<pc, req, seen>>
vars == <<balance, ledger, allowed, limit, pc, req, seen, everAllowed, peak>>

Row == [type : {"charge", "adjust", "purchase"},
        amount : Int, before : Int, after : Int]

TypeOK ==
  /\ balance \in [Users -> Int]
  /\ ledger \in [Users -> Seq(Row)]
  /\ allowed \in [Users -> BOOLEAN]
  /\ limit \in Nat
  /\ pc \in [Handlers -> {"idle", "allowed", "limit", "tx"}]
  /\ req \in [Handlers -> Request \cup {NoRequest}]
  /\ seen \in [Handlers -> Nat]
  /\ everAllowed \in SUBSET Users
  /\ peak \in Nat
  /\ \A h \in Handlers : pc[h] # "idle" => req[h] \in Request

Init ==
  /\ balance = [u \in Users |-> 0]
  /\ ledger = [u \in Users |-> <<>>]
  /\ allowed = [u \in Users |-> FALSE]
  /\ limit \in Limits
  /\ pc = [h \in Handlers |-> "idle"]
  /\ req = [h \in Handlers |-> NoRequest]
  /\ seen = [h \in Handlers |-> 0]
  /\ everAllowed = {}
  /\ peak = limit

-----------------------------------------------------------------------------
(* Calls arrive.                                                           *)

Begin(h, r, at) ==
  /\ pc[h] = "idle"
  /\ req' = [req EXCEPT ![h] = r]
  /\ pc' = [pc EXCEPT ![h] = at]
  /\ UNCHANGED <<store, policy, seen>>

\* creditWallet goes straight to its transaction.
CallCredit(h, u, a) ==
  Begin(h, [op |-> "credit", user |-> u, amount |-> a], "tx")

\* adjustWallet looks the limit up only for a negative amount.
CallAdjust(h, u, a) ==
  Begin(h, [op |-> "adjust", user |-> u, amount |-> a],
        IF a < 0 THEN "allowed" ELSE "tx")

CallDebit(h, u, a) ==
  Begin(h, [op |-> "debit", user |-> u, amount |-> a], "allowed")

-----------------------------------------------------------------------------
(* getUserNegativeCreditLimit: the user row, then the setting.             *)

ReadAllowedIgnored(h) ==
  /\ pc[h] = "allowed"
  /\ pc' = [pc EXCEPT ![h] = "limit"]
  /\ UNCHANGED <<store, policy, req, seen>>

ReadAllowed(h) ==
  /\ pc[h] = "allowed"
  /\ pc' = [pc EXCEPT ![h] = IF allowed[req[h].user] THEN "limit" ELSE "tx"]
  /\ UNCHANGED <<store, policy, req, seen>>

ReadLimit(h) ==
  /\ pc[h] = "limit"
  /\ pc' = [pc EXCEPT ![h] = "tx"]
  /\ seen' = [seen EXCEPT ![h] = limit]
  /\ UNCHANGED <<store, policy, req>>

-----------------------------------------------------------------------------
(* The transactions.                                                       *)

ReturnStillRunning(h) ==
  /\ req' = [req EXCEPT ![h] = NoRequest]
  /\ seen' = [seen EXCEPT ![h] = 0]
  /\ UNCHANGED pc

Return(h) ==
  /\ pc' = [pc EXCEPT ![h] = "idle"]
  /\ req' = [req EXCEPT ![h] = NoRequest]
  /\ seen' = [seen EXCEPT ![h] = 0]

\* Reads the balance, writes it and appends the row that documents it.
Post(u, type, amount, next) ==
  /\ Len(ledger[u]) < MaxRows
  /\ balance' = [balance EXCEPT ![u] = next]
  /\ ledger' = [ledger EXCEPT ![u] =
       Append(@, [type |-> type, amount |-> amount,
                  before |-> balance[u], after |-> next])]

CreditTx(h) ==
  /\ pc[h] = "tx" /\ req[h].op = "credit"
  /\ Post(req[h].user, "charge", req[h].amount,
          balance[req[h].user] + req[h].amount)
  /\ Return(h)
  /\ UNCHANGED policy

AdjustTx(h) ==
  /\ pc[h] = "tx" /\ req[h].op = "adjust"
  /\ balance[req[h].user] + req[h].amount >= -seen[h]
  /\ Post(req[h].user, "adjust", req[h].amount,
          balance[req[h].user] + req[h].amount)
  /\ Return(h)
  /\ UNCHANGED policy

DebitTxSignedRow(h) ==
  /\ pc[h] = "tx" /\ req[h].op = "debit"
  /\ balance[req[h].user] - req[h].amount >= -seen[h]
  /\ Post(req[h].user, "purchase", -req[h].amount,
          balance[req[h].user] - req[h].amount)
  /\ Return(h)
  /\ UNCHANGED policy

DebitTx(h) ==
  /\ pc[h] = "tx" /\ req[h].op = "debit"
  /\ balance[req[h].user] - req[h].amount >= -seen[h]
  /\ Post(req[h].user, "purchase", req[h].amount,
          balance[req[h].user] - req[h].amount)
  /\ Return(h)
  /\ UNCHANGED policy

\* The balance the transaction would write.
Delta(r) == IF r.op = "debit" THEN -r.amount ELSE r.amount

\* adjustWallet and debitWallet throw when the new balance is under the limit.
Refuse(h) ==
  /\ pc[h] = "tx" /\ req[h].op \in {"adjust", "debit"}
  /\ balance[req[h].user] + Delta(req[h]) < -seen[h]
  /\ Return(h)
  /\ UNCHANGED <<store, policy>>

\* The database may refuse any transaction (busy or timed out): all of it.
TxFails(h) ==
  /\ pc[h] = "tx"
  /\ Return(h)
  /\ UNCHANGED <<store, policy>>

-----------------------------------------------------------------------------
(* Administrators change who may owe, and how much.                        *)

SetAllowed(u, b) ==
  /\ allowed' = [allowed EXCEPT ![u] = b]
  /\ everAllowed' = IF b THEN everAllowed \cup {u} ELSE everAllowed
  /\ UNCHANGED <<store, handling, limit, peak>>

SetLimit(n) ==
  /\ limit' = n
  /\ peak' = IF n > peak THEN n ELSE peak
  /\ UNCHANGED <<store, handling, allowed, everAllowed>>

Call(h) == \E u \in Users, a \in Amounts :
  \/ CallCredit(h, u, a)
  \/ CallAdjust(h, u, a)
  \/ CallAdjust(h, u, -a)
  \/ CallDebit(h, u, a)

Proceed(h) ==
  \/ ReadAllowed(h) \/ ReadLimit(h)
  \/ CreditTx(h) \/ AdjustTx(h) \/ DebitTx(h) \/ Refuse(h) \/ TxFails(h)

Next ==
  \/ \E h \in Handlers : Call(h) \/ Proceed(h)
  \/ \E u \in Users, b \in BOOLEAN : SetAllowed(u, b)
  \/ \E n \in Limits : SetLimit(n)

Spec == Init /\ [][Next]_vars

-----------------------------------------------------------------------------
(* The deepest a wallet may ever have been: nobody who was never allowed   *)
(* negative credit owes anything, and the others owe at most the largest   *)
(* limit there has been.                                                   *)
Floor(u) == IF u \in everAllowed THEN peak ELSE 0

(***************************************************************************)
(* No interleaving of debits, adjustments, revocations and limit changes   *)
(* takes a balance under what the user was at some time entitled to, even  *)
(* though debitWallet decides with a limit read before its transaction     *)
(* (wallet.ts:85).                                                         *)
(***************************************************************************)
FloorRespected == \A u \in Users : balance[u] >= -Floor(u)

(* What makes FloorRespected inductive: the history bounds the present     *)
(* policy, credits are positive, and a request in flight computed its      *)
(* limit from the history.                                                 *)
PolicyBounded ==
  /\ limit <= peak
  /\ \A u \in Users : allowed[u] => u \in everAllowed

SeenJustified == \A h \in Handlers :
  /\ pc[h] = "limit" => req[h].user \in everAllowed
  /\ pc[h] # "tx" => seen[h] = 0
  /\ pc[h] = "tx" => seen[h] <= Floor(req[h].user)
  /\ pc[h] # "idle" /\ req[h].op = "credit" => req[h].amount > 0

FloorInv == PolicyBounded /\ SeenJustified /\ FloorRespected

(***************************************************************************)
(* The wallet implements the account: reads, transactions, refusals and    *)
(* changes of policy by any number of requests add up to single movements  *)
(* inside the entitlement (wallet.ts:82), which only ever widens.          *)
(***************************************************************************)
A == INSTANCE Account WITH depth <- [u \in Users |-> Floor(u)]
WalletIsAccount == A!Spec

\* What a row says it moved, signed by its type (debits store |amount|).
Moved(row) == IF row.type = "purchase" THEN -row.amount ELSE row.amount

\* Balance before row i of u: the balance after the row before it.
Opening(u, i) == IF i = 1 THEN 0 ELSE ledger[u][i - 1].after

(***************************************************************************)
(* The ledger is an audit trail: each row starts where the previous one    *)
(* ended, moves what it says, and the last one ends at the balance.  A     *)
(* balance read outside the transaction would break the chain.             *)
(***************************************************************************)
LedgerChained == \A u \in Users :
  /\ \A i \in 1..Len(ledger[u]) :
       /\ ledger[u][i].before = Opening(u, i)
       /\ ledger[u][i].after = ledger[u][i].before + Moved(ledger[u][i])
  /\ balance[u] = Opening(u, Len(ledger[u]) + 1)
=============================================================================
