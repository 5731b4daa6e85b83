----------------------------- MODULE Settlement -----------------------------
(***************************************************************************)
(* Buying on negative credit (services/negative-credit.ts): a wallet       *)
(* purchase that ends in debt flags the accounts it paid for as unsettled  *)
(* and gives them a deadline; a top-up that ends the debt clears the       *)
(* flags; a timer disables and holds the accounts whose deadline passed;   *)
(* the owner may switch his accounts on and off.  The module follows one   *)
(* user with his wallet and his accounts, both the row in the database and *)
(* the client on the panel.                                                *)
(***************************************************************************)
EXTENDS Naturals, Integers

CONSTANTS
  Accounts,     \* the user's subscriptions
  Handlers,     \* requests the process may have in flight at the same time
  Sums,         \* prices and top-ups
  Limit,        \* his negative-credit limit
  Grace,        \* negative_credit_grace_hours
  CardRenewals, \* whether renewals paid by card are approved meanwhile
  MaxTime,      \* bound: the clock
  MaxRequests,  \* bound: requests started
  MaxFaults,    \* bound: panel calls failed and restarts
  NoDeadline,   \* an unsettledDeadline of null
  NoAccount     \* what an idle handler works on

ASSUME SumsAssumption == Sums \subseteq Nat \ {0} /\ Limit \in Nat
ASSUME TimeAssumption == Grace \in Nat \ {0} /\ NoDeadline \notin Nat
ASSUME BoundAssumption == MaxTime \in Nat /\ MaxRequests \in Nat /\ MaxFaults \in Nat
ASSUME NoAccountAssumption == NoAccount \notin Accounts

VARIABLES
  balance,    \* Wallet.balance
  unsettled,  \* Subscription.unsettled
  deadline,   \* Subscription.unsettledDeadline
  held,       \* Subscription.unsettledHeld
  active,     \* Subscription.status is not disabled
  enabled,    \* client.enable on the panel
  pc,         \* the await each handler stands at
  on,         \* the account each handler works on
  row,        \* the row a toggle has read
  turnOn,     \* whether a toggle is switching the account on
  cron,       \* where the timer's tick stands
  due,        \* the accounts the tick still has to take up
  target,     \* the account the tick is disabling
  now,        \* bounded: the clock
  excuse,     \* history: why the present debt may have flagged nothing
  astray,     \* history: accounts whose flag a settlement has missed
  requests,   \* bounded: requests started
  faults      \* bounded: panel calls failed and restarts

flags == <<unsettled, deadline, held>>
state == <<active, enabled>>
handling == <<pc, on, row, turnOn>>
timer == <<cron, due, target>>
history == <<excuse, astray, now, requests, faults>>
vars == <<balance, flags, state, handling, timer, history>>

Rows == [unsettled : BOOLEAN, held : BOOLEAN, deadline : Nat \cup {NoDeadline}]
EmptyRow == [unsettled |-> FALSE, held |-> FALSE, deadline |-> NoDeadline]

Labels == {"idle", "buyPanel", "cardPanel", "buyRow", "cardRow", "balance", "mark",
           "clear", "client", "check", "switch", "switchRow"}

\* Where a purchase stands from its debit to the flags.
Buying == {"buyPanel", "buyRow", "balance", "mark"}

TypeOK ==
  /\ balance \in Int
  /\ unsettled \in [Accounts -> BOOLEAN]
  /\ deadline \in [Accounts -> Nat \cup {NoDeadline}]
  /\ held \in [Accounts -> BOOLEAN]
  /\ active \in [Accounts -> BOOLEAN]
  /\ enabled \in [Accounts -> BOOLEAN]
  /\ pc \in [Handlers -> Labels]
  /\ on \in [Handlers -> Accounts \cup {NoAccount}]
  /\ row \in [Handlers -> Rows]
  /\ turnOn \in [Handlers -> BOOLEAN]
  /\ cron \in {"idle", "panel", "row", "hold"}
  /\ due \in SUBSET Accounts
  /\ target \in Accounts \cup {NoAccount}
  /\ now \in Nat
  /\ excuse \in {"none", "bare", "late", "failed"}
  /\ astray \in SUBSET Accounts
  /\ requests \in Nat
  /\ faults \in Nat
  /\ \A h \in Handlers : pc[h] \notin {"idle", "clear"} => on[h] \in Accounts
  /\ cron \in {"row", "hold"} => target \in Accounts

Init ==
  /\ balance = 0
  /\ unsettled = [s \in Accounts |-> FALSE]
  /\ deadline = [s \in Accounts |-> NoDeadline]
  /\ held = [s \in Accounts |-> FALSE]
  /\ active = [s \in Accounts |-> TRUE]
  /\ enabled = [s \in Accounts |-> TRUE]
  /\ pc = [h \in Handlers |-> "idle"]
  /\ on = [h \in Handlers |-> NoAccount]
  /\ row = [h \in Handlers |-> EmptyRow]
  /\ turnOn = [h \in Handlers |-> FALSE]
  /\ cron = "idle"
  /\ due = {}
  /\ target = NoAccount
  /\ now = 0
  /\ excuse = "none"
  /\ astray = {}
  /\ requests = 0
  /\ faults = 0

Past(d) == d # NoDeadline /\ d <= now

-----------------------------------------------------------------------------
(* Starting, moving and ending a request.                                  *)

Arrive(h) ==
  /\ pc[h] = "idle" /\ requests < MaxRequests
  /\ requests' = requests + 1

Enter(h, s, at) ==
  /\ Arrive(h)
  /\ pc' = [pc EXCEPT ![h] = at]
  /\ on' = [on EXCEPT ![h] = s]

Goto(h, at) == pc' = [pc EXCEPT ![h] = at] /\ UNCHANGED on

Finish(h) ==
  /\ pc' = [pc EXCEPT ![h] = "idle"]
  /\ on' = [on EXCEPT ![h] = NoAccount]
  /\ row' = [row EXCEPT ![h] = EmptyRow]
  /\ turnOn' = [turnOn EXCEPT ![h] = FALSE]

Keep == UNCHANGED <<row, turnOn>>

-----------------------------------------------------------------------------
(* Buying and renewing: the panel client, the row, then the flags.         *)

\* payOrderWithWallet has debited the wallet; the renewal of s follows, or is
\* queued for a pasted link or for the end of the present package.
Buy(h, s) == \E price \in Sums, at \in {"buyPanel", "balance"} :
  /\ Enter(h, s, at) /\ Keep
  /\ balance - price >= -Limit
  /\ balance' = balance - price
  /\ excuse' = IF balance >= 0 THEN "none" ELSE excuse
  /\ UNCHANGED <<flags, state, timer, astray, now, faults>>

\* A debit that begins a debt no account stands for.
Bare == IF balance >= 0 /\ balance' < 0 THEN "bare" ELSE excuse

\* A new order that waits for a pasted link has no account yet: the purchase finds
\* no id to flag and returns, and the delivery does not come back to it.
BuyByHand(h) == \E price \in Sums :
  /\ Arrive(h)
  /\ balance - price >= -Limit
  /\ balance' = balance - price
  /\ excuse' = Bare
  /\ UNCHANGED <<handling, flags, state, timer, astray, now, faults>>

\* A renewal paid by card and approved.
RenewByCard(h, s) ==
  /\ CardRenewals
  /\ Enter(h, s, "cardPanel") /\ Keep
  /\ UNCHANGED <<balance, flags, state, timer, excuse, astray, now, faults>>

\* renewSubscription: updateClient, enabled whatever it was.
RenewClient(h) ==
  /\ pc[h] \in {"buyPanel", "cardPanel"}
  /\ enabled' = [enabled EXCEPT ![on[h]] = TRUE]
  /\ Goto(h, IF pc[h] = "buyPanel" THEN "buyRow" ELSE "cardRow") /\ Keep
  /\ UNCHANGED <<balance, flags, active, timer, history>>

\* renewSubscription: the row, active and with its flags as they were.
RenewRow(h) ==
  /\ pc[h] \in {"buyRow", "cardRow"}
  /\ active' = [active EXCEPT ![on[h]] = TRUE]
  /\ IF pc[h] = "buyRow" THEN Goto(h, "balance") /\ Keep ELSE Finish(h)
  /\ UNCHANGED <<balance, flags, enabled, timer, history>>

ReadBalanceAgainstLimit(h) ==
  /\ pc[h] = "balance"
  /\ IF balance < -Limit THEN Goto(h, "mark") /\ Keep ELSE Finish(h)
  /\ UNCHANGED <<balance, flags, state, timer, history>>

\* markUnsettledFromWalletPurchase reads the balance ...
ReadBalance(h) ==
  /\ pc[h] = "balance"
  /\ IF balance < 0 THEN Goto(h, "mark") /\ Keep ELSE Finish(h)
  /\ UNCHANGED <<balance, flags, state, timer, history>>

MarkWithoutDeadline(h) ==
  /\ pc[h] = "mark"
  /\ unsettled' = [unsettled EXCEPT ![on[h]] = TRUE]
  /\ excuse' = "none"
  /\ astray' = IF balance < 0 THEN astray \ {on[h]} ELSE astray \cup {on[h]}
  /\ Finish(h)
  /\ UNCHANGED <<balance, deadline, held, state, timer, now, requests, faults>>

\* ... and flags the account, with a deadline from this moment.
Mark(h) ==
  /\ pc[h] = "mark"
  /\ unsettled' = [unsettled EXCEPT ![on[h]] = TRUE]
  /\ deadline' = [deadline EXCEPT ![on[h]] = now + Grace]
  /\ held' = [held EXCEPT ![on[h]] = FALSE]
  /\ excuse' = "none"
  /\ astray' = IF balance < 0 THEN astray \ {on[h]} ELSE astray \cup {on[h]}
  /\ Finish(h)
  /\ UNCHANGED <<balance, state, timer, now, requests, faults>>

-----------------------------------------------------------------------------
(* Moving the balance by hand: the sum, then the flags.                    *)

\* What creditWallet and adjustWallet share: a balance still in debt ends the
\* request there.
Adjust(h, amount) ==
  /\ Arrive(h)
  /\ balance' = balance + amount
  /\ pc' = [pc EXCEPT ![h] = IF balance' >= 0 THEN "clear" ELSE "idle"]
  /\ excuse' = Bare
  /\ UNCHANGED <<on, row, turnOn, flags, state, timer, astray, now, faults>>

TopUpNeverClears(h) == \E amount \in Sums :
  /\ Arrive(h)
  /\ balance' = balance + amount
  /\ UNCHANGED <<flags, state, handling, timer, excuse, astray, now, faults>>

\* A charge that is approved, or an administrator's credit.
TopUp(h) == \E amount \in Sums : Adjust(h, amount)

\* An administrator's deduction: the limit holds, but nothing is flagged.
Deduct(h) == \E amount \in Sums :
  balance - amount >= -Limit /\ Adjust(h, -amount)

\* clearUnsettledAfterSettlement, decided by the balance the credit left.
Clear(h) ==
  /\ pc[h] = "clear"
  /\ unsettled' = [s \in Accounts |-> FALSE]
  /\ deadline' = [s \in Accounts |-> IF unsettled[s] THEN NoDeadline ELSE deadline[s]]
  /\ held' = [s \in Accounts |-> held[s] /\ ~unsettled[s]]
  /\ excuse' = IF balance < 0 THEN "late" ELSE excuse
  /\ astray' = {}
  /\ Finish(h)
  /\ UNCHANGED <<balance, state, timer, now, requests, faults>>

-----------------------------------------------------------------------------
(* Switching an account on or off.                                         *)

\* toggleSubscriptionEnabled reads the row.
Toggle(h, s) ==
  /\ Enter(h, s, "client")
  /\ row' = [row EXCEPT ![h] = [unsettled |-> unsettled[s], held |-> held[s],
                                deadline |-> deadline[s]]]
  /\ UNCHANGED <<balance, flags, state, turnOn, timer, excuse, astray, now, faults>>

\* It reads the panel client; switching off, or an unflagged account, needs no check.
ReadClient(h) ==
  /\ pc[h] = "client"
  /\ turnOn' = [turnOn EXCEPT ![h] = ~enabled[on[h]]]
  /\ Goto(h, IF ~enabled[on[h]] /\ (row[h].unsettled \/ row[h].held)
               THEN "check" ELSE "switch")
  /\ UNCHANGED <<balance, flags, state, row, timer, history>>

\* assertCanEnableSubscription: refused while in debt and past the deadline.
CheckMayEnable(h) ==
  /\ pc[h] = "check"
  /\ IF row[h].unsettled /\ balance < 0 /\ (row[h].held \/ Past(row[h].deadline))
       THEN Finish(h)
       ELSE Goto(h, "switch") /\ Keep
  /\ UNCHANGED <<balance, flags, state, timer, history>>

SwitchClient(h) ==
  /\ pc[h] = "switch"
  /\ enabled' = [enabled EXCEPT ![on[h]] = turnOn[h]]
  /\ Goto(h, "switchRow") /\ Keep
  /\ UNCHANGED <<balance, flags, active, timer, history>>

SwitchRow(h) ==
  /\ pc[h] = "switchRow"
  /\ active' = [active EXCEPT ![on[h]] = turnOn[h]]
  /\ Finish(h)
  /\ UNCHANGED <<balance, flags, enabled, timer, history>>

-----------------------------------------------------------------------------
(* The timer: disableOverdueUnsettledAccounts, account after account.      *)

Overdue(s) == unsettled[s] /\ ~held[s] /\ Past(deadline[s]) /\ active[s]

FindDue ==
  /\ cron = "idle"
  /\ \E s \in Accounts : Overdue(s)
  /\ due' = {s \in Accounts : Overdue(s)}
  /\ cron' = "panel"
  /\ UNCHANGED <<balance, flags, state, handling, target, history>>

\* setPanelEnable: the panel client of the next account, then its row.
DisableClient(s) ==
  /\ cron = "panel" /\ s \in due
  /\ enabled' = [enabled EXCEPT ![s] = FALSE]
  /\ due' = due \ {s}
  /\ target' = s
  /\ cron' = "row"
  /\ UNCHANGED <<balance, flags, active, handling, history>>

DisableRow ==
  /\ cron = "row"
  /\ active' = [active EXCEPT ![target] = FALSE]
  /\ cron' = "hold"
  /\ UNCHANGED <<balance, flags, enabled, handling, due, target, history>>

NextDueSkipsClient == cron' = (IF due' = {} THEN "idle" ELSE "row") /\ target' = NoAccount

NextDue == cron' = (IF due' = {} THEN "idle" ELSE "panel") /\ target' = NoAccount

\* The account is marked held, whatever became of its debt meanwhile.
Hold ==
  /\ cron = "hold"
  /\ active' = [active EXCEPT ![target] = FALSE]
  /\ held' = [held EXCEPT ![target] = TRUE]
  /\ due' = due /\ NextDue
  /\ UNCHANGED <<balance, unsettled, deadline, enabled, handling, history>>

-----------------------------------------------------------------------------
(* Faults and time.                                                        *)

\* What a request leaves behind that ends before the flags are right.
Abandons(H) ==
  /\ excuse' = IF balance < 0 /\ (\E h \in H : pc[h] \in Buying) THEN "failed"
               ELSE excuse
  /\ astray' = IF \E h \in H : pc[h] = "clear"
                 THEN astray \cup {s \in Accounts : unsettled[s]} ELSE astray

\* The panel does not answer, and the error leaves the request; or the database
\* refuses what would set or clear the flags, and the error is swallowed.
RequestFails(h) ==
  /\ faults < MaxFaults /\ faults' = faults + 1
  /\ pc[h] \in {"buyPanel", "cardPanel", "client", "switch", "balance", "mark", "clear"}
  /\ Abandons({h}) /\ Finish(h)
  /\ UNCHANGED <<balance, flags, state, timer, now, requests>>

\* The tick goes on to the next account.
DisableFails(s) ==
  /\ faults < MaxFaults /\ faults' = faults + 1
  /\ cron = "panel" /\ s \in due
  /\ due' = due \ {s} /\ NextDue
  /\ UNCHANGED <<balance, flags, state, handling, excuse, astray, now, requests>>

\* A restart forgets the requests and the tick.
Crash ==
  /\ faults < MaxFaults /\ faults' = faults + 1
  /\ Abandons(Handlers)
  /\ pc' = [h \in Handlers |-> "idle"]
  /\ on' = [h \in Handlers |-> NoAccount]
  /\ row' = [h \in Handlers |-> EmptyRow]
  /\ turnOn' = [h \in Handlers |-> FALSE]
  /\ cron' = "idle" /\ due' = {} /\ target' = NoAccount
  /\ UNCHANGED <<balance, flags, state, now, requests>>

Tick ==
  /\ now < MaxTime
  /\ now' = now + 1
  /\ UNCHANGED <<balance, flags, state, handling, timer, excuse, astray, requests,
                 faults>>

Start(h) ==
  \/ TopUp(h) \/ Deduct(h) \/ BuyByHand(h)
  \/ \E s \in Accounts : Buy(h, s) \/ RenewByCard(h, s) \/ Toggle(h, s)

Proceed(h) ==
  \/ RenewClient(h) \/ RenewRow(h) \/ ReadBalance(h) \/ Mark(h) \/ Clear(h)
  \/ ReadClient(h) \/ CheckMayEnable(h) \/ SwitchClient(h) \/ SwitchRow(h)

Cron ==
  \/ FindDue \/ DisableRow \/ Hold
  \/ \E s \in Accounts : DisableClient(s)

Next ==
  \/ \E h \in Handlers : Start(h) \/ Proceed(h) \/ RequestFails(h)
  \/ Cron
  \/ \E s \in Accounts : DisableFails(s)
  \/ Crash
  \/ Tick

Spec == Init /\ [][Next]_vars

\* setInterval starts a tick every five minutes and every awaited call of it ends;
\* time goes on.  Of the requests nothing is assumed.
FairSpec == Spec /\ WF_vars(Cron) /\ WF_vars(Tick)

-----------------------------------------------------------------------------
(* Properties.                                                             *)

AtRest == cron = "idle" /\ \A h \in Handlers : pc[h] = "idle"

(***************************************************************************)
(* "Clear unsettled flags after wallet is no longer negative"              *)
(* (negative-credit.ts:69): of a user who owes nothing no account stays    *)
(* flagged, however purchases, top-ups and deductions interleave.  Two     *)
(* things leave one behind: a purchase that read the debt before a top-up  *)
(* settled it and flags afterwards (negative-credit.ts:127, 152), and a    *)
(* clearing that fails, which nobody repeats (wallet.ts:37).               *)
(***************************************************************************)
SettledCleared == AtRest /\ balance >= 0 =>
  \A s \in Accounts : unsettled[s] => s \in astray

(***************************************************************************)
(* "After a wallet purchase that left the user in debt, flag affected      *)
(* accounts" (negative-credit.ts:114): whoever owes has a flagged account, *)
(* however purchases, top-ups and deductions interleave.  A debtor escapes *)
(* in three cases: the debt began with a deduction (wallet.ts:43) or with  *)
(* an order that has no account yet (negative-credit.ts:146), a top-up     *)
(* cleared the flags after the debt it settled had been renewed, or a      *)
(* purchase failed after its debit (orders.ts:444).                        *)
(***************************************************************************)
DebtFlagged == AtRest /\ balance < 0 =>
  excuse # "none" \/ \E s \in Accounts : unsettled[s]

(***************************************************************************)
(* "After this time, auto-disable if still unsettled" (schema.prisma:390): *)
(* a flagged account is settled, taken off or held in the end, whatever    *)
(* purchases, top-ups, switches and restarts happen meanwhile, unless a    *)
(* later purchase has moved its deadline beyond the bound on the clock.    *)
(***************************************************************************)
GraceEnds == \A s \in Accounts :
  (unsettled[s] /\ ~held[s]) ~>
    \/ ~unsettled[s] \/ held[s] \/ ~active[s]
    \/ (deadline[s] # NoDeadline /\ deadline[s] > MaxTime)

-----------------------------------------------------------------------------
(* What comments of the code say, and the code does not do.                *)

(***************************************************************************)
(* "Auto-disabled after grace; re-enable only after wallet settled"        *)
(* (schema.prisma:392): a held account of a user in debt is off.           *)
(***************************************************************************)
HeldStaysOff == \A s \in Accounts :
  AtRest /\ faults = 0 /\ balance < 0 /\ unsettled[s] /\ held[s] => ~enabled[s]
=============================================================================
