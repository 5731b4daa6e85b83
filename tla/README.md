# quadtwo in TLA+

This directory specifies the core of quadtwo - a shop for VPN accounts run from a Telegram bot
and a web dashboard - in TLA+. TLC checks the specifications on small instances and TLAPS proves
every safety property of them for every instance.

Paths are relative to `src/apps/server/src/` unless they start with `src/` or `prisma/`
(`src/apps/server/prisma/`).

## 1. The system

One Node process per installation serves everything: the Telegram bots of the tenants
(`bot/`), the HTTP routes of the dashboard (`routes/`), and timers started in `index.ts`
(prepaid renewals, unsettled accounts, abandoned discounts, reconciliation, notifications). They
share one SQLite database through Prisma and talk to 3x-ui panels, where the accounts really live, over HTTP.

The process is single-threaded, but every request, callback and tick is an `async` function:
between two awaits anything else may run. A single Prisma call, and a `$transaction`, is atomic.
So the unit of interleaving in all models is *one awaited call*, and what has been read before it
may be stale afterwards. What a function holds in memory, and the two lock sets of the bot, is lost
in a restart.

| Component | State | Operations | What is hard |
|---|---|---|---|
| wallet (`services/wallet.ts`) | `Wallet.balance`, `WalletTransaction` rows | `creditWallet`, `adjustWallet`, `debitWallet` | the limit is read before the transaction; policy changes meanwhile |
| orders (`services/orders.ts`) | `Order.status`, receipt, prices | create, pay from wallet, receipt, approve, reject, grant | nearly every status update is unconditional after an earlier read |
| provisioning (`services/provision.ts`) | `Subscription` rows, panel clients | `provisionOrder`, bulk loop, renew, toggle, rotate | panel and database change in separate steps; the catch block restores; restarts |
| serverless delivery (`services/serverless.ts`) | `awaiting_delivery` orders | queue, deliver a pasted link | a status checked earlier |
| reservations (`services/subscription-lifecycle.ts`) | `reserved` orders | timer: find, claim, renew | overlapping ticks; approvals racing the timer |
| negative credit (`services/negative-credit.ts`) | `unsettled*` columns | flag, clear, disable when overdue, check before enabling | decisions on balances read earlier; a timer working through a stale list |
| discount codes (`services/discount-codes.ts`) | `usedCount`, pending orders | preview, count a use, cancel abandoned | checked at creation, counted at payment |
| operations on a sold account (`services/sub-addons.ts`, `subscription-lifecycle.ts`, `provision.ts`, `admin-configs.ts`, `bulk-adjust.ts`) | volume, end and status, in the row and on the panel | add GB or days, edit the package, renew, toggle, rotate, refresh, connect, update, bulk changes | read row, read client, write client, write row: an await between any two |
| reconciliation (`admin-configs.ts`, every 10 minutes) | what it listed and read | copy the panel's fields into the rows | works on lists that are old by then; a panel that does not answer |
| synchronisation (`admin-configs.ts`) | panel clients, `Subscription` rows, the undo snapshot | selective sync in two directions, undo, delete | phases over lists read at the start; one snapshot for everybody |
| archive (`services/account-archive.ts`) | `AccountArchive` rows | archive on deletion, restore | two restores of one entry; codes are unique |
| test service (`services/test-service.ts`) | `User.testClaimedAt` | claim | check, then many awaits |
| notifications (`services/notifications.ts`, every 20 minutes) | `NotificationLog` | warn, say farewell, close rows long over | ticks may overlap; a row read before a renewal |
| authentication (`services/web-auth.ts`, `webauthn.ts`, `miniapp-pin.ts`) | codes, challenges | issue, verify | expiry, attempts |
| tenants and bots (`services/bot-manager.ts`) | running bots | start, stop, reload | overlapping starts |
| pricing, panel expiry | none | pure functions | rounding, negative durations |
| the rest (settings, menus, backup, broadcast, reports, web front end) | rows, files | forms and I/O | little concurrency of its own |

How they interact: the bot and the routes call `orders`; `orders` debits the `wallet` and calls
`fulfillAfterPaid` (serverless.ts), which reserves, queues or provisions; `provisionOrder` credits
the wallet for top-ups; `creditWallet` clears the flags of `negative credit`, and
`payOrderWithWallet` sets them at its end; the timers of reservations and of negative credit
write the same orders and subscriptions as the requests. The operations on a sold account, the
reconcile tick, the synchronisation and the notification sweep all write the same row and the same
panel client, with no lock between them; the archive takes in what a deletion removes and gives it
back as a new client and row.

What makes each component correct, in one line: money moves only within what was ever allowed and
leaves a trail; nothing is delivered unpaid and nothing paid is lost; an order in work is always
somebody's work; the flags of a debtor agree with his debt; a deadline that passes has effect; row and panel agree on
what was sold; no account vanishes or comes back twice; a limit of one is exceeded only by a race.

## 2. Modules

| Module | What it is |
|---|---|
| `Account` | abstract: a balance per user that moves in single steps, never down under an entitlement that only widens |
| `Wallet` | the wallet service at the grain of its awaits; refines `Account` |
| `WalletProofs` | its theorems |
| `Orders` | the life of orders: payment, review, fulfilment, delivery, timers, restarts |
| `OrdersProofs` | its theorems |
| `Settlement`, `SettlementProofs` | buying on negative credit: debt, flags, the overdue timer, switching accounts |
| `Mirror`, `MirrorProofs` | one sold account kept twice, on the panel and in a row: twelve operations and the reconcile tick |
| `Sync`, `SyncProofs` | which accounts exist, and where: synchronisation, undo, deletion, archive, restoration |
| `KeptProofs` | two more theorems about `Sync`: no account is lost, an undo puts everything back |
| `Checkout`, `CheckoutProofs` | limits: one order per checkout, one reservation per subscription, uses of a code, one test account |
| `Notices`, `NoticesProofs` | the notification sweep over one account |
| `MCWallet`, `MCOrders`, `MCSettlement`, `MCMirror`, `MCSync`, `MCCheckout`, `MCNotices` | instances for TLC |

An operator with the name of an action and a suffix (`PayInBotUnlocked`, `RestoreNothing`,
`TopUpNeverClears`, ...) stands before the action it varies. It is the action with a plausible bug
and takes no part in `Next`. Each property was seen to fail when one of them is put in place of the
real action; `PROJECT.json` pairs them.

### Wallet

`balance` and `ledger` are the two tables, `allowed` is `User.negativeCreditAllowed`, `limit` the
setting `negative_credit_limit`. A request runs `ReadAllowed`, `ReadLimit`, then its transaction;
`seen[h]` is the local variable `creditLimit`. Administrators (`SetAllowed`, `SetLimit`) act at any
moment. Positive and negative adjustments are both modelled with the code's own asymmetry: the
limit is looked up only for a negative sum (wallet.ts:46), so a positive adjustment that does not
reach zero is refused even to a user with credit, although the comment above it reads
"(respects negative credit limit)". Prisma runs the transaction as one write of SQLite, so it is
one atomic step; `TxFails` is the database refusing it. Two variables are history: who was ever
allowed negative credit, and the largest limit there has been.

### Orders

One record of the tables `Order` and `Subscription` per order; `rows`, `clients` and `applied`
count what was made for it in the database, on the panel and on the target subscription; `debits`
and `credits` count the ledger rows that carry its id. `pc[h]` is the await at which handler h
stands, `aim[h]` whether it read the order with a target. The path of a payment from the wallet is

    PayInBot | PayInWeb -> Debit -> Settle -> RecordDiscountUse -> fulfil:
        renew_reserve            Reserve
        needs manual delivery    CheckQueue -> Queue
        otherwise                CheckProvision -> Claim -> work -> Complete
                                                       \-> WorkFails -> Restore

and an approval joins it at `MarkPaid`, a complimentary order at `Settle`, the reservation timer
at `Claim`. The work is `Credit` for a top-up, the loop `AddClient`, `CreateRow` for a new account,
and `UpdateTarget` for what rewrites a subscription. `aimed` holds the orders whose `targetSubId` is
set; `DeleteTarget` nulls it at any moment (admin-configs.ts:740, 1157). An order that was read without
its target falls through to the creation of an account, whatever its kind (provision.ts:359-411,
serverless.ts:507); one whose target goes after the read fails. `Restore` is the catch block of
`provisionOrder` with the status it computed from the receipt it had read. Rejection, the buttons
"cancel" and "back", receipts from both channels and the stale-discount timer write statuses at
any time, each with exactly the condition its code has, or none.

Choices worth knowing:

* The two reads at the start of `provisionOrder` and of `fulfillAfterPaid` are one step where the
  first looks only at columns that never change. The same holds for the two reads before a receipt
  is written.
* `add_days`, `add_gb`, `rotate_sub` and `rotate_uuid` run the same path through `provisionOrder`
  and are one kind, `addon`.
* What makes a reservation due is a free choice of `PickReservation`. Ticks may overlap, as
  `setInterval` lets them.
* An administrator acts on what is on his screen: `listed` holds the orders that were in the
  pending list once. A Telegram message or an open page outlives the state it shows.
* `Modes` are the values the setting of manual delivery takes while an instance runs: with both, every
  read of it may answer either way, as if an administrator switched it between any two awaits. `Native`
  are the orders whose target was delivered by hand. So a bulk order made while the mode was off may
  come to be delivered by one link.
* A reservation that has lost its target is never taken up by the timer, which asks for one.
* `asked` holds the orders for which an administrator was sent the button to paste a link, the only
  way to `CheckDelivery`.
* The deletion of the account that was made for the order itself is not modelled (it would clear
  `linked`).
* `PayInBot` is the button of the payment screen, the only place that locks. The wizards that create
  an order and pay it in the same callback pay an order nobody else knows of yet.
* `WorkFails` stands for a panel that does not answer and a database that refuses, anywhere in a
  try block. `Throw` is the same outside of one, `Crash` the restart. The last two are counted in
  `faults`, because some properties hold only without them, and say so.
* The user's negative-credit limit is the constant `Overdraft`: how it is looked up is the business
  of `Wallet`. The flags it leads to are the business of `Settlement`.

### Settlement

One user, his wallet, his accounts - both the row (`active`, `unsettled`, `deadline`, `held`) and
the client on the panel (`enabled`). Requests: `Buy` (a renewal from the wallet, from the debit
on, worked off at once or queued for a link or for the end of the package), `BuyByHand` (a new order
that waits for its link: no account yet, so `markUnsettledFromWalletPurchase` finds no id and returns,
negative-credit.ts:146), `RenewByCard` (approved by an administrator, so no debit and no flags),
`TopUp` and `Deduct` (`adjustWallet` and `creditWallet` in both directions; a deduction flags nothing),
`Toggle`. The timer takes the list of overdue accounts once per tick (`FindDue`) and then disables one
account after the other, panel first, row second, hold last. The order of the list and its cap of
40 are abstracted to any order. An admin credit and an approved top-up are both `TopUp`.

Two variables are history. `excuse` says why the present debt may have flagged nothing: it began with a
deduction or an order without an account (`bare`), a clearing came after the debt was renewed (`late`), or a
purchase ended between its debit and its flags (`failed`). `astray` holds the accounts a settlement has
missed: flagged by a purchase that had read a debt settled since, or left flagged by a clearing that failed. Races are
inside both, not excluded.

### Mirror

`client` is the panel's record (volume, expiry, enable), `row` the `Subscription`. A panel expiry is a
date, a negative duration that starts at the first connection, or 0 for never; `FromPanel`, `ForPanel`,
`Differs`, `PanelExtended` and `Extended` are the functions of `panel-expiry.ts`, in days. A request is one of
twelve operations and passes through

    Ask, which reads the row (or Again, a failed purchase approved once more)
        -> Get the client -> Find the row, for the bulk changes -> PutClient -> SaveRow

where `Put` and `Save` say, per operation, which fields it writes and from which of the two reads they come;
that is where the operations differ, and where they go wrong. Bulk changes add or take away; an account without
a volume or an end, or with less than 1 GB to be left, is `Skipped`: no call is made for it. A call may be
refused (`Refused`), may reach the panel with its answer lost (`AnswerLost`), the row may fail to be written
(`SaveFails`), and the process may restart. The tick runs `ListClients`, `ReadRows`, `ApplyListed`, and for a
client that was missing in the list `Confirm`, `SaveConfirmed`. `Connect` is the customer's first connection,
`PanelEdit` an administrator in the panel's own interface. A day (`Tick`) passes only while nobody is in flight:
requests take seconds.

Five variables are history: whether the last request began alone (`calm`); the volume that calls have put on top
(`sold`: a call that was answered and adds volume counts with what it adds; what a bulk change takes away is not
deducted, and a call whose answer is lost is not counted, since `torn` sets the bound aside then) of the largest
volume a package or an edit has set (`top`); whether a purchase reached the panel and not the row (`torn`: its
answer lost, its row not written, or a restart between the two); and whether the client was off or missing
during the running tick (`off`). `retry` counts the purchases that may be approved again. A row is `Timely` when
its end and flag are what the panel's expiry means today: it falls behind as days pass before the first
connection, and after races. `Uneven` names the operations that do not leave row and panel in agreement even
when they run alone.

### Sync

`panel`, `rows`, `archive` and `snapshot` are the four places an account can be. `SyncBegin` chooses the
direction and, from `Options`, the phases the administrator has ticked. `List` asks the panels (one may be
down; their clients come as of one moment), `ListRows` reads the rows an await later, then come the phases of
`selectiveSync` in its order: new accounts, a second listing of both, deletions (towards the bot after asking once more
for the client), fields - `Look` is the read and the decision for one account, `Make` the write, `Skip` a call or a
database write that fails, `AddLost` the answer of `addClient` lost after the client was made - and `Store`, which
overwrites the one snapshot if anything was changed. The fields of an account may be ticked one by one in the code; here
they are taken together. `UndoBegin`/`UndoOne`/`UndoEnd` work through
the six parts of the snapshot in the code's order. `DeleteBegin`, `Archive`, `DeleteClient`, `DeleteRow` are
`deleteConfig` with `archiveConfigSnapshot`; `RestoreBegin` to `RestoreMark` are
`restoreAccountFromArchive`; `CreateBegin` to `CreateRow` a sale. What an account is worth - volume,
expiry, comment - is one value; which value a field takes is the subject of `Mirror`. `NextId` takes any
unused id, as a cuid is. `Watch` records, with every step, which accounts were seen without a client or
without a row since a request began: the properties speak of "at some moment".

The rest of the history serves `NothingVanishes` and `UndoRestores`. `before` is panel and rows when the
running synchronisation began, `base` the same for the one that stored the snapshot, `exact` that only
that synchronisation and its undo have changed anything since; a synchronisation whose second listing
throws after it has made accounts (line 2379) loses its notes, and `exact` with them. So does one that writes or
loses columns no note holds (`Unnoted`): `addClient` writes the client's new `clientUuid`, `panelSubId` and
`panelServerId` into the row (2343-2350), `applyBotFieldsToPanel` a `panelExpiryTime` the row had not (2760-2770),
and a row that is deleted and put back comes without the columns `BotSnap` leaves out (2047-2134: those of a debt and of
manual delivery) and without the orders that had it as target (1157). Whether a row has such columns is
not modelled, so each of these steps either spoils `exact` or does not. `overtaken` holds
the undo requests whose snapshot has been replaced under them. `forgotten` holds the accounts of a
snapshot that was overwritten, those whose deletion took a client or a row that its look for the archive
had not seen, and those made anew while their deletion was still to be put back (`ToPutBack`). The last takes
six requests: a synchronisation on an old list makes anew the client of an account that a snapshot still
holds as deleted, and two undos then take away both the client and the note of it.

### Checkout

One user's taps and requests against four limits. `Tap` is the bot's checkout with `checkoutLocks`, `Order`
and `Reservation` the dashboard's; all run through the reads of `createMatrixOrder` (`Recent`,
`NoReserve`, `ReadCode`, `CheckCode`, `DropPending`) to `CreateOrder`. `Pay`, `Approve` and `SendReceipt` move the order,
`RecordUse` counts the code with its conditional update, the timer picks, claims and applies
reservations, and `Test` claims the free account: check, panel client, row, flag. `Age` lets a pending order leave the
window in which a second tap finds it. Fulfilment is one step: what it does is the subject of `Orders`, and so
is an order that waits for its link, which counts as fulfilled here; the button "back" is one step for the same reason.

A plan has a number of months, and so has the order made of it (orders.ts:261). The draft has them cut to
`MaxMonths` (`Drafted`, draft.ts:239), and the look for a recent order goes by the draft (bot/index.ts:1979). So
of a plan with more months no order is ever found again. The volume of a cell that is edited between its choice
and the order is not modelled, and `max_purchase_months` does not change while an instance runs.

`Requested` says which requests an instance makes: kinds, and for a creation with or without the code.
History: `peak` is the most requests ever in flight together; `reopened` counts approvals of orders that were
rejected or cancelled; `unnoted` counts what was done and never written down - uses of the code, test clients
without a row, renewals whose timer died after the claim; `overlapped` are the requests that were not the
only one of their user, and `raced` counts the orders with the code that such requests made.

### Notices

One account and the sweeps over it. `Begin` reads the row, and then each kind of message in the code's order
asks the log (`LookUp`), sends (`Send`) and writes the log (`Mark`). `Ask` is the call to the panel before the
messages that depend on it, `Sync` takes a started clock over into the row (its calls are one step), `Clear`
forgets a low-volume message when the volume has recovered. When the removal fails (`ClearFails`) nobody learns
of it (notifications.ts:33) and `stale` notes that the log is behind. A sweep loads the 500 active rows that end
first (line 73): while `crowded` says that as many others end before this one, `Begin` does not see it. The
farewell closes the row (`Expire`), and `Finish` is the sweep's last update, which closes every row whose end is
a week past. The settings say which kinds are switched on. A renewal writes the client and then the row; it is
the only request here that moves the end: days added or an edit between the read of a sweep and its closing of
the row are left out. Sweeps may overlap, calls may fail, the process may restart.

## 3. What is checked

Two handlers, requests or ticks are in flight at a time: every hazard listed is a race of two, and a
crash may cut either. The number of requests is bounded by 2 to 4, the number needed for a race (2) and
a decision before or after it.

| Run | Instance | States, time | Shows |
|---|---|---|---|
| `wallet` | 1 user, sums 1-2, limits 0 and 2, 3 ledger rows | 520 000, 20 s | `FloorRespected`, `LedgerChained`, refinement of `Account` |
| `orders_bulk` | a new order for 2 accounts with a discount, payable everywhere and grantable, the mode switched at will, 4 requests, 1 fault | 620 000, 90 s | `NothingFree`, `AccountsWithinQuantity`, `ProvisioningAttended`, `CompletedFulfilled`, and `ProvisioningEnds` under fairness |
| `orders_mixed` | a manual delivery and a top-up on one wallet, bot only, 4 requests, 1 fault | 280 000, 15 s | `NothingFree`, `CreditsApproved`, `DebitOncePerLife` |
| `orders_target` | a prepaid renewal and a renewal, their targets deleted and the mode switched at will, 3 requests, 1 fault | 2.1 million, 90 s | `NothingFree`, `CompletedFulfilled` with the timer |
| `settlement` | 2 accounts, sums 1-2, limit 2, clock to 2, 3 requests, 1 fault | 250 000, 35 s | `SettledCleared`, `DebtFlagged`, and `GraceEnds` under fairness |
| `mirror` | 2 requests of all 12 operations, packages of 2 days, a year of 3, one upset (failure, restart, change on the panel, day), bulk changes up and down, a row without `panelExpiryTime`, which the first write gives one | 1.4 million, 130 s | `VolumeSold`, `AloneAgrees`, `PurchaseDelivered`, `ReconcileSpares`, and `Settles` under fairness |
| `sync` | 3 accounts on 2 panels - one stored, one only a client, one only a row -, 5 ids, 2 values, phases {new, del} and {del, fields}, 3 requests, 1 upset; the two handlers are symmetric | 1.7 million, 160 s | `NothingVanishes`, `RestoredOnce`, `UndoRestores`, `DeletionsJustified` |
| `checkout` | 1 user, a code with one use, 2 orders, plans of 1 and 2 months with drafts cut to 1, 4 requests (purchases with the code, reservations without, everything else), 1 upset | 820 000, 150 s | `OneTap`, `ReservationsBounded`, `CodeOncePerBuyer`, `TestsBounded`, and `LockFreed` under fairness |
| `notices` | 2 overlapping sweeps, packages of 1 day, 3 days, 1 renewal, 1 upset, three settings | 890 000, 140 s | `ToldOnce`, `RenewalSurvives`, and `LowTold` under fairness |

Bounds: two sums and one limit let a balance be positive, zero, negative and at the limit. Two
accounts are the smallest bulk order, and with them a half-finished one. One fault, at every
possible place, exposes each state a fault can leave behind; the proofs cover any number. A clock
of 2 with a grace of 1 has a moment before, at and after a deadline. In `mirror` a year differs from a
month, a month can be half over, and the two requests are any two of the twelve. In `sync` each account stands
for one of the three ways panel and rows can differ, each phase is asked for in one of the choices and left out of the
other but for the deletions, which belong to both, two panels let one be down while the other
answers, and three requests are a synchronisation, something after it, and its undo. In `checkout` one use
and one reservation are the limits at which the second request is the first too many. In `notices`
the spans are the smallest that keep the order of the code's (final before gone). `CHECK_DEADLOCK FALSE`
is set where the bound on requests ends the run; the shop itself never stops.

Several properties name the races they do not survive: `peak` (requests in flight together), `calm`,
`overlapped`, `torn`, `exact`, `forgotten`, `astray`, `stale`. This is the strongest statement the code keeps,
since it has no locks there; without the exception TLC refutes it, and each exception is the least that was
found to hold for every instance: several of them showed only in the attempt to prove the property, or on
instances with more requests than a run affords - the six requests of `forgotten`, a second creation with the
code while the first was in flight, volume sent twice by a lost answer, a row that was not up to date.

Fairness. `Orders`, `Checkout`: weak fairness of each handler's own steps, since the event loop resumes every
function whose call has ended, and every call ends - `fetch` has a timeout for headers, a Prisma transaction its
own. Nothing is assumed of people: no payment, approval or receipt has to happen. `Settlement`, `Mirror`,
`Notices`: weak fairness of the timer (`setInterval`: five, ten, twenty minutes), in `Settlement` also of the
clock; nothing of the requests. Whatever fails is counted in a bound, so a call that is tried on every tick
succeeds in the end: the liveness properties say nothing of a panel that is down for good. `Wallet` and `Sync`
assume none.

### Where the code departs from its comments

Three runs end in a counterexample on purpose. Each checks a sentence of the code.

| Run | Sentence | What happens |
|---|---|---|
| `charge_twice` | "this charge has already been applied", provision.ts:327 | the check and the claim are two calls; two approvals credit one top-up twice |
| `held_reenabled` | "Auto-disabled after grace; re-enable only after wallet settled", schema.prisma:392 | renewing a held account by card enables it, and the timer does not take held accounts up again |
| `unused_expired` | "start after first connect", schema.prisma:371 | the sweep's last update (notifications.ts:240) closes the row of an account that was never connected, by the placeholder date of its purchase; the reconcile tick reads no expired rows, so it stays closed |

Further behaviours of the code are inside the models, and the properties are stated around them:

* Orders. The dashboard's payment has no lock, so two payments of one order debit twice. A restart during
  provisioning leaves a status the administrators' list does not show. The button "back" cancels an order paid
  since it was read. An order whose target was deleted completes with a new account instead, and a bulk order
  that is delivered by a link with one account instead of all (`Fulfilled`).
* Settlement. A purchase that has read a negative balance flags the account after a top-up has settled it;
  conversely a top-up clears flags by the balance it left, after a later purchase has gone into debt again. A
  deduction, and a manual order that has no account yet, make a debtor nobody flags. A clearing that fails is
  not tried again. `astray` and `excuse` name exactly these.
* Mirror. Alone and without a fault, some operations still leave row and panel apart (`Uneven`): a renewal to an
  unlimited package keeps the row's number, adding volume gives a client that never expires a date, bulk days or
  clearing write the row active while the client is off. Days added to an unused account with an old row count
  from the placeholder date. `updateConfig` swallows the failure of the panel, and the next tick reverts the
  row. A lost answer, a tick and a second approval double the volume (`torn`).
* Checkout. "Reuse a very-recent pending order for same draft to avoid duplicates on double-tap"
  (bot/index.ts:1972) does not hold of a plan whose months exceed `max_purchase_months`, which is 1 by default:
  each press after the one before has ended makes another order. A code with one use may be in the pending
  orders of two buyers, and `buyerAlreadyUsedDiscount` does not count `reserved` orders.
* Sync. An undo clears the snapshot another synchronisation has written meanwhile; a second listing that throws
  loses the snapshot of what was done before; a deletion removes the row of an account whose panel did not
  answer.
* Notices. A farewell that was not sent is never sent, since the row is closed with it. After a failed removal
  of its entry the next episode of low volume is not told.

## 4. What is proved

The theorems hold for any sets of users, orders, accounts and handlers, any prices, quantities, spans
and limits, and any bounds, under the named `ASSUME`s of the modules: prices are naturals, quantities are
positive and 1 but for new orders, a target delivered by hand belongs to an order that has one, a grant is no top-up;
the stored accounts can be given distinct ids; a row gets its farewell (two days) before the last
update may close it (seven). Where a proof counts requests in flight, there are finitely many of them
(`BoundAssumption` of `Orders` and `Checkout`); the values that stand for "none" (`None`, `NoClient`, ...) are
none of the values they are told from. Every invariant and every action property that a passing run
checks is a theorem here.

`WalletProofs`

* `TypeCorrect`, by induction over the actions.
* `FloorAlwaysRespected`. `FloorRespected` is not inductive: a debit decides with `seen[h]`. `FloorInv`
  adds that the present policy is within its history (`PolicyBounded`) and that every limit a request
  has in its hands was justified by that history (`SeenJustified`). As the history only grows, a stale
  limit stays justified.
* `LedgerAlwaysChained`: an append keeps the chain, since balance and row come from the same read.
* `ImplementsAccount`: with `depth` mapped to the floor of the user, every step is a `Move`, a `Widen`
  or a stutter of `Account`.

`OrdersProofs`

* `TypeCorrect`, with two facts of control that the others need: a busy handler has an order, and
  from the claim on it knows what to restore.
* `NothingIsFree`, by `PaidInv`: every order with a paid status, and every order a handler past the
  debit works on, was debited or decided by an administrator.
* `QuantityRespected` and `CompletedIsFulfilled`, by `WorkInv`: the unique `orderId` lets one handler
  at a time into the loop, `made[h]` equals the rows of its order, and a handler at `complete` has
  fulfilled it: a row for every account or for the pasted link, and of an order with a target either a change of it
  or, once the target is gone for good, a row. Nothing is assumed of the mode or of when targets are deleted.
* `LockWorks`, by `LockInv`: a held lock has one holder, and whoever holds it past the update to paid
  has left `pending_payment` behind for good, so the next payment is turned away.
* `ProvisioningIsAttended`, by `AttendInv`: the handler that claimed an order is still there, and its
  catch block will restore it.
* `CreditsAreApproved`, by `CreditInv`: a handler that may still credit a top-up counts as if it had. Then
  credits and such handlers together never exceed the approvals, since a handler gets there only by
  an approval of its own.

`SettlementProofs`

* `TypeCorrect`.
* `SettledIsCleared` and `DebtIsFlagged`, by `AccountInv`, which says of every state what the properties say of a state at
  rest. `Settled`: a user who owes nothing has a flagged account only if it is `astray` or somebody stands at
  `clear`. `Indebted`: of a debtor without an `excuse` some account is flagged, or some purchase is between its debit and
  its flags. A purchase that finds no debt and goes away leaves a balance that is not negative, and a debt after that
  begins with a purchase of its own.

`MirrorProofs`

* `TypeCorrect`: whatever is in flight carries values of the right kind, so no operation writes an
  expiry, a volume or a status outside its type.
* `TickSparesRows`, by `Seen`: what the tick has listed or asked is what the client was at some moment of
  this tick, so a row is taken off only when `off` has been noted.
* `NoVolumeFromNothing`, by `VolumeInv`: as long as nothing is `torn`, whatever carries a volume - the
  panel, the row, what a request or the tick has read, the sum a request is about to write to the row -
  is within `top + sold`. A sum is formed from one of these and the call that `sold` counts.
* `AloneIsAgreed` and `PurchaseIsDelivered`, by `CalmInv`: a request that began alone from agreement is
  still alone, has read row and client as they are, and once past its call finds on the panel what
  `Put` made of them (`Undisturbed`, `Reached`). What is left is to compare `Put` and `Save`, operation by
  operation, with the conversions of `panel-expiry.ts`.

`NoticesProofs`

* `TypeCorrect`: only a farewell leads to the closing of a row.
* `RenewalsSurvive`. A sweep closes a row by what it read earlier, so the invariant relates the two
  (`Holds`): the end a sweep has read is the row's, or a renewal raced; and a sweep at the farewell has
  found the account long over.
* `ToldAtMost`, by `Counted`: sweeps that have looked into the log and are about to send count as having
  sent; a message that is not in the log was told at most as often as sweeps stand between sending and
  logging it, or as entries were missed. So the next sweep to look adds at most itself to those running.

`CheckoutProofs`

* `TypeCorrect`, with `Room`: orders are counted before they are made.
* `DoubleTapPrevented`, by `TapInv`: whoever creates in the bot holds his user's lock (`Locked`), and he saw
  no open order of this draft; nobody else can make one, so there is never a second (`Single`). It is about the plans
  whose months the draft keeps (`Faithful`); for the others the step from what was looked up to what is created is missing,
  as it is in the code.
* `CountInv`: the histories count, and `peak` bounds the requests in flight. The three bounds build on it,
  each by adding to what is counted the requests that are about to add to it.
* `TestsAreBounded`, by `TestInv`: a user without a claim has no more test clients than requests noting one and
  clients left unnoted, so a claim that starts finds room below the peak.
* `ReservationsAreBounded`, by `ReserveInv`: open reservations, those a handler may still bring back
  to life (`Living`, `Held`) and creations past their check (`Serving`) are counted together; those a timer took
  and left (`Stuck`) are within `unnoted.renewals`. `Orderly` says that only the owner
  reserves, and that a request works for the user of its order.
* `CodeServesOnce`, by `OnceInv`, in three parts: orders whose use nobody recorded and nobody is about
  to record are within `unnoted.uses` (`RecordInv`); a request that never met another of its user is
  the only one (`Alone`), and what it has seen of the code still holds when it creates (`CheckInv`); so each
  order with the code beyond the first was made by a request that did meet one (`CodeInv`).

`SyncProofs`

* `TypeCorrect`, with the uniqueness of codes.
* `RestoresOnce`. The unique code stops a second restoration, if every row restored from an entry still
  has the code of that entry. Rows travel: in the table, in the lists and notes of requests, in the
  snapshot that puts them back. `Identity` says that wherever a row of an id is remembered it has the
  same account and code, `Given` that nothing remembered is handed out again, `Traced` that a
  restored row has the code of its entry, `Coded` that a code is its row's own id or that of an entry the
  row was restored from, `Unique` that no two rows share one; `Owning` says the row a deletion is about is one
  of its account.
* `DeletesJustified`, by `Witnessed`: an account whose deletion is decided was seen without its client (or
  its row) since the request began.

`KeptProofs`, also about `Sync`

* `NothingIsLost`, by `KInv`. `NothingVanishes` counts every note of an account as a trace, but a note is worth
  little if another undo takes away what it leads to: a row that some snapshot will remove (`Passing`), a client
  that one will (`Fleeting`). So the invariant asks for more: each account rests on the archive, on a row or
  client that stays, on the notes of a request in flight (`Sure`), or on the snapshot as long as every undo at
  work has been overtaken (`BySnapshot`). `Examined` says a deletion in progress has archived its account or saw
  nothing to archive; `Early` that a synchronisation notes no deletion before its third phase.
* `UndoPutsBack`, by `UInv`. `Running`: the notes of a synchronisation that runs alone lead back (`Back`),
  client by client and row by row, from panel and rows as they are to the moment it began; for that its lists
  have to be right where a phase depends on them (`ToBot`, `ToPanel`), which they are whichever phases were
  asked for. A step that writes or loses a column no note holds, and a lost answer of `addClient`, end the run
  of such notes. `Exact`: as long as `exact` holds, the snapshot, or the notes of a lone undo, lead back to
  `base`. Each of the six parts of an undo shortens that way, and when all are empty there is none left.

Only model-checked: liveness (`ProvisioningEnds`, `GraceEnds`, `Settles`, `LockFreed`, `LowTold`), which is out of the
prover's reach, as is `ENABLED`.

## 5. What is not modelled

The map covers about a tenth of the implementation's lines. Of some 52 000, about 17 000 are the React front
end, 9 500 the bot, mostly menus, keyboards and texts, and 4 600 HTTP routes, mostly forms, reads
and formatting over the services; much of the rest is reports, settings, backup and panel I/O.
What there is of state in it, and is not modelled:

* Pricing and the choice of a payment method; discount percentages. Prices are constants.
* Renaming of an account (sub-addons.ts:257, admin-configs.ts:1016), groups, inbounds and the choice of a panel.
* `wiz:checkout` paying a free order within its lock: in `Checkout` the lock ends with the creation.
* The free test account of an administrator, which has no limit.
* The deletion of the account made for an order, after which a second run would make another.
* The setting `max_purchase_months` changed, or a matrix cell edited, while a wizard is open.
* What becomes later of a purchase that `Settlement` excuses as `failed`: an administrator may complete
  it, and it is never flagged. It belongs to the composition of `Orders` and `Settlement`.
* Single fields ticked in a synchronisation, and panels listed one after the other instead of at one moment.
* Tenants and their bots: every module is about one tenant, and a restart stops and starts the whole
  process.
* Sessions, codes and passkeys of the dashboard.
* Messages to people, wizards, texts, images, reports, broadcasts, backup, migration, licence, emoji.

## 6. Plan

1. *Done:* `Account`, `Wallet`, `Orders`, `Settlement`, `Mirror`, `Sync`, `Checkout`, `Notices`; the
   theorems above.
2. `Orders` composed with `Settlement`: flags of purchases completed by approval.
3. Renaming in `Sync`: the email is the key that joins panel, row and archive.
4. `BotManager`: overlapping restarts of one tenant's bot.
5. `Pricing` as functions checked against a reference definition over bounded inputs.
6. Abstract specifications beyond `Account`: the life of an order as its owner sees it (ordered, paid, delivered or
   given back) with `Orders` as its implementation, and a limited resource that `Checkout` implements.
7. Proofs about 2 and 3 once they are modelled; until then nothing that a run checks is without a
   theorem, except liveness.
