------------------------------ MODULE Checkout ------------------------------
(***************************************************************************)
(* How many things of a kind one user can get: orders out of one checkout, *)
(* open reservations of one subscription, uses of a discount code, free    *)
(* test accounts.  Each limit is a read, a decision and a write many       *)
(* awaits later.  What an order becomes once it is paid is the subject of  *)
(* Orders; here fulfilment is one step.  Refusals that change nothing (the *)
(* purchase gate, rate limits, prices) are left out: any request may fail. *)
(***************************************************************************)
EXTENDS Naturals, FiniteSets, Sequences

CONSTANTS
  Users,
  Owner,          \* of the one subscription that can be renewed ahead
  Codes,          \* {TRUE, FALSE}: with and without the discount code
  MaxUses,        \* DiscountCode.maxUses
  MaxMonths,      \* the setting max_purchase_months
  Requested,      \* requests of this instance: kind, with the code, months of the plan
  Jobs,           \* requests in flight at the same time
  MaxOrders,      \* bound: orders
  MaxRequests,    \* bound: requests
  MaxUpsets,      \* bound: failed calls and restarts
  None

Creations == {"tap", "order", "reserve"}
Kinds == Creations \cup {"pay", "approve", "receipt", "tick", "test"}

ASSUME RequestAssumption ==
  /\ Owner \in Users /\ Codes \subseteq BOOLEAN
  /\ Requested \subseteq Kinds \X BOOLEAN \X Nat
ASSUME BoundAssumption ==
  /\ MaxUses \in Nat \ {0} /\ MaxMonths \in Nat \ {0} /\ MaxOrders \in Nat /\ IsFiniteSet(Jobs)
  /\ MaxRequests \in Nat /\ MaxUpsets \in Nat

\* Where a request stands: the await it is at.
Places == {"recent", "open", "row", "own", "drop", "create", "mark", "paid", "record",
           "fulfil", "attach", "claim", "apply", "check", "client", "subscription",
           "flag", "again"}

ASSUME NoneAssumption ==
  None \notin [kind : Kinds, user : Users, at : Places, code : BOOLEAN, months : Nat,
               seen : Nat, ord : Nat \cup {None}]

VARIABLES
  orders,     \* Order, in the order of creation
  used,       \* DiscountCode.usedCount
  claimed,    \* users with a User.testClaimedAt
  tests,      \* users with a test Subscription
  locks,      \* checkoutLocks
  job,        \* what each request is doing
  requests, upsets,
  peak,       \* history: most requests in flight at once
  reopened,   \* history: approvals of orders rejected or cancelled before
  unnoted,    \* history: uses, test clients and claimed renewals left unrecorded
  overlapped, \* history: requests that were not the only one of their user
  raced,      \* history: orders with the code that those made for each user
  given       \* history: test clients made for each user

history == <<peak, reopened, unnoted, overlapped, raced, given>>
vars == <<orders, used, claimed, tests, locks, job, requests, upsets, history>>

Statuses == {"pending_payment", "awaiting_review", "paid", "reserved",
             "provisioning", "completed", "rejected", "cancelled"}
OrderSet == [kind : {"new", "reserve"}, user : Users, code : Codes, months : Nat,
             inBot : BOOLEAN, status : Statuses, receipt : BOOLEAN, recent : BOOLEAN]
Numbers == DOMAIN orders
Busy == {j \in Jobs : job[j] # None}

TypeOK ==
  /\ orders \in Seq(OrderSet) /\ Len(orders) <= MaxOrders
  /\ used \in 0 .. MaxUses
  /\ claimed \subseteq Users /\ tests \subseteq Users /\ locks \subseteq Users
  /\ \A j \in Busy : job[j] \in
       [kind : Kinds, user : Users, code : BOOLEAN, months : Nat, seen : Nat,
        ord : Numbers \cup {None}, at : Places]

Init ==
  /\ orders = << >> /\ used = 0
  /\ claimed = {} /\ tests = {} /\ locks = {}
  /\ job = [j \in Jobs |-> None]
  /\ requests = 0 /\ upsets = 0
  /\ peak = 0 /\ reopened = 0
  /\ unnoted = [uses |-> 0, clients |-> 0, renewals |-> 0]
  /\ overlapped = {} /\ raced = [u \in Users |-> 0]
  /\ given = [u \in Users |-> 0]

-----------------------------------------------------------------------------

tables == <<orders, used, claimed, tests>>

Start(j, d) ==
  /\ job[j] = None /\ <<d.kind, d.code, d.months>> \in Requested
  /\ requests < MaxRequests /\ requests' = requests + 1
  /\ d.kind \in Creations =>
       Len(orders) + Cardinality({i \in Busy : job[i].kind \in Creations}) < MaxOrders
  /\ job' = [job EXCEPT ![j] = d]
  /\ peak' = IF Cardinality(Busy) < peak THEN peak ELSE Cardinality(Busy) + 1
  /\ LET same == {i \in Busy : job[i].user = d.user}
     IN overlapped' = IF same = {} THEN overlapped \ {j} ELSE overlapped \cup same \cup {j}
  /\ UNCHANGED <<tables, upsets, reopened, unnoted, raced, given>>

Task(kind, u, at, code, m, o) ==
  [kind |-> kind, user |-> u, at |-> at, code |-> code, months |-> m, seen |-> 0, ord |-> o]

At(j, at) == job[j] # None /\ job[j].at = at
Goto(j, at) == job' = [job EXCEPT ![j].at = at] /\ UNCHANGED locks

\* The end of a request; finally gives the lock back.
EndsLocked(j) == job' = [job EXCEPT ![j] = None] /\ UNCHANGED locks
Ends(j) ==
  /\ job' = [job EXCEPT ![j] = None]
  /\ locks' = IF job[j].kind = "tap" THEN locks \ {job[j].user} ELSE locks

SetStatus(o, s) == orders' = [orders EXCEPT ![o].status = s]
Status(j) == orders[job[j].ord].status

-----------------------------------------------------------------------------
(* Creation of orders.                                                     *)

TapUnlocked(j, u, code, m) ==
  /\ Start(j, Task("tap", u, "recent", code, m, None))
  /\ locks' = locks \cup {u}

\* wiz:checkout, one account of the draft as it is, with or without the code, of
\* a plan of m months.
Tap(j, u, code, m) ==
  /\ u \notin locks
  /\ Start(j, Task("tap", u, "recent", code, m, None))
  /\ locks' = locks \cup {u}

\* Any other way to order an account; none of them locks.
Order(j, u, code, m) ==
  /\ Start(j, Task("order", u, IF code THEN "row" ELSE "create", code, m, None))
  /\ UNCHANGED locks

\* A renewal paid ahead, from the bot or the dashboard.
Reservation(j, code, m) ==
  Start(j, Task("reserve", Owner, "open", code, m, None)) /\ UNCHANGED locks

Priced(j) == Goto(j, IF job[j].code THEN "row" ELSE "create")

\* capMonths: what the draft of a plan of m months says.
Drafted(m) == IF m > MaxMonths THEN MaxMonths ELSE m

Twins(u, code, months) ==
  {o \in Numbers : /\ orders[o].kind = "new" /\ orders[o].user = u
                   /\ orders[o].code = code /\ orders[o].months = months
                   /\ orders[o].recent /\ orders[o].status = "pending_payment"}

\* A recent pending order with the columns of the draft is used again: nothing is
\* created.  An order has the months of its plan, which the draft may have cut.
Recent(j) ==
  /\ At(j, "recent")
  /\ IF Twins(job[j].user, job[j].code, Drafted(job[j].months)) # {}
     THEN Ends(j) ELSE Priced(j)
  /\ UNCHANGED <<tables, requests, upsets, history>>

UnpaidReserves ==
  {o \in Numbers : /\ orders[o].kind = "reserve"
                   /\ orders[o].status \in {"pending_payment", "awaiting_review"}}

\* existingReserve.
OpenReserves ==
  {o \in Numbers : /\ orders[o].kind = "reserve"
                   /\ orders[o].status \in {"pending_payment", "awaiting_review",
                                            "reserved", "paid"}}

NoReserve(j) ==
  /\ At(j, "open")
  /\ IF OpenReserves # {} THEN Ends(j) ELSE Priced(j)
  /\ UNCHANGED <<tables, requests, upsets, history>>

\* previewDiscount reads the code ...
ReadCode(j) ==
  /\ At(j, "row")
  /\ job' = [job EXCEPT ![j].at = "own", ![j].seen = used]
  /\ UNCHANGED <<tables, locks, requests, upsets, history>>

OwnPaid(u) ==
  {o \in Numbers : /\ orders[o].user = u /\ orders[o].code
                   /\ orders[o].status \in {"paid", "provisioning", "completed"}}

\* buyerAlreadyUsedDiscount.
OwnUsed(u) ==
  {o \in Numbers : /\ orders[o].user = u /\ orders[o].code
                   /\ orders[o].status \in {"awaiting_review", "paid", "provisioning",
                                            "completed"}}

\* ... asks whether a one-time code was used by the buyer, then whether the code
\* was used up when it was read.
CheckCode(j) ==
  /\ At(j, "own")
  /\ IF (MaxUses = 1 /\ OwnUsed(job[j].user) # {}) \/ job[j].seen >= MaxUses
     THEN Ends(j) ELSE Goto(j, "drop")
  /\ UNCHANGED <<tables, requests, upsets, history>>

Cancelled(S) ==
  [o \in Numbers |-> IF o \in S THEN [orders[o] EXCEPT !.status = "cancelled"]
                                ELSE orders[o]]

\* cancelOpenPendingForDiscount.
DropPending(j) ==
  /\ At(j, "drop")
  /\ orders' = Cancelled({o \in Numbers : /\ orders[o].user = job[j].user /\ orders[o].code
                                          /\ orders[o].status = "pending_payment"})
  /\ Goto(j, "create")
  /\ UNCHANGED <<used, claimed, tests, requests, upsets, history>>

\* createMatrixOrder.
CreateOrder(j) ==
  /\ At(j, "create")
  /\ orders' = Append(orders,
       [kind |-> IF job[j].kind = "reserve" THEN "reserve" ELSE "new",
        user |-> job[j].user, code |-> job[j].code, months |-> job[j].months,
        inBot |-> job[j].kind = "tap",
        status |-> "pending_payment", receipt |-> FALSE, recent |-> TRUE])
  /\ Ends(j)
  /\ raced' = IF job[j].code /\ j \in overlapped THEN [raced EXCEPT ![job[j].user] = @ + 1]
              ELSE raced
  /\ UNCHANGED <<used, claimed, tests, requests, upsets, peak, reopened, unnoted,
                 overlapped, given>>

-----------------------------------------------------------------------------
(* Payment, as far as it counts something.                                 *)

\* payOrderWithWallet and provisionAdminComplimentary up to the update to paid.
Pay(j, o) ==
  /\ orders[o].status = "pending_payment"
  /\ Start(j, Task("pay", orders[o].user, "paid", FALSE, 0, o)) /\ UNCHANGED locks

\* An administrator's screen keeps orders that had a receipt, whatever became of
\* them, and lists those stuck at paid.  Completed ones are turned away.
OnScreen(o) == orders[o].receipt \/ orders[o].status = "paid"

Approve(j, o) ==
  /\ OnScreen(o) /\ orders[o].status # "completed"
  /\ Start(j, Task("approve", orders[o].user, "mark", FALSE, 0, o)) /\ UNCHANGED locks

PaidLike == {"paid", "reserved", "provisioning", "completed"}

\* markPaid hands on what is paid already.
MarkPaid(j) ==
  /\ At(j, "mark")
  /\ Goto(j, IF Status(j) \in PaidLike THEN "fulfil" ELSE "paid")
  /\ UNCHANGED <<tables, requests, upsets, history>>

\* The update to paid looks at nothing.
WritePaid(j) ==
  /\ At(j, "paid")
  /\ SetStatus(job[j].ord, "paid")
  /\ reopened' = IF job[j].kind = "approve" /\ Status(j) \in {"rejected", "cancelled"}
                 THEN reopened + 1 ELSE reopened
  /\ Goto(j, "record")
  /\ UNCHANGED <<used, claimed, tests, requests, upsets, peak, unnoted, overlapped,
                 raced, given>>

RecordUseUncapped(j) ==
  /\ At(j, "record")
  /\ used' = IF orders[job[j].ord].code THEN used + 1 ELSE used
  /\ Goto(j, "fulfil")
  /\ UNCHANGED <<orders, claimed, tests, requests, upsets, history>>

\* recordDiscountUse.
RecordUse(j) ==
  /\ At(j, "record")
  /\ used' = IF orders[job[j].ord].code /\ used < MaxUses THEN used + 1 ELSE used
  /\ Goto(j, "fulfil")
  /\ UNCHANGED <<orders, claimed, tests, requests, upsets, history>>

\* fulfillAfterPaid: reserved; or completed, turned away because it was, or put
\* back by the catch block of provisionOrder.
Fulfil(j) ==
  LET o == orders[job[j].ord] IN
  /\ At(j, "fulfil")
  /\ \/ o.kind = "reserve" /\ SetStatus(job[j].ord, "reserved")
     \/ o.kind = "new" /\ SetStatus(job[j].ord, "completed")
     \/ /\ o.kind = "new" /\ o.status # "completed"
        /\ SetStatus(job[j].ord, IF o.receipt THEN "awaiting_review" ELSE "paid")
  /\ Ends(j)
  /\ UNCHANGED <<used, claimed, tests, requests, upsets, history>>

\* attachReceipt: a read, then an update without a condition.
SendReceipt(j, o) ==
  /\ orders[o].status \in {"pending_payment", "awaiting_review"}
  /\ Start(j, Task("receipt", orders[o].user, "attach", FALSE, 0, o)) /\ UNCHANGED locks

AttachReceipt(j) ==
  /\ At(j, "attach")
  /\ orders' = [orders EXCEPT ![job[j].ord].status = "awaiting_review",
                              ![job[j].ord].receipt = TRUE]
  /\ Ends(j)
  /\ UNCHANGED <<used, claimed, tests, requests, upsets, history>>

\* applyDueRenewalReservations: found reserved, claimed later, without a condition.
PickReservation(j, o) ==
  /\ orders[o].kind = "reserve" /\ orders[o].status = "reserved"
  /\ Start(j, Task("tick", Owner, "claim", FALSE, 0, o)) /\ UNCHANGED locks

ClaimReservation(j) ==
  /\ At(j, "claim")
  /\ SetStatus(job[j].ord, "provisioning")
  /\ Goto(j, "apply")
  /\ UNCHANGED <<used, claimed, tests, requests, upsets, history>>

\* The renewal, or the catch block.
ApplyReservation(j) ==
  /\ At(j, "apply")
  /\ \E s \in {"completed", "reserved"} : SetStatus(job[j].ord, s)
  /\ Ends(j)
  /\ UNCHANGED <<used, claimed, tests, requests, upsets, history>>

-----------------------------------------------------------------------------
(* claimTestService, for users who are not administrators.                 *)

Test(j, u) ==
  /\ u \notin claimed
  /\ Start(j, Task("test", u, "check", FALSE, 0, None)) /\ UNCHANGED locks

\* A test subscription that is there already sets the flag again.
CheckTests(j) ==
  /\ At(j, "check")
  /\ Goto(j, IF job[j].user \in tests THEN "again" ELSE "client")
  /\ UNCHANGED <<tables, requests, upsets, history>>

AddTestClient(j) ==
  /\ At(j, "client")
  /\ given' = [given EXCEPT ![job[j].user] = @ + 1]
  /\ Goto(j, "subscription")
  /\ UNCHANGED <<tables, requests, upsets, peak, reopened, unnoted, overlapped, raced>>

CreateTest(j) ==
  /\ At(j, "subscription")
  /\ tests' = tests \cup {job[j].user}
  /\ Goto(j, "flag")
  /\ UNCHANGED <<orders, used, claimed, requests, upsets, history>>

FlagTestForgotten(j) ==
  /\ job[j] # None /\ job[j].at \in {"flag", "again"}
  /\ Ends(j)
  /\ UNCHANGED <<tables, requests, upsets, history>>

FlagTest(j) ==
  /\ job[j] # None /\ job[j].at \in {"flag", "again"}
  /\ claimed' = claimed \cup {job[j].user}
  /\ Ends(j)
  /\ UNCHANGED <<orders, used, tests, requests, upsets, history>>

-----------------------------------------------------------------------------
(* What happens between requests.                                          *)

\* rejectOrder looks at nothing.
Reject(o) == OnScreen(o) /\ SetStatus(o, "rejected")

\* "cancel".
Cancel(o) == orders[o].status = "pending_payment" /\ SetStatus(o, "cancelled")

\* cancelStalePendingDiscountOrders.
CancelStale ==
  LET stale == {o \in Numbers : /\ orders[o].code /\ ~orders[o].recent
                                /\ orders[o].status = "pending_payment"}
  IN stale # {} /\ orders' = Cancelled(stale)

\* Time passes: what was created is recent no more.
Age ==
  /\ \E o \in Numbers : orders[o].recent
  /\ orders' = [o \in Numbers |-> [orders[o] EXCEPT !.recent = FALSE]]

\* deleteConfig of a test account.
DeleteTest(u) == u \in tests /\ tests' = tests \ {u}

Upset == upsets < MaxUpsets /\ upsets' = upsets + 1

\* Requests that end here have done something and not noted it.
LeftUnnoted(S) ==
  unnoted' =
    [uses |-> unnoted.uses + Cardinality({j \in S : job[j].at = "record"}),
     clients |-> unnoted.clients
                 + Cardinality({j \in S : job[j].at \in {"subscription", "flag"}}),
     renewals |-> unnoted.renewals + Cardinality({j \in S : job[j].at = "apply"})]

\* A call fails, or a check that is not modelled refuses: the request ends.
FailsLocked(j) ==
  /\ job[j] # None /\ Upset
  /\ EndsLocked(j) /\ LeftUnnoted({j})
  /\ UNCHANGED <<tables, requests, peak, reopened, overlapped, raced, given>>

Fails(j) ==
  /\ job[j] # None /\ Upset
  /\ Ends(j) /\ LeftUnnoted({j})
  /\ UNCHANGED <<tables, requests, peak, reopened, overlapped, raced, given>>

\* What was in memory is lost.
Restart ==
  /\ Busy # {} /\ Upset
  /\ job' = [j \in Jobs |-> None] /\ locks' = {}
  /\ LeftUnnoted(Busy)
  /\ UNCHANGED <<tables, requests, peak, reopened, overlapped, raced, given>>

Proceed(j) ==
  \/ Recent(j) \/ NoReserve(j) \/ ReadCode(j) \/ CheckCode(j) \/ DropPending(j)
  \/ CreateOrder(j) \/ MarkPaid(j) \/ WritePaid(j) \/ RecordUse(j) \/ Fulfil(j)
  \/ AttachReceipt(j) \/ ClaimReservation(j) \/ ApplyReservation(j)
  \/ CheckTests(j) \/ AddTestClient(j) \/ CreateTest(j) \/ FlagTest(j)

Months == {d[3] : d \in Requested}

Ask(j) ==
  \/ \E u \in Users, c \in Codes, m \in Months : Tap(j, u, c, m) \/ Order(j, u, c, m)
  \/ \E c \in Codes, m \in Months : Reservation(j, c, m)
  \/ \E o \in Numbers : Pay(j, o) \/ Approve(j, o) \/ SendReceipt(j, o)
                        \/ PickReservation(j, o)
  \/ \E u \in Users : Test(j, u)

Meanwhile ==
  \/ /\ \/ \E o \in Numbers : Reject(o) \/ Cancel(o)
        \/ CancelStale \/ Age
     /\ UNCHANGED <<used, claimed, tests, locks, job, requests, upsets, history>>
  \/ \E u \in Users :
       DeleteTest(u) /\ UNCHANGED <<orders, used, claimed, locks, job, requests, upsets, history>>

Next == (\E j \in Jobs : Ask(j) \/ Proceed(j) \/ Fails(j)) \/ Meanwhile \/ Restart

Spec == Init /\ [][Next]_vars

\* Calls return or fail, so a request that was started goes on.
FairSpec == Spec /\ \A j \in Jobs : WF_vars(Proceed(j))

-----------------------------------------------------------------------------
(* Properties.                                                             *)

(***************************************************************************)
(* "Prevent double-tap checkout" (bot/index.ts:187, 1972): however often   *)
(* the button is pressed, in the bot a user has one recent pending order   *)
(* of a draft, if the draft says what its order will say.  The draft of a  *)
(* plan of more than MaxMonths months does not (draft.ts:239 against       *)
(* orders.ts:262): the lookup never finds its order, and each press after  *)
(* the one before has ended makes another.                                 *)
(***************************************************************************)
OneTap == \A u \in Users, c \in Codes, m \in Months : Drafted(m) = m =>
  Cardinality({o \in Twins(u, c, m) : orders[o].inBot}) <= 1

(***************************************************************************)
(* One open reservation per subscription (orders.ts:118-137).  The check   *)
(* and the creation are awaits apart, and a reservation the timer works on *)
(* is not seen: each further one takes another request in flight at the    *)
(* same time, a timer that died after it had claimed the reservation, or   *)
(* an administrator who approves what was taken back.                      *)
(***************************************************************************)
ReservationsBounded ==
  Cardinality({o \in Numbers :
    /\ orders[o].kind = "reserve"
    /\ orders[o].status \notin {"provisioning", "completed", "rejected", "cancelled"}})
    <= peak + reopened + unnoted.renewals

Taken(u) ==
  {o \in Numbers : /\ orders[o].user = u /\ orders[o].code
                   /\ orders[o].status \notin {"pending_payment", "rejected", "cancelled"}}

(***************************************************************************)
(* A one-time code serves a buyer once (discount-codes.ts:121): his orders *)
(* with it under review, paid or further are one, and those that were made *)
(* while another request of his was in flight, those an administrator took *)
(* back from rejection, and the uses that a failure left unrecorded.       *)
(***************************************************************************)
CodeOncePerBuyer == MaxUses = 1 =>
  \A u \in Users : Cardinality(Taken(u)) <= 1 + raced[u] + reopened + unnoted.uses

(***************************************************************************)
(* "One free test account per normal telegram user" (test-service.ts:72):  *)
(* also after it was deleted; more only by requests that raced or broke    *)
(* off before the claim was written.                                       *)
(***************************************************************************)
TestsBounded == \A u \in Users : given[u] <= peak + unnoted.clients

(***************************************************************************)
(* The lock of a checkout is given back, whatever fails: nobody is told    *)
(* "please wait" for good (bot/index.ts:1937, 2055).                       *)
(***************************************************************************)
LockFreed == \A u \in Users : u \in locks ~> u \notin locks

=============================================================================
