------------------------------- MODULE Orders -------------------------------
(***************************************************************************)
(* The life of one buyer's orders: payment, review, fulfilment, delivery.  *)
(*                                                                         *)
(* One Node process serves the Telegram bot, the web dashboard and the     *)
(* timers.  Each request, callback or tick is a handler; it is suspended   *)
(* at every await, so handlers interleave between database calls, and each *)
(* database call is atomic.  pc[h] names the await handler h stands at.    *)
(* Everything a handler keeps in memory - and the lock set walletPayLocks  *)
(* - is lost when the process restarts; the database is not.               *)
(***************************************************************************)
EXTENDS Integers, FiniteSets

CONSTANTS
  Orders,         \* orders of the buyer
  Handlers,       \* requests the process may have in flight at the same time
  Kind,           \* Order.kind of each order
  Price,          \* Order.price of each order
  Quantity,       \* Order.quantity: accounts a new order asks for
  Modes,          \* values the setting of manual delivery takes while it runs
  Native,         \* orders whose target was delivered by hand, on no panel
  Discounted,     \* orders that carry the discount code
  Gifts,          \* orders an administrator creates and grants himself
  MaxUses,        \* DiscountCode.maxUses
  Opening,        \* the buyer's balance at the start
  Overdraft,      \* the buyer's negative-credit limit
  Channels,       \* where the buyer can press "pay from wallet"
  MaxRequests,    \* bound: handlers started
  MaxFaults,      \* bound: restarts, and updates outside any try block refused
  NoOrder         \* what an idle handler works on

Kinds == {"new", "renew", "edit", "addon", "renew_reserve", "wallet_charge"}

\* Kinds of order that are for an existing subscription, Order.targetSub.
TargetKinds == {"renew", "edit", "addon", "renew_reserve"}

Statuses == {"pending_payment", "awaiting_review", "paid", "reserved",
             "awaiting_delivery", "provisioning", "completed", "rejected",
             "cancelled"}

ASSUME OrderAssumption ==
  /\ Kind \in [Orders -> Kinds]
  /\ Price \in [Orders -> Nat]
  /\ Quantity \in [Orders -> Nat \ {0}]
  /\ \A o \in Orders : Kind[o] # "new" => Quantity[o] = 1
  /\ Modes \subseteq BOOLEAN
  /\ Native \subseteq {o \in Orders : Kind[o] \in TargetKinds}
  /\ Discounted \subseteq Orders
  /\ Gifts \subseteq {o \in Orders : Kind[o] # "wallet_charge"}
  /\ NoOrder \notin Orders
ASSUME MoneyAssumption == MaxUses \in Nat /\ Opening \in Int /\ Overdraft \in Nat
ASSUME ChannelAssumption == Channels \subseteq {"bot", "web"}
ASSUME BoundAssumption ==
  IsFiniteSet(Handlers) /\ MaxRequests \in Nat /\ MaxFaults \in Nat

VARIABLES
  status,     \* Order.status
  receipt,    \* Order.receiptFileId or receiptText is set
  linked,     \* a Subscription row carries this orderId (a unique column)
  rows,       \* Subscription rows made for the order
  clients,    \* clients added to the panel for the order
  applied,    \* times the target subscription was renewed, edited or extended
  pasted,     \* orders delivered by a pasted link: their subscription is serverless
  aimed,      \* orders whose targetSubId is set
  balance,    \* the buyer's wallet
  debits,     \* ledger rows "order:<id>"
  credits,    \* ledger rows "charge:<id>"
  used,       \* DiscountCode.usedCount
  listed,     \* orders an administrator has on screen (Telegram message or page)
  asked,      \* orders an administrator has a button to paste a link for
  locks,      \* walletPayLocks
  pc,         \* the await each handler stands at
  on,         \* the order each handler works on
  back,       \* the status the handler's catch block writes back
  made,       \* accounts of this run createPanelClientsBulk has finished
  aim,        \* the order the handler read had its targetSub
  holds,      \* the handler has to release a lock
  approvals,  \* history: administrators' decisions to fulfil the order
  requests,   \* bounded: handlers started
  faults      \* bounded: restarts and refused updates

goods == <<rows, clients, applied, pasted, aimed>>
money == <<balance, debits, credits, used>>
handling == <<pc, on, back, made, aim, holds, locks>>
history == <<listed, asked, approvals, requests, faults>>
vars == <<status, receipt, linked, goods, money, handling, history>>

Labels == {"idle", "debit", "settle", "mark", "record", "fulfil", "queue",
           "claim", "credit", "client", "row", "target", "complete", "failed",
           "receipt", "back", "deliver"}

\* Statuses only a paid or approved order reaches.
PaidLike == {"paid", "reserved", "awaiting_delivery", "provisioning", "completed"}

StoreOK ==
  /\ status \in [Orders -> Statuses]
  /\ receipt \in [Orders -> BOOLEAN]
  /\ linked \in [Orders -> BOOLEAN]
  /\ rows \in [Orders -> Nat]
  /\ clients \in [Orders -> Nat]
  /\ applied \in [Orders -> Nat]
  /\ pasted \in SUBSET Orders
  /\ aimed \in SUBSET {o \in Orders : Kind[o] \in TargetKinds}
  /\ balance \in Int
  /\ debits \in [Orders -> Nat]
  /\ credits \in [Orders -> Nat]
  /\ used \in Nat

\* From the claim to the catch block a handler knows what to restore.
Restoring == {"claim", "credit", "client", "row", "target", "failed"}

HandlingOK ==
  /\ pc \in [Handlers -> Labels]
  /\ on \in [Handlers -> Orders \cup {NoOrder}]
  /\ back \in [Handlers -> {"paid", "awaiting_review", "reserved", "none"}]
  /\ made \in [Handlers -> Nat]
  /\ aim \in [Handlers -> BOOLEAN]
  /\ holds \in [Handlers -> BOOLEAN]
  /\ locks \in SUBSET Orders
  /\ \A h \in Handlers : pc[h] # "idle" => on[h] \in Orders
  /\ \A h \in Handlers : pc[h] \in Restoring => back[h] # "none"

HistoryOK ==
  /\ listed \in SUBSET Orders
  /\ asked \in SUBSET Orders
  /\ approvals \in [Orders -> Nat]
  /\ requests \in Nat
  /\ faults \in Nat

TypeOK == StoreOK /\ HandlingOK /\ HistoryOK

Init ==
  /\ status = [o \in Orders |-> "pending_payment"]
  /\ receipt = [o \in Orders |-> FALSE]
  /\ linked = [o \in Orders |-> FALSE]
  /\ rows = [o \in Orders |-> 0]
  /\ clients = [o \in Orders |-> 0]
  /\ applied = [o \in Orders |-> 0]
  /\ pasted = {}
  /\ aimed = {o \in Orders : Kind[o] \in TargetKinds}
  /\ balance = Opening
  /\ debits = [o \in Orders |-> 0]
  /\ credits = [o \in Orders |-> 0]
  /\ used = 0
  /\ listed = {}
  /\ asked = {}
  /\ locks = {}
  /\ pc = [h \in Handlers |-> "idle"]
  /\ on = [h \in Handlers |-> NoOrder]
  /\ back = [h \in Handlers |-> "none"]
  /\ made = [h \in Handlers |-> 0]
  /\ aim = [h \in Handlers |-> FALSE]
  /\ holds = [h \in Handlers |-> FALSE]
  /\ approvals = [o \in Orders |-> 0]
  /\ requests = 0
  /\ faults = 0

-----------------------------------------------------------------------------
(* Starting, moving and ending a handler.                                  *)

Enter(h, o, at) ==
  /\ pc[h] = "idle"
  /\ requests < MaxRequests
  /\ requests' = requests + 1
  /\ pc' = [pc EXCEPT ![h] = at]
  /\ on' = [on EXCEPT ![h] = o]

Goto(h, at) == pc' = [pc EXCEPT ![h] = at]

Stay == UNCHANGED <<on, back, made, aim, holds, locks>>

\* Returning or throwing: the finally block gives the lock back.
Finish(h) ==
  /\ pc' = [pc EXCEPT ![h] = "idle"]
  /\ on' = [on EXCEPT ![h] = NoOrder]
  /\ back' = [back EXCEPT ![h] = "none"]
  /\ made' = [made EXCEPT ![h] = 0]
  /\ aim' = [aim EXCEPT ![h] = FALSE]
  /\ holds' = [holds EXCEPT ![h] = FALSE]
  /\ locks' = IF holds[h] THEN locks \ {on[h]} ELSE locks

SetStatus(o, s) == status' = [status EXCEPT ![o] = s]

-----------------------------------------------------------------------------
(* payOrderWithWallet, up to its first write.                              *)

PayInBotUnlocked(h, o) ==
  /\ "bot" \in Channels
  /\ status[o] = "pending_payment" /\ Kind[o] # "wallet_charge"
  /\ Enter(h, o, "debit")
  /\ locks' = locks \cup {o}
  /\ holds' = [holds EXCEPT ![h] = TRUE]
  /\ UNCHANGED <<status, receipt, linked, goods, money, back, made, aim,
                 listed, asked, approvals, faults>>

PayInBotAnyKind(h, o) ==
  /\ "bot" \in Channels
  /\ o \notin locks
  /\ status[o] = "pending_payment"
  /\ Enter(h, o, "debit")
  /\ locks' = locks \cup {o}
  /\ holds' = [holds EXCEPT ![h] = TRUE]
  /\ UNCHANGED <<status, receipt, linked, goods, money, back, made, aim,
                 listed, asked, approvals, faults>>

\* The bot callback first takes the lock of this user and order.
PayInBot(h, o) ==
  /\ "bot" \in Channels
  /\ o \notin locks
  /\ status[o] = "pending_payment" /\ Kind[o] # "wallet_charge"
  /\ Enter(h, o, "debit")
  /\ locks' = locks \cup {o}
  /\ holds' = [holds EXCEPT ![h] = TRUE]
  /\ UNCHANGED <<status, receipt, linked, goods, money, back, made, aim,
                 listed, asked, approvals, faults>>

\* The dashboard route takes none.
PayInWeb(h, o) ==
  /\ "web" \in Channels
  /\ status[o] = "pending_payment" /\ Kind[o] # "wallet_charge"
  /\ Enter(h, o, "debit")
  /\ UNCHANGED <<status, receipt, linked, goods, money, back, made, aim, holds,
                 locks, listed, asked, approvals, faults>>

\* debitWallet, skipped for a free order.
Debit(h) == LET o == on[h] IN
  /\ pc[h] = "debit"
  /\ Price[o] > 0 => balance - Price[o] >= -Overdraft
  /\ balance' = balance - Price[o]
  /\ debits' = [debits EXCEPT ![o] = IF Price[o] > 0 THEN @ + 1 ELSE @]
  /\ Goto(h, "settle") /\ Stay
  /\ UNCHANGED <<status, receipt, linked, goods, credits, used, history>>

DebitRefusedIgnored(h) ==
  /\ pc[h] = "debit" /\ Price[on[h]] > 0
  /\ Goto(h, "settle") /\ Stay
  /\ UNCHANGED <<status, receipt, linked, goods, money, history>>

\* Too little money, or the database refuses: the error leaves the handler.
DebitRefused(h) ==
  /\ pc[h] = "debit" /\ Price[on[h]] > 0
  /\ Finish(h)
  /\ UNCHANGED <<status, receipt, linked, goods, money, history>>

-----------------------------------------------------------------------------
(* Decisions of administrators.                                            *)

\* GET /admin/orders/pending.
InPendingList(o) ==
  \/ status[o] \in {"awaiting_review", "awaiting_delivery"}
  \/ status[o] = "paid" /\ ~linked[o] /\ Kind[o] # "wallet_charge"

\* The order reaches a screen, which keeps showing it whatever happens next.
List(o) ==
  /\ o \notin listed /\ InPendingList(o)
  /\ listed' = listed \cup {o}
  /\ UNCHANGED <<status, receipt, linked, goods, money, handling, asked, approvals,
                 requests, faults>>

Approve(h, o) ==
  /\ o \in listed
  /\ Enter(h, o, "mark")
  /\ approvals' = [approvals EXCEPT ![o] = @ + 1]
  /\ UNCHANGED <<status, receipt, linked, goods, money, back, made, aim, holds,
                 locks, listed, asked, faults>>

\* The dashboard turns away completed orders only.
ApproveInWeb(h, o) == status[o] # "completed" /\ Approve(h, o)

\* The bot callback also turns away those waiting for a pasted link.
ApproveInBot(h, o) ==
  status[o] \notin {"completed", "awaiting_delivery"} /\ Approve(h, o)

\* markPaid reads the order again; an already paid one is passed on as it is.
MarkPaid(h) ==
  /\ pc[h] = "mark"
  /\ Goto(h, IF status[on[h]] \in PaidLike THEN "fulfil" ELSE "settle") /\ Stay
  /\ UNCHANGED <<status, receipt, linked, goods, money, history>>

\* provisionAdminComplimentary: paid without a debit.
Complimentary(h, o) ==
  /\ o \in Gifts /\ status[o] = "pending_payment"
  /\ Enter(h, o, "settle")
  /\ approvals' = [approvals EXCEPT ![o] = @ + 1]
  /\ UNCHANGED <<status, receipt, linked, goods, money, back, made, aim, holds,
                 locks, listed, asked, faults>>

\* rejectOrder looks at nothing.
Reject(o) ==
  /\ o \in listed
  /\ SetStatus(o, "rejected")
  /\ UNCHANGED <<receipt, linked, goods, money, handling, history>>

-----------------------------------------------------------------------------
(* From paid to fulfilled.                                                 *)

\* The update to paid that payOrderWithWallet, markPaid and
\* provisionAdminComplimentary share.
Settle(h) ==
  /\ pc[h] = "settle"
  /\ SetStatus(on[h], "paid")
  /\ Goto(h, "record") /\ Stay
  /\ UNCHANGED <<receipt, linked, goods, money, history>>

\* recordDiscountUse: a conditional increment.
RecordDiscountUse(h) ==
  /\ pc[h] = "record"
  /\ used' = IF on[h] \in Discounted /\ used < MaxUses THEN used + 1 ELSE used
  /\ Goto(h, "fulfil") /\ Stay
  /\ UNCHANGED <<status, receipt, linked, goods, balance, debits, credits, history>>

\* fulfillAfterPaid queues a prepaid renewal, whatever the status is now.
Reserve(h) ==
  /\ pc[h] = "fulfil" /\ Kind[on[h]] = "renew_reserve"
  /\ SetStatus(on[h], "reserved")
  /\ Finish(h)
  /\ UNCHANGED <<receipt, linked, goods, money, history>>

\* orderNeedsServerlessDelivery.  The setting may be switched at any time, so an
\* answer is one for some value of it; an order that lost its target is manual.
NeedsDelivery(o, manual) ==
  /\ manual
  /\ \/ Kind[o] = "new"
     \/ Kind[o] \in {"renew", "edit"} /\ (o \in aimed => o \in Native \cup pasted)

\* enterServerlessAwaitingDelivery: its read, then its update.
CheckQueue(h) == LET o == on[h] IN
  /\ pc[h] = "fulfil" /\ \E manual \in Modes : NeedsDelivery(o, manual)
  /\ IF status[o] \in {"completed", "awaiting_delivery"} \/ linked[o]
       THEN Finish(h)
       ELSE Goto(h, "queue") /\ Stay
  /\ UNCHANGED <<status, receipt, linked, goods, money, history>>

\* The message to the administrators carries the button to paste a link.
Queue(h) ==
  /\ pc[h] = "queue"
  /\ SetStatus(on[h], "awaiting_delivery")
  /\ asked' = asked \cup {on[h]}
  /\ Finish(h)
  /\ UNCHANGED <<receipt, linked, goods, money, listed, approvals, requests, faults>>

\* fulfillAfterPaid hands over to provisionOrder.
ForPanel(o) ==
  /\ Kind[o] # "renew_reserve"
  /\ \E manual \in Modes : ~NeedsDelivery(o, manual)

Provisioned(o) ==
  IF Kind[o] = "wallet_charge" THEN status[o] = "completed" ELSE linked[o]

CheckProvisionRestoresNothing(h) == LET o == on[h] IN
  /\ pc[h] = "fulfil" /\ ForPanel(o)
  /\ IF Provisioned(o)
       THEN Finish(h)
       ELSE /\ Goto(h, "claim")
            /\ aim' = [aim EXCEPT ![h] = o \in aimed]
            /\ UNCHANGED <<on, back, made, holds, locks>>
  /\ UNCHANGED <<status, receipt, linked, goods, money, history>>

\* provisionOrder's read: what it refuses, whether the order still has its target,
\* and what its catch will restore.
CheckProvision(h) == LET o == on[h] IN
  /\ pc[h] = "fulfil" /\ ForPanel(o)
  /\ IF Provisioned(o)
       THEN Finish(h)
       ELSE /\ Goto(h, "claim")
            /\ back' = [back EXCEPT ![h] =
                 IF Kind[o] # "wallet_charge" /\ receipt[o]
                   THEN "awaiting_review" ELSE "paid"]
            /\ aim' = [aim EXCEPT ![h] = o \in aimed]
            /\ UNCHANGED <<on, made, holds, locks>>
  /\ UNCHANGED <<status, receipt, linked, goods, money, history>>

\* Where the work starts: an order that was read without its target falls
\* through to the creation of an account, whatever its kind.
Work(h) == CASE Kind[on[h]] = "wallet_charge" -> "credit"
             [] aim[h] -> "target"
             [] OTHER -> "client"

Claim(h) ==
  /\ pc[h] = "claim"
  /\ SetStatus(on[h], "provisioning")
  /\ Goto(h, Work(h)) /\ Stay
  /\ UNCHANGED <<receipt, linked, goods, money, history>>

\* creditWallet.
Credit(h) == LET o == on[h] IN
  /\ pc[h] = "credit"
  /\ balance' = balance + Price[o]
  /\ credits' = [credits EXCEPT ![o] = @ + 1]
  /\ Goto(h, "complete") /\ Stay
  /\ UNCHANGED <<status, receipt, linked, goods, debits, used, history>>

\* createOnePanelClient, first half: the panel knows the client.
AddClient(h) ==
  /\ pc[h] = "client"
  /\ clients' = [clients EXCEPT ![on[h]] = @ + 1]
  /\ Goto(h, "row") /\ Stay
  /\ UNCHANGED <<status, receipt, linked, rows, applied, pasted, aimed, money, history>>

CreateRowLinksLast(h) == LET o == on[h]
                             last == made[h] + 1 = Quantity[o] IN
  /\ pc[h] = "row"
  /\ last => ~linked[o]
  /\ rows' = [rows EXCEPT ![o] = @ + 1]
  /\ linked' = [linked EXCEPT ![o] = @ \/ last]
  /\ made' = [made EXCEPT ![h] = @ + 1]
  /\ Goto(h, IF last THEN "complete" ELSE "client")
  /\ UNCHANGED <<status, receipt, clients, applied, pasted, aimed, money, on, back,
                 aim, holds, locks, history>>

\* Second half: the Subscription row.  Only the first of a bulk order carries
\* the orderId, and the unique column refuses a second one.
CreateRow(h) == LET o == on[h] IN
  /\ pc[h] = "row"
  /\ made[h] = 0 => ~linked[o]
  /\ rows' = [rows EXCEPT ![o] = @ + 1]
  /\ linked' = [linked EXCEPT ![o] = TRUE]
  /\ made' = [made EXCEPT ![h] = @ + 1]
  /\ Goto(h, IF made[h] + 1 < Quantity[o] THEN "client" ELSE "complete")
  /\ UNCHANGED <<status, receipt, clients, applied, pasted, aimed, money, on, back,
                 aim, holds, locks, history>>

RowTaken(h) ==
  /\ pc[h] = "row" /\ made[h] = 0 /\ linked[on[h]]
  /\ Goto(h, "failed") /\ Stay
  /\ UNCHANGED <<status, receipt, linked, goods, money, history>>

\* renewSubscription, editSubscriptionPackage, applyAddDays, applyAddGb and the
\* rotations rewrite the target, which each of them reads again: one deleted in
\* the meantime is not found, and the run fails.
UpdateTarget(h) ==
  /\ pc[h] = "target" /\ on[h] \in aimed
  /\ applied' = [applied EXCEPT ![on[h]] = @ + 1]
  /\ Goto(h, "complete") /\ Stay
  /\ UNCHANGED <<status, receipt, linked, rows, clients, pasted, aimed, money, history>>

WorkFailsSilently(h) ==
  /\ pc[h] \in {"credit", "client", "row", "target"}
  /\ Goto(h, "complete") /\ Stay
  /\ UNCHANGED <<status, receipt, linked, goods, money, history>>

\* Any step of the try block can throw: the panel is unreachable, the database
\* busy.  The timer's try block starts before its claim.
WorkFails(h) ==
  /\ \/ pc[h] \in {"credit", "client", "row", "target", "complete"}
     \/ pc[h] = "claim" /\ back[h] = "reserved"
  /\ IF back[h] = "none" THEN Finish(h) ELSE Goto(h, "failed") /\ Stay
  /\ UNCHANGED <<status, receipt, linked, goods, money, history>>

\* markOrderCompleted.
Complete(h) ==
  /\ pc[h] = "complete"
  /\ SetStatus(on[h], "completed")
  /\ Finish(h)
  /\ UNCHANGED <<receipt, linked, goods, money, history>>

RestoreNothing(h) ==
  /\ pc[h] = "failed"
  /\ Finish(h)
  /\ UNCHANGED <<status, receipt, linked, goods, money, history>>

\* The catch block.
Restore(h) ==
  /\ pc[h] = "failed"
  /\ SetStatus(on[h], back[h])
  /\ Finish(h)
  /\ UNCHANGED <<receipt, linked, goods, money, history>>

-----------------------------------------------------------------------------
(* The link an administrator pastes for an order queued for it.             *)

\* completeServerlessDelivery's read, which asks neither for the mode nor for the
\* quantity.
CheckDelivery(h, o) ==
  /\ o \in asked
  /\ status[o] \in {"awaiting_delivery", "paid"}
  /\ Kind[o] \in {"new", "renew"}
  /\ Enter(h, o, "deliver")
  /\ aim' = [aim EXCEPT ![h] = o \in aimed]
  /\ UNCHANGED <<status, receipt, linked, goods, money, back, made, holds, locks,
                 listed, asked, approvals, faults>>

\* A renewal read with its target updates it; every other order, one that lost
\* its target included, gets a row of its own.
Deliver(h) == LET o == on[h] IN
  /\ pc[h] = "deliver"
  /\ \/ /\ aim[h] /\ o \in aimed
        /\ applied' = [applied EXCEPT ![o] = @ + 1]
        /\ UNCHANGED <<linked, rows>>
     \/ /\ ~aim[h] /\ ~linked[o]
        /\ linked' = [linked EXCEPT ![o] = TRUE]
        /\ rows' = [rows EXCEPT ![o] = @ + 1]
        /\ UNCHANGED applied
  /\ pasted' = pasted \cup {o}
  /\ Goto(h, "complete") /\ Stay
  /\ UNCHANGED <<status, receipt, clients, aimed, money, history>>

\* A second row for the order, a target deleted since, or a busy database.
DeliveryFails(h) ==
  /\ pc[h] = "deliver"
  /\ Finish(h)
  /\ UNCHANGED <<status, receipt, linked, goods, money, history>>

-----------------------------------------------------------------------------
(* The renew-reserve timer.                                                *)

PickUnpaidReservation(h, o) ==
  /\ Kind[o] = "renew_reserve" /\ status[o] \in {"pending_payment", "reserved"}
  /\ o \in aimed
  /\ Enter(h, o, "claim")
  /\ back' = [back EXCEPT ![h] = "reserved"]
  /\ aim' = [aim EXCEPT ![h] = TRUE]
  /\ UNCHANGED <<status, receipt, linked, goods, money, made, holds, locks, listed,
                 asked, approvals, faults>>

\* A tick finds the reservation with its target, judges it due and runs the same
\* claim, renewal and completion; its catch writes reserved.
PickReservation(h, o) ==
  /\ Kind[o] = "renew_reserve" /\ status[o] = "reserved" /\ o \in aimed
  /\ Enter(h, o, "claim")
  /\ back' = [back EXCEPT ![h] = "reserved"]
  /\ aim' = [aim EXCEPT ![h] = TRUE]
  /\ UNCHANGED <<status, receipt, linked, goods, money, made, holds, locks, listed,
                 asked, approvals, faults>>

-----------------------------------------------------------------------------
(* The buyer's other buttons.                                              *)

\* A receipt sent to the bot: attachReceipt reads, then writes regardless.
SendReceiptInBot(h, o) ==
  /\ status[o] = "pending_payment"
  /\ Enter(h, o, "receipt")
  /\ UNCHANGED <<status, receipt, linked, goods, money, back, made, aim, holds,
                 locks, listed, asked, approvals, faults>>

AttachReceipt(h) ==
  /\ pc[h] = "receipt"
  /\ SetStatus(on[h], "awaiting_review")
  /\ receipt' = [receipt EXCEPT ![on[h]] = TRUE]
  /\ Finish(h)
  /\ UNCHANGED <<linked, goods, money, history>>

\* A receipt sent to the dashboard: one conditional update.
SendReceiptInWeb(o) ==
  /\ status[o] \in {"pending_payment", "awaiting_review"}
  /\ SetStatus(o, "awaiting_review")
  /\ receipt' = [receipt EXCEPT ![o] = TRUE]
  /\ UNCHANGED <<linked, goods, money, handling, history>>

\* "cancel": one conditional update.
Cancel(o) ==
  /\ status[o] = "pending_payment"
  /\ SetStatus(o, "cancelled")
  /\ UNCHANGED <<receipt, linked, goods, money, handling, history>>

\* The stale-discount timer: the same update for abandoned discounted orders.
CancelStale(o) == o \in Discounted /\ Cancel(o)

\* "back" from the payment screen: a read, then an unconditional update.
PressBack(h, o) ==
  /\ status[o] = "pending_payment"
  /\ Enter(h, o, "back")
  /\ UNCHANGED <<status, receipt, linked, goods, money, back, made, aim, holds,
                 locks, listed, asked, approvals, faults>>

CancelOnBack(h) ==
  /\ pc[h] = "back"
  /\ SetStatus(on[h], "cancelled")
  /\ Finish(h)
  /\ UNCHANGED <<receipt, linked, goods, money, history>>

\* deleteConfig and deleteSubscriptionDbOnly: the target of the order is deleted,
\* for the buyer, by an administrator or by a synchronisation, and the order loses
\* its targetSubId.
DeleteTarget(o) ==
  /\ o \in aimed
  /\ aimed' = aimed \ {o}
  /\ UNCHANGED <<status, receipt, linked, rows, clients, applied, pasted, money,
                 handling, history>>

-----------------------------------------------------------------------------
\* The process dies and is started again: only the database and what people
\* have on their screens survive.
Crash ==
  /\ faults < MaxFaults
  /\ faults' = faults + 1
  /\ pc' = [h \in Handlers |-> "idle"]
  /\ on' = [h \in Handlers |-> NoOrder]
  /\ back' = [h \in Handlers |-> "none"]
  /\ made' = [h \in Handlers |-> 0]
  /\ aim' = [h \in Handlers |-> FALSE]
  /\ holds' = [h \in Handlers |-> FALSE]
  /\ locks' = {}
  /\ UNCHANGED <<status, receipt, linked, goods, money, listed, asked, approvals,
                 requests>>

\* The database refuses an update made outside a try block, or in a catch
\* block: the error leaves the handler and nothing is written.
Throw(h) ==
  /\ faults < MaxFaults
  /\ faults' = faults + 1
  /\ \/ pc[h] \in {"settle", "mark", "record", "fulfil", "queue", "failed",
                  "receipt", "back"}
     \/ pc[h] = "claim" /\ back[h] # "reserved"
  /\ Finish(h)
  /\ UNCHANGED <<status, receipt, linked, goods, money, listed, asked, approvals,
                 requests>>

Start(h) == \E o \in Orders :
  \/ PayInBot(h, o) \/ PayInWeb(h, o)
  \/ ApproveInWeb(h, o) \/ ApproveInBot(h, o) \/ Complimentary(h, o)
  \/ CheckDelivery(h, o) \/ PickReservation(h, o)
  \/ SendReceiptInBot(h, o) \/ PressBack(h, o)

Proceed(h) ==
  \/ Debit(h) \/ DebitRefused(h)
  \/ MarkPaid(h) \/ Settle(h) \/ RecordDiscountUse(h)
  \/ Reserve(h) \/ CheckQueue(h) \/ Queue(h)
  \/ CheckProvision(h) \/ Claim(h)
  \/ Credit(h) \/ AddClient(h) \/ CreateRow(h) \/ RowTaken(h) \/ UpdateTarget(h)
  \/ WorkFails(h) \/ Complete(h) \/ Restore(h)
  \/ Deliver(h) \/ DeliveryFails(h)
  \/ AttachReceipt(h) \/ CancelOnBack(h)

AtOnce(o) ==
  \/ List(o) \/ Reject(o) \/ SendReceiptInWeb(o) \/ Cancel(o) \/ CancelStale(o)
  \/ DeleteTarget(o)

Next ==
  \/ \E h \in Handlers : Start(h) \/ Proceed(h) \/ Throw(h)
  \/ \E o \in Orders : AtOnce(o)
  \/ Crash

Spec == Init /\ [][Next]_vars

\* The event loop resumes every handler whose awaited call has ended, and every
\* call ends: fetch gives up after its header timeout, a transaction after its own.
FairSpec == Spec /\ \A h \in Handlers : WF_vars(Proceed(h))

-----------------------------------------------------------------------------
(* Properties.                                                             *)

Delivered(o) == rows[o] + clients[o] + applied[o] + credits[o] > 0
Authorised(o) == Price[o] = 0 \/ debits[o] > 0 \/ approvals[o] > 0

(***************************************************************************)
(* Nobody gets an account, a renewal or a top-up for nothing: whatever has *)
(* been delivered for an order, in part or in full, the wallet was debited *)
(* for it or an administrator decided it.  Statuses are overwritten        *)
(* unconditionally all over the code (orders.ts:435, 496, 561), so this    *)
(* rests on no write reaching a paid status from an unpaid order.          *)
(***************************************************************************)
NothingFree == \A o \in Orders : Delivered(o) => Authorised(o)

(***************************************************************************)
(* An order for n accounts never leaves more than n subscriptions, however *)
(* many approvals and payments run it at once and wherever they fail: the  *)
(* unique orderId of the first account (provision.ts:566) is the only      *)
(* thing that stops the second run, and it stops it before its extras.     *)
(***************************************************************************)
AccountsWithinQuantity == \A o \in Orders : rows[o] <= Quantity[o]

(***************************************************************************)
(* A top-up is credited at most once per decision of an administrator: a   *)
(* failed or interrupted run (provision.ts:338) credits again only if      *)
(* somebody approves again.                                                *)
(***************************************************************************)
CreditsApproved == \A o \in Orders : credits[o] <= approvals[o]

(***************************************************************************)
(* While the buyer can only pay in the bot, the in-memory lock of          *)
(* walletPayLocks (bot/index.ts:2094) debits an order at most once between *)
(* two faults, whatever else happens to the order meanwhile.               *)
(***************************************************************************)
DebitOncePerLife ==
  "web" \notin Channels => \A o \in Orders : debits[o] <= 1 + faults

\* Handlers that will still write the status of o after having claimed it.
Working(h, o) ==
  on[h] = o /\ pc[h] \in {"credit", "client", "row", "target", "complete", "failed"}

(***************************************************************************)
(* Only a restart, or a catch block whose own update is refused, strands   *)
(* an order in provisioning: as long as there was neither, somebody is     *)
(* still at work on every provisioning order (provision.ts:416).           *)
(***************************************************************************)
ProvisioningAttended == \A o \in Orders :
  status[o] = "provisioning" /\ faults = 0 => \E h \in Handlers : Working(h, o)

(***************************************************************************)
(* Fulfilment ends: an order does not stay in provisioning for ever,       *)
(* whether the panel answers or not (provision.ts:416), unless a restart   *)
(* or a refused restore strands it there.                                  *)
(***************************************************************************)
ProvisioningEnds == \A o \in Orders :
  status[o] = "provisioning" ~> status[o] # "provisioning" \/ faults > 0

\* What a completed order has brought the buyer: all of the accounts, or the one
\* of a pasted link; the change of the target, or an account in the place of a
\* target that is gone.
Fulfilled(o) ==
  CASE Kind[o] = "wallet_charge" -> credits[o] > 0
    [] Kind[o] = "new" -> rows[o] >= IF o \in pasted THEN 1 ELSE Quantity[o]
    [] OTHER -> applied[o] > 0 \/ (o \notin aimed /\ rows[o] > 0)

(***************************************************************************)
(* A completed order was fulfilled: with two runs racing on it, accounts   *)
(* failing half-way through a bulk (provision.ts:593), errors restoring    *)
(* old statuses, the mode of delivery switched and the target deleted at   *)
(* any moment (admin-configs.ts:740), completed (order-complete.ts:6) is   *)
(* only ever written by a run that has done all the work itself.  Less     *)
(* than was ordered is handed over in two cases the code does not look at, *)
(* and in no other: a bulk order delivered by one link, and an order whose *)
(* target was deleted, which is given a new account instead.               *)
(***************************************************************************)
CompletedFulfilled == \A o \in Orders : status[o] = "completed" => Fulfilled(o)

-----------------------------------------------------------------------------
(* What comments and messages of the code say, and the code does not do.   *)

(***************************************************************************)
(* "this charge has already been applied" (provision.ts:327): a top-up is  *)
(* credited once.                                                          *)
(***************************************************************************)
CreditOnce == \A o \in Orders : credits[o] <= 1
=============================================================================
