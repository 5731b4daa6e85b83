---------------------------- MODULE OrdersProofs ----------------------------
(***************************************************************************)
(* What holds of Orders for every set of orders and handlers, every        *)
(* catalogue of kinds, prices and quantities, and every bound.             *)
(***************************************************************************)
EXTENDS Orders, FiniteSetTheorems, TLAPS

(***************************************************************************)
(* Starting, moving and ending a handler keeps the types of handling.      *)
(***************************************************************************)
LEMMA EnterTypes ==
  ASSUME HandlingOK, HistoryOK, NEW h \in Handlers, NEW o \in Orders,
         NEW at \in Labels \ Restoring, Enter(h, o, at)
  PROVE  /\ pc' \in [Handlers -> Labels]
         /\ on' \in [Handlers -> Orders \cup {NoOrder}]
         /\ \A k \in Handlers : pc'[k] # "idle" => on'[k] \in Orders
         /\ \A k \in Handlers : pc'[k] \in Restoring =>
              k # h /\ pc[k] \in Restoring
         /\ requests' \in Nat
  BY DEF HandlingOK, HistoryOK, Enter, Labels, Restoring

\* Moving on within a handler keeps its types.
LEMMA GotoTypes ==
  ASSUME HandlingOK, NEW h \in Handlers, pc[h] # "idle",
         NEW at \in Labels, at \in Restoring => back[h] # "none",
         Goto(h, at), Stay
  PROVE  HandlingOK'
  BY DEF HandlingOK, Goto, Stay, Labels, Restoring

\* So does ending it, which also gives the lock back.
LEMMA FinishTypes ==
  ASSUME HandlingOK, NEW h \in Handlers, Finish(h)
  PROVE  HandlingOK'
  BY DEF HandlingOK, Finish, Labels, Restoring

\* A status is only ever replaced by a status.
LEMMA StatusTypes ==
  ASSUME StoreOK, NEW o \in Orders, NEW s \in Statuses, SetStatus(o, s)
  PROVE  status' \in [Orders -> Statuses]
  BY DEF StoreOK, SetStatus

\* Steps that leave the database alone keep its types.
LEMMA SameStoreTypes ==
  ASSUME StoreOK, UNCHANGED <<status, receipt, linked, goods, money>>
  PROVE  StoreOK'
  BY DEF StoreOK, goods, money

\* Steps that leave the bookkeeping alone keep its types.
LEMMA SameHistoryTypes ==
  ASSUME HistoryOK, UNCHANGED history
  PROVE  HistoryOK'
  BY DEF HistoryOK, history

(***************************************************************************)
(* Each step, from a state of the right types to one.                      *)
(***************************************************************************)
LEMMA StartTypes == ASSUME TypeOK, NEW h \in Handlers, Start(h) PROVE TypeOK'
<1> PICK o \in Orders :
      \/ PayInBot(h, o) \/ PayInWeb(h, o)
      \/ ApproveInWeb(h, o) \/ ApproveInBot(h, o) \/ Complimentary(h, o)
      \/ CheckDelivery(h, o) \/ PickReservation(h, o)
      \/ SendReceiptInBot(h, o) \/ PressBack(h, o)
  BY DEF Start
<1> USE DEF TypeOK
<1>1. CASE PayInBot(h, o)
  <2>1. Enter(h, o, "debit") BY <1>1 DEF PayInBot
  <2>2. "debit" \in Labels \ Restoring BY DEF Labels, Restoring
  <2>3. QED BY <1>1, <2>1, <2>2, EnterTypes, SameStoreTypes
    DEF PayInBot, HandlingOK, HistoryOK
<1>2. CASE PayInWeb(h, o)
  <2>1. Enter(h, o, "debit") BY <1>2 DEF PayInWeb
  <2>2. "debit" \in Labels \ Restoring BY DEF Labels, Restoring
  <2>3. QED BY <1>2, <2>1, <2>2, EnterTypes, SameStoreTypes
    DEF PayInWeb, HandlingOK, HistoryOK
<1>3. CASE ApproveInWeb(h, o) \/ ApproveInBot(h, o)
  <2>1. Enter(h, o, "mark") BY <1>3 DEF ApproveInWeb, ApproveInBot, Approve
  <2>2. "mark" \in Labels \ Restoring BY DEF Labels, Restoring
  <2>3. Approve(h, o) BY <1>3 DEF ApproveInWeb, ApproveInBot
  <2>4. QED BY <2>1, <2>2, <2>3, EnterTypes, SameStoreTypes
    DEF Approve, HandlingOK, HistoryOK
<1>4. CASE Complimentary(h, o)
  <2>1. Enter(h, o, "settle") BY <1>4 DEF Complimentary
  <2>2. "settle" \in Labels \ Restoring BY DEF Labels, Restoring
  <2>3. QED BY <1>4, <2>1, <2>2, EnterTypes, SameStoreTypes
    DEF Complimentary, HandlingOK, HistoryOK
<1>5. CASE CheckDelivery(h, o)
  <2>1. Enter(h, o, "deliver") BY <1>5 DEF CheckDelivery
  <2>2. "deliver" \in Labels \ Restoring BY DEF Labels, Restoring
  <2>3. QED BY <1>5, <2>1, <2>2, EnterTypes, SameStoreTypes
    DEF CheckDelivery, HandlingOK, HistoryOK
<1>6. CASE PickReservation(h, o)
  BY <1>6, SameStoreTypes DEF PickReservation, Enter, HandlingOK, HistoryOK, Labels,
     Restoring
<1>7. CASE SendReceiptInBot(h, o)
  <2>1. Enter(h, o, "receipt") BY <1>7 DEF SendReceiptInBot
  <2>2. "receipt" \in Labels \ Restoring BY DEF Labels, Restoring
  <2>3. QED BY <1>7, <2>1, <2>2, EnterTypes, SameStoreTypes
    DEF SendReceiptInBot, HandlingOK, HistoryOK
<1>8. CASE PressBack(h, o)
  <2>1. Enter(h, o, "back") BY <1>8 DEF PressBack
  <2>2. "back" \in Labels \ Restoring BY DEF Labels, Restoring
  <2>3. QED BY <1>8, <2>1, <2>2, EnterTypes, SameStoreTypes
    DEF PressBack, HandlingOK, HistoryOK
<1>9. QED BY <1>1, <1>2, <1>3, <1>4, <1>5, <1>6, <1>7, <1>8

\* Each step of a handler.
LEMMA ProceedTypes == ASSUME TypeOK, NEW h \in Handlers, Proceed(h) PROVE TypeOK'
<1> USE OrderAssumption DEF TypeOK
<1> on[h] \in Orders
  BY DEF HandlingOK, Proceed, Debit, DebitRefused, MarkPaid, Settle,
       RecordDiscountUse,
     Reserve, CheckQueue, Queue, CheckProvision, Claim, Credit, AddClient,
          CreateRow,
     RowTaken, UpdateTarget, WorkFails, Complete, Restore, Deliver, DeliveryFails,
     AttachReceipt, CancelOnBack
<1>1. CASE Debit(h)
  <2>1. HandlingOK'
    <3>1. "settle" \in Labels \ Restoring BY DEF Labels, Restoring
    <3>2. QED BY <1>1, <3>1, GotoTypes DEF Debit
  <2>2. StoreOK' BY <1>1 DEF Debit, StoreOK, goods
  <2>3. QED BY <1>1, <2>1, <2>2, SameHistoryTypes DEF Debit
<1>2. CASE DebitRefused(h) \/ DeliveryFails(h)
  BY <1>2, FinishTypes, SameStoreTypes, SameHistoryTypes DEF DebitRefused,
       DeliveryFails
<1>3. CASE MarkPaid(h)
  <2>1. {"fulfil", "settle"} \subseteq Labels \ Restoring BY DEF Labels, Restoring
  <2>2. HandlingOK' BY <1>3, <2>1, GotoTypes DEF MarkPaid
  <2>3. QED BY <1>3, <2>2, SameStoreTypes, SameHistoryTypes DEF MarkPaid
<1>4. CASE Settle(h)
  <2>1. "record" \in Labels \ Restoring /\ "paid" \in Statuses
    BY DEF Labels, Statuses, Restoring
  <2>2. HandlingOK' BY <1>4, <2>1, GotoTypes DEF Settle
  <2>3. status' \in [Orders -> Statuses] BY <1>4, <2>1, StatusTypes DEF Settle
  <2>4. QED BY <1>4, <2>2, <2>3, SameHistoryTypes DEF Settle, StoreOK, goods, money
<1>5. CASE RecordDiscountUse(h)
  <2>1. "fulfil" \in Labels \ Restoring BY DEF Labels, Restoring
  <2>2. HandlingOK' BY <1>5, <2>1, GotoTypes DEF RecordDiscountUse
  <2>3. StoreOK' BY <1>5 DEF RecordDiscountUse, StoreOK, goods
  <2>4. QED BY <1>5, <2>2, <2>3, SameHistoryTypes DEF RecordDiscountUse
<1>6. CASE Reserve(h)
  <2>1. "reserved" \in Statuses BY DEF Statuses
  <2>2. status' \in [Orders -> Statuses] BY <1>6, <2>1, StatusTypes DEF Reserve
  <2>3. QED BY <1>6, <2>2, FinishTypes, SameHistoryTypes
    DEF Reserve, StoreOK, goods, money
<1>7. CASE CheckQueue(h)
  <2>1. "queue" \in Labels \ Restoring BY DEF Labels, Restoring
  <2>2. HandlingOK'
    <3>1. CASE Finish(h) BY <3>1, FinishTypes
    <3>2. CASE Goto(h, "queue") /\ Stay BY <1>7, <2>1, <3>2, GotoTypes DEF
         CheckQueue
    <3>3. QED BY <1>7, <3>1, <3>2 DEF CheckQueue
  <2>3. QED BY <1>7, <2>2, SameStoreTypes, SameHistoryTypes DEF CheckQueue
<1>8. CASE Queue(h)
  <2>1. "awaiting_delivery" \in Statuses BY DEF Statuses
  <2>2. status' \in [Orders -> Statuses] BY <1>8, <2>1, StatusTypes DEF Queue
  <2>3. HistoryOK' BY <1>8 DEF Queue, HistoryOK
  <2>4. QED BY <1>8, <2>2, <2>3, FinishTypes
    DEF Queue, StoreOK, goods, money
<1>9. CASE CheckProvision(h)
  <2>1. HandlingOK'
    <3>1. CASE Finish(h) BY <3>1, FinishTypes
    <3>2. CASE /\ Goto(h, "claim")
               /\ \E b \in {"paid", "awaiting_review"} : back' = [back EXCEPT ![h] =
                    b]
               /\ aim' = [aim EXCEPT ![h] = on[h] \in aimed]
               /\ UNCHANGED <<on, made, holds, locks>>
      BY <1>9, <3>2 DEF CheckProvision, HandlingOK, Goto, Labels, Restoring
    <3>3. QED BY <1>9, <3>1, <3>2 DEF CheckProvision
  <2>2. QED BY <1>9, <2>1, SameStoreTypes, SameHistoryTypes DEF CheckProvision
<1>10. CASE Claim(h)
  <2>1. Work(h) \in {"credit", "client", "target"} /\ back[h] # "none"
    BY <1>10 DEF Work, Claim, HandlingOK, Restoring
  <2>2. Work(h) \in Labels /\ "provisioning" \in Statuses
    BY <2>1 DEF Labels, Statuses
  <2>3. HandlingOK' BY <1>10, <2>1, <2>2, GotoTypes DEF Claim
  <2>4. status' \in [Orders -> Statuses] BY <1>10, <2>2, StatusTypes DEF Claim
  <2>5. QED BY <1>10, <2>3, <2>4, SameHistoryTypes DEF Claim, StoreOK, goods, money
<1>11. CASE Credit(h)
  <2>1. "complete" \in Labels \ Restoring BY DEF Labels, Restoring
  <2>2. HandlingOK' BY <1>11, <2>1, GotoTypes DEF Credit
  <2>3. StoreOK' BY <1>11 DEF Credit, StoreOK, goods
  <2>4. QED BY <1>11, <2>2, <2>3, SameHistoryTypes DEF Credit
<1>12. CASE AddClient(h)
  <2>1. "row" \in Labels /\ back[h] # "none"
    BY <1>12 DEF AddClient, HandlingOK, Labels, Restoring
  <2>2. HandlingOK' BY <1>12, <2>1, GotoTypes DEF AddClient
  <2>3. StoreOK' BY <1>12 DEF AddClient, StoreOK, money
  <2>4. QED BY <1>12, <2>2, <2>3, SameHistoryTypes DEF AddClient
<1>13. CASE CreateRow(h)
  <2>1. \E at \in {"client", "complete"} : Goto(h, at) BY <1>13 DEF CreateRow
  <2>2. HandlingOK' BY <1>13, <2>1 DEF CreateRow, HandlingOK, Goto, Labels,
       Restoring
  <2>3. StoreOK' BY <1>13 DEF CreateRow, StoreOK, money
  <2>4. QED BY <1>13, <2>2, <2>3, SameHistoryTypes DEF CreateRow
<1>14. CASE RowTaken(h)
  <2>1. "failed" \in Labels BY DEF Labels
  <2>2. back[h] # "none" BY <1>14 DEF RowTaken, HandlingOK, Restoring
  <2>3. HandlingOK' BY <1>14, <2>1, <2>2, GotoTypes DEF RowTaken
  <2>4. QED BY <1>14, <2>3, SameStoreTypes, SameHistoryTypes DEF RowTaken
<1>15. CASE UpdateTarget(h)
  <2>1. "complete" \in Labels \ Restoring BY DEF Labels, Restoring
  <2>2. HandlingOK' BY <1>15, <2>1, GotoTypes DEF UpdateTarget
  <2>3. StoreOK' BY <1>15 DEF UpdateTarget, StoreOK, money
  <2>4. QED BY <1>15, <2>2, <2>3, SameHistoryTypes DEF UpdateTarget
<1>16. CASE WorkFails(h)
  <2>1. "failed" \in Labels BY DEF Labels
  <2>2. HandlingOK'
    <3>1. CASE Finish(h) BY <3>1, FinishTypes
    <3>2. CASE back[h] # "none" /\ Goto(h, "failed") /\ Stay
      BY <1>16, <2>1, <3>2, GotoTypes DEF WorkFails
    <3>3. QED BY <1>16, <3>1, <3>2 DEF WorkFails
  <2>3. QED BY <1>16, <2>2, SameStoreTypes, SameHistoryTypes DEF WorkFails
<1>17. CASE Complete(h)
  <2>1. "completed" \in Statuses BY DEF Statuses
  <2>2. status' \in [Orders -> Statuses] BY <1>17, <2>1, StatusTypes DEF Complete
  <2>3. QED BY <1>17, <2>2, FinishTypes, SameHistoryTypes
    DEF Complete, StoreOK, goods, money
<1>18. CASE Restore(h)
  <2>1. back[h] \in Statuses BY <1>18 DEF Restore, HandlingOK, Statuses, Restoring
  <2>2. status' \in [Orders -> Statuses] BY <1>18, <2>1, StatusTypes DEF Restore
  <2>3. QED BY <1>18, <2>2, FinishTypes, SameHistoryTypes
    DEF Restore, StoreOK, goods, money
<1>19. CASE Deliver(h)
  <2>1. "complete" \in Labels \ Restoring BY DEF Labels, Restoring
  <2>2. HandlingOK' BY <1>19, <2>1, GotoTypes DEF Deliver
  <2>3. applied' \in [Orders -> Nat] /\ rows' \in [Orders -> Nat]
    BY <1>19 DEF Deliver, StoreOK
  <2>4. linked' \in [Orders -> BOOLEAN] /\ pasted' \in SUBSET Orders
    BY <1>19 DEF Deliver, StoreOK
  <2>5. QED BY <1>19, <2>2, <2>3, <2>4, SameHistoryTypes DEF Deliver, StoreOK, money
<1>20. CASE AttachReceipt(h)
  <2>1. "awaiting_review" \in Statuses BY DEF Statuses
  <2>2. status' \in [Orders -> Statuses] BY <1>20, <2>1, StatusTypes DEF
       AttachReceipt
  <2>3. QED BY <1>20, <2>2, FinishTypes, SameHistoryTypes
    DEF AttachReceipt, StoreOK, goods, money
<1>21. CASE CancelOnBack(h)
  <2>1. "cancelled" \in Statuses BY DEF Statuses
  <2>2. status' \in [Orders -> Statuses] BY <1>21, <2>1, StatusTypes DEF
       CancelOnBack
  <2>3. QED BY <1>21, <2>2, FinishTypes, SameHistoryTypes
    DEF CancelOnBack, StoreOK, goods, money
<1>22. QED
  BY <1>1, <1>2, <1>3, <1>4, <1>5, <1>6, <1>7, <1>8, <1>9, <1>10, <1>11, <1>12,
       <1>13,
     <1>14, <1>15, <1>16, <1>17, <1>18, <1>19, <1>20, <1>21 DEF Proceed

\* Refused updates, single updates, restarts and stuttering.
LEMMA OtherTypes ==
  ASSUME TypeOK,
         \/ \E h \in Handlers : Throw(h)
         \/ \E o \in Orders : AtOnce(o)
         \/ Crash
         \/ UNCHANGED vars
  PROVE  TypeOK'
<1> USE DEF TypeOK
<1>1. ASSUME NEW h \in Handlers, Throw(h) PROVE TypeOK'
  BY <1>1, FinishTypes, SameStoreTypes DEF Throw, HistoryOK
<1>2. ASSUME NEW o \in Orders, AtOnce(o) PROVE TypeOK'
  <2>1. {"rejected", "awaiting_review", "cancelled"} \subseteq Statuses BY DEF
       Statuses
  <2>2. CASE List(o)
    BY <2>2, SameStoreTypes DEF List, HandlingOK, HistoryOK, handling
  <2>3. CASE Reject(o) \/ Cancel(o) \/ CancelStale(o) \/ SendReceiptInWeb(o)
    <3>1. status' \in [Orders -> Statuses]
      BY <2>1, <2>3, StatusTypes DEF Reject, Cancel, CancelStale, SendReceiptInWeb
    <3>2. receipt' \in [Orders -> BOOLEAN] /\ UNCHANGED <<linked, goods, money,
         handling, history>>
      BY <2>3 DEF Reject, Cancel, CancelStale, SendReceiptInWeb, StoreOK
    <3>3. QED BY <3>1, <3>2 DEF StoreOK, HandlingOK, HistoryOK, goods, money,
         handling, history
  <2>4. CASE DeleteTarget(o)
    BY <2>4 DEF DeleteTarget, StoreOK, HandlingOK, HistoryOK, money, handling, history
  <2>5. QED BY <1>2, <2>2, <2>3, <2>4 DEF AtOnce
<1>3. CASE Crash
  BY <1>3, SameStoreTypes DEF Crash, HandlingOK, HistoryOK, Labels, Restoring
<1>4. CASE UNCHANGED vars
  BY <1>4, SameStoreTypes, SameHistoryTypes DEF vars, handling, HandlingOK
<1>5. QED BY <1>1, <1>2, <1>3, <1>4

\* Every step of the specification.
LEMMA TypeStep == ASSUME TypeOK, [Next]_vars PROVE TypeOK'
BY StartTypes, ProceedTypes, OtherTypes DEF Next

(***************************************************************************)
(* Every variable keeps its type, and no catch block restores a status     *)
(* nobody saved.                                                           *)
(***************************************************************************)
THEOREM TypeCorrect == Spec => []TypeOK
<1>1. Init => TypeOK
  BY OrderAssumption, MoneyAssumption, BoundAssumption
     DEF Init, TypeOK, StoreOK, HandlingOK, HistoryOK, Statuses, Labels, Restoring
<1>2. TypeOK /\ [Next]_vars => TypeOK'
  BY TypeStep
<1>3. QED
  BY <1>1, <1>2, PTL DEF Spec

-----------------------------------------------------------------------------
(* The inductive invariants.                                               *)

\* Labels of a handler that was paid, approved or reading a paid order.
Entitled == Labels \ {"idle", "debit", "receipt", "back"}

\* Only paid or approved orders are worked on or have a paid status.
PaidInv == \A o \in Orders :
  /\ status[o] \in PaidLike => Authorised(o)
  /\ Delivered(o) => Authorised(o)
  /\ \A h \in Handlers : on[h] = o /\ pc[h] \in Entitled => Authorised(o)

\* At most one handler is making the accounts of an order, and it made them all.
Making == {"client", "row", "complete", "failed"}
WorkInv ==
  /\ \A o \in Orders : rows[o] <= Quantity[o] /\ (rows[o] > 0 => linked[o])
  /\ \A h, k \in Handlers :
       made[h] > 0 /\ made[k] > 0 /\ on[h] = on[k] => h = k
  /\ \A h \in Handlers :
       /\ made[h] > 0 => pc[h] \in Making /\ rows[on[h]] = made[h]
       /\ pc[h] \in {"claim", "client", "row", "deliver"} =>
            aim[h] \/ Kind[on[h]] \in {"new", "wallet_charge"} \/ on[h] \notin aimed
       /\ pc[h] \in {"client", "row"} =>
            Kind[on[h]] # "wallet_charge" /\ ~aim[h] /\ made[h] < Quantity[on[h]]
       /\ pc[h] = "credit" => Kind[on[h]] = "wallet_charge"
       /\ aim[h] => pc[h] # "idle" /\ Kind[on[h]] \in TargetKinds
       /\ pc[h] = "target" => aim[h]
       /\ pc[h] = "deliver" => Kind[on[h]] \in {"new", "renew"}
       /\ pc[h] = "complete" => Fulfilled(on[h])
  /\ CompletedFulfilled

\* The lock admits one payer at a time, and a paid order no more.
LockInv ==
  /\ \A h \in Handlers :
       /\ holds[h] => pc[h] # "idle" /\ on[h] \in locks
       /\ pc[h] = "debit" => holds[h] /\ debits[on[h]] <= faults
       /\ holds[h] /\ pc[h] \notin {"debit", "settle"} =>
            status[on[h]] # "pending_payment"
  /\ \A h, k \in Handlers : holds[h] /\ holds[k] /\ on[h] = on[k] => h = k
  /\ \A o \in Orders :
       /\ status[o] = "pending_payment" /\ o \notin locks => debits[o] <= faults
       /\ debits[o] <= 1 + faults

\* The handler that claimed the order is still there and will restore it.
Claimer(h, o) == Working(h, o) /\ back[h] # "none"
AttendInv == \A o \in Orders :
  status[o] = "provisioning" /\ faults = 0 => \E h \in Handlers : Claimer(h, o)

-----------------------------------------------------------------------------
(* Nothing is free.                                                        *)

\* A request finds a paid status only on an order that was paid or granted.
LEMMA PaidStart ==
  ASSUME TypeOK, TypeOK', PaidInv, NEW h \in Handlers, Start(h)
  PROVE  PaidInv'
<1> PICK o \in Orders :
      \/ PayInBot(h, o) \/ PayInWeb(h, o)
      \/ ApproveInWeb(h, o) \/ ApproveInBot(h, o) \/ Complimentary(h, o)
      \/ CheckDelivery(h, o) \/ PickReservation(h, o)
      \/ SendReceiptInBot(h, o) \/ PressBack(h, o)
  BY DEF Start
<1> USE OrderAssumption DEF TypeOK, StoreOK, HandlingOK, HistoryOK, PaidInv,
     Authorised, Delivered, Entitled, PaidLike, Labels, Enter, goods, money, history
<1>1. CASE PayInBot(h, o) BY <1>1 DEF PayInBot
<1>2. CASE PayInWeb(h, o) BY <1>2 DEF PayInWeb
<1>3. CASE ApproveInWeb(h, o) BY <1>3 DEF ApproveInWeb, Approve
<1>4. CASE ApproveInBot(h, o) BY <1>4 DEF ApproveInBot, Approve
<1>5. CASE Complimentary(h, o) BY <1>5 DEF Complimentary
<1>6. CASE CheckDelivery(h, o) BY <1>6 DEF CheckDelivery
<1>7. CASE PickReservation(h, o) BY <1>7 DEF PickReservation
<1>8. CASE SendReceiptInBot(h, o) BY <1>8 DEF SendReceiptInBot
<1>9. CASE PressBack(h, o) BY <1>9 DEF PressBack
<1>10. QED BY <1>1, <1>2, <1>3, <1>4, <1>5, <1>6, <1>7, <1>8, <1>9

\* No step of a handler reaches a paid status or hands anything over otherwise.
LEMMA PaidProceed ==
  ASSUME TypeOK, TypeOK', PaidInv, NEW h \in Handlers, Proceed(h)
  PROVE  PaidInv'
<1> USE OrderAssumption DEF TypeOK, StoreOK, HandlingOK, HistoryOK, PaidInv,
     Authorised, Delivered, Entitled, PaidLike, Labels, Goto, Stay, Finish,
     SetStatus, goods, money, history
<1>1. CASE Debit(h) BY <1>1 DEF Debit
<1>2. CASE DebitRefused(h) BY <1>2 DEF DebitRefused
<1>3. CASE MarkPaid(h) BY <1>3 DEF MarkPaid
<1>4. CASE Settle(h) BY <1>4 DEF Settle
<1>5. CASE RecordDiscountUse(h) BY <1>5 DEF RecordDiscountUse
<1>6. CASE Reserve(h)
  <2>1. \A o \in Orders : Authorised(o)' <=> Authorised(o) BY <1>6 DEF Reserve
  <2>2. \A o \in Orders : o # on[h] => status'[o] = status[o] BY <1>6 DEF Reserve
  <2>3. Authorised(on[h]) BY <1>6 DEF Reserve
  <2>4. \A o \in Orders : Delivered(o)' <=> Delivered(o) BY <1>6 DEF Reserve
  <2>5. \A k \in Handlers : pc'[k] \in Entitled => on'[k] = on[k] /\ pc[k] \in
       Entitled
    BY <1>6 DEF Reserve
  <2>6. QED BY <2>1, <2>2, <2>3, <2>4, <2>5
<1>7. CASE CheckQueue(h)
  <2>1. CASE Finish(h) BY <1>7, <2>1 DEF CheckQueue
  <2>2. CASE Goto(h, "queue") /\ Stay BY <1>7, <2>2 DEF CheckQueue
  <2>3. QED BY <1>7, <2>1, <2>2 DEF CheckQueue
<1>8. CASE Queue(h)
  <2>1. \A o \in Orders : Authorised(o)' <=> Authorised(o) BY <1>8 DEF Queue
  <2>2. \A o \in Orders : o # on[h] => status'[o] = status[o] BY <1>8 DEF Queue
  <2>3. Authorised(on[h]) BY <1>8 DEF Queue
  <2>4. \A o \in Orders : Delivered(o)' <=> Delivered(o) BY <1>8 DEF Queue
  <2>5. \A k \in Handlers : pc'[k] \in Entitled => on'[k] = on[k] /\ pc[k] \in
       Entitled
    BY <1>8 DEF Queue
  <2>6. QED BY <2>1, <2>2, <2>3, <2>4, <2>5
<1>9. CASE CheckProvision(h)
  <2>1. CASE Finish(h) BY <1>9, <2>1 DEF CheckProvision
  <2>2. CASE /\ Goto(h, "claim")
             /\ UNCHANGED <<on, made, holds, locks>>
    BY <1>9, <2>2 DEF CheckProvision
  <2>3. QED BY <1>9, <2>1, <2>2 DEF CheckProvision
<1>10. CASE Claim(h)
  <2>1. \A o \in Orders : Authorised(o)' <=> Authorised(o) BY <1>10 DEF Claim
  <2>2. \A o \in Orders : o # on[h] => status'[o] = status[o] BY <1>10 DEF Claim
  <2>3. Authorised(on[h]) BY <1>10 DEF Claim
  <2>4. \A o \in Orders : Delivered(o)' <=> Delivered(o) BY <1>10 DEF Claim
  <2>5. \A k \in Handlers : pc'[k] \in Entitled => on'[k] = on[k] /\ pc[k] \in
       Entitled
    BY <1>10 DEF Claim
  <2>6. QED BY <2>1, <2>2, <2>3, <2>4, <2>5
<1>11. CASE Credit(h) BY <1>11 DEF Credit
<1>12. CASE AddClient(h) BY <1>12 DEF AddClient
<1>13. CASE CreateRow(h) BY <1>13 DEF CreateRow
<1>14. CASE RowTaken(h) BY <1>14 DEF RowTaken
<1>15. CASE UpdateTarget(h) BY <1>15 DEF UpdateTarget
<1>16. CASE WorkFails(h)
  <2>1. CASE Finish(h) BY <1>16, <2>1 DEF WorkFails
  <2>2. CASE Goto(h, "failed") /\ Stay BY <1>16, <2>2 DEF WorkFails
  <2>3. QED BY <1>16, <2>1, <2>2 DEF WorkFails
<1>17. CASE Complete(h)
  <2>1. \A o \in Orders : Authorised(o)' <=> Authorised(o) BY <1>17 DEF Complete
  <2>2. \A o \in Orders : o # on[h] => status'[o] = status[o] BY <1>17 DEF Complete
  <2>3. Authorised(on[h]) BY <1>17 DEF Complete
  <2>4. \A o \in Orders : Delivered(o)' <=> Delivered(o) BY <1>17 DEF Complete
  <2>5. \A k \in Handlers : pc'[k] \in Entitled => on'[k] = on[k] /\ pc[k] \in
       Entitled
    BY <1>17 DEF Complete
  <2>6. QED BY <2>1, <2>2, <2>3, <2>4, <2>5
<1>18. CASE Restore(h)
  <2>1. \A o \in Orders : Authorised(o)' <=> Authorised(o) BY <1>18 DEF Restore
  <2>2. \A o \in Orders : o # on[h] => status'[o] = status[o] BY <1>18 DEF Restore
  <2>3. Authorised(on[h]) BY <1>18 DEF Restore
  <2>4. \A o \in Orders : Delivered(o)' <=> Delivered(o) BY <1>18 DEF Restore
  <2>5. \A k \in Handlers : pc'[k] \in Entitled => on'[k] = on[k] /\ pc[k] \in
       Entitled
    BY <1>18 DEF Restore
  <2>6. QED BY <2>1, <2>2, <2>3, <2>4, <2>5
<1>19. CASE Deliver(h) BY <1>19 DEF Deliver
<1>20. CASE DeliveryFails(h) BY <1>20 DEF DeliveryFails
<1>21. CASE AttachReceipt(h) BY <1>21 DEF AttachReceipt
<1>22. CASE CancelOnBack(h) BY <1>22 DEF CancelOnBack
<1>23. QED BY <1>1, <1>2, <1>3, <1>4, <1>5, <1>6, <1>7, <1>8, <1>9, <1>10, <1>11,
     <1>12, <1>13, <1>14, <1>15, <1>16, <1>17, <1>18, <1>19, <1>20, <1>21, <1>22 DEF
     Proceed

\* Nor do refused updates, single updates or a restart.
LEMMA PaidOther ==
  ASSUME TypeOK, TypeOK', PaidInv,
         \/ \E h \in Handlers : Throw(h)
         \/ \E o \in Orders : AtOnce(o)
         \/ Crash
         \/ UNCHANGED vars
  PROVE  PaidInv'
<1> USE OrderAssumption DEF TypeOK, StoreOK, HandlingOK, HistoryOK, PaidInv,
     Authorised, Delivered, Entitled, PaidLike, Labels, SetStatus, goods, money,
     handling, history
<1>1. ASSUME NEW h \in Handlers, Throw(h) PROVE PaidInv'
  BY <1>1 DEF Throw, Finish
<1>2. ASSUME NEW o \in Orders, AtOnce(o) PROVE PaidInv'
  <2>1. CASE List(o) BY <2>1 DEF List
  <2>2. CASE Reject(o) BY <2>2 DEF Reject
  <2>3. CASE SendReceiptInWeb(o) BY <2>3 DEF SendReceiptInWeb
  <2>4. CASE Cancel(o) BY <2>4 DEF Cancel
  <2>5. CASE CancelStale(o) BY <2>5 DEF CancelStale, Cancel
  <2>6. CASE DeleteTarget(o) BY <2>6 DEF DeleteTarget
  <2>7. QED BY <1>2, <2>1, <2>2, <2>3, <2>4, <2>5, <2>6 DEF AtOnce
<1>3. CASE Crash BY <1>3 DEF Crash
<1>4. CASE UNCHANGED vars BY <1>4 DEF vars
<1>5. QED BY <1>1, <1>2, <1>3, <1>4

(***************************************************************************)
(* Whatever has been handed over for an order, the wallet was debited for  *)
(* it or an administrator decided it.                                      *)
(***************************************************************************)
THEOREM NothingIsFree == Spec => []NothingFree
<1>1. Init => PaidInv
  <2>1. Init => \A o \in Orders : status[o] \notin PaidLike /\ ~Delivered(o)
    <3>1. Init => \A o \in Orders : status[o] \notin PaidLike
      BY DEF Init, PaidLike
    <3>2. Init => \A o \in Orders :
            rows[o] = 0 /\ clients[o] = 0 /\ applied[o] = 0 /\ credits[o] = 0
      BY DEF Init
    <3>3. Init => \A o \in Orders : ~Delivered(o)
      <4> SUFFICES ASSUME Init, NEW o \in Orders PROVE ~Delivered(o)
        OBVIOUS
      <4>1. rows[o] = 0 /\ clients[o] = 0 /\ applied[o] = 0 /\ credits[o] = 0
        BY <3>2
      <4>2. ~(0 + 0 + 0 + 0 > 0)
        OBVIOUS
      <4>3. QED
        BY <4>1, <4>2 DEF Delivered
    <3>4. QED
      BY <3>1, <3>3
  <2>2. Init => \A h \in Handlers : pc[h] \notin Entitled
    BY DEF Init, Entitled
  <2>3. QED
    BY <2>1, <2>2 DEF PaidInv
<1>2. TypeOK /\ TypeOK' /\ PaidInv /\ [Next]_vars => PaidInv'
  BY PaidStart, PaidProceed, PaidOther DEF Next
<1>3. PaidInv => NothingFree
  BY DEF PaidInv, NothingFree
<1>4. QED
  BY <1>1, <1>2, <1>3, TypeCorrect, PTL DEF Spec

-----------------------------------------------------------------------------
(* The work on an order.                                                   *)

\* A new request has made nothing yet.
LEMMA WorkStart ==
  ASSUME TypeOK, TypeOK', WorkInv, NEW h \in Handlers, Start(h)
  PROVE  WorkInv'
<1> PICK o \in Orders :
      \/ PayInBot(h, o) \/ PayInWeb(h, o)
      \/ ApproveInWeb(h, o) \/ ApproveInBot(h, o) \/ Complimentary(h, o)
      \/ CheckDelivery(h, o) \/ PickReservation(h, o)
      \/ SendReceiptInBot(h, o) \/ PressBack(h, o)
  BY DEF Start
<1> USE OrderAssumption DEF TypeOK, StoreOK, HandlingOK, HistoryOK, WorkInv,
     CompletedFulfilled, Fulfilled, Making, Work, Kinds, TargetKinds, Enter, goods, money,
     history
<1>1. CASE PayInBot(h, o) BY <1>1, SMTT(60) DEF PayInBot
<1>2. CASE PayInWeb(h, o) BY <1>2 DEF PayInWeb
<1>3. CASE ApproveInWeb(h, o) BY <1>3 DEF ApproveInWeb, Approve
<1>4. CASE ApproveInBot(h, o) BY <1>4, SMTT(60) DEF ApproveInBot, Approve
<1>5. CASE Complimentary(h, o) BY <1>5 DEF Complimentary
<1>6. CASE CheckDelivery(h, o)
  <2>1. /\ pc' = [pc EXCEPT ![h] = "deliver"] /\ on' = [on EXCEPT ![h] = o]
        /\ aim' = [aim EXCEPT ![h] = o \in aimed]
        /\ pc[h] = "idle" /\ Kind[o] \in {"new", "renew"}
        /\ UNCHANGED <<status, linked, rows, applied, credits, pasted, aimed, made>>
    BY <1>6 DEF CheckDelivery
  <2>2. made[h] = 0 BY <2>1, SMTT(60)
  <2>3. \A p \in Orders : Fulfilled(p)' <=> Fulfilled(p) BY <2>1
  <2>4. \A k \in Handlers : k # h =>
          pc'[k] = pc[k] /\ on'[k] = on[k] /\ aim'[k] = aim[k]
    BY <2>1
  <2>5. /\ pc'[h] = "deliver" /\ on'[h] = o /\ aim'[h] = (o \in aimed)
        /\ o \in aimed => Kind[o] \in TargetKinds
    BY <2>1
  <2>6. \A k \in Handlers : pc'[k] = "complete" => k # h BY <2>5
  <2>7. \A k \in Handlers : made'[k] = made[k] /\ (made[k] > 0 => k # h)
    BY <2>1, <2>2
  <2>8. h \in Handlers /\ o \in Orders /\ Kind[o] \in {"new", "renew"} BY <2>1
  <2>9. UNCHANGED <<status, linked, rows, aimed>> BY <2>1
  <2> HIDE DEF Fulfilled
  <2>10. QED BY <2>3, <2>4, <2>5, <2>6, <2>7, <2>8, <2>9
<1>7. CASE PickReservation(h, o) BY <1>7 DEF PickReservation
<1>8. CASE SendReceiptInBot(h, o) BY <1>8 DEF SendReceiptInBot
<1>9. CASE PressBack(h, o) BY <1>9 DEF PressBack
<1>10. QED BY <1>1, <1>2, <1>3, <1>4, <1>5, <1>6, <1>7, <1>8, <1>9

\* The unique orderId stops the second run before its extra accounts.
LEMMA WorkProceed ==
  ASSUME TypeOK, TypeOK', WorkInv, NEW h \in Handlers, Proceed(h)
  PROVE  WorkInv'
<1> USE OrderAssumption DEF TypeOK, StoreOK, HandlingOK, HistoryOK, WorkInv,
     CompletedFulfilled, Fulfilled, Making, Work, Kinds, TargetKinds, Goto, Stay, Finish,
     SetStatus, goods, money, history
<1>1. CASE Debit(h) BY <1>1 DEF Debit
<1>2. CASE DebitRefused(h) BY <1>2 DEF DebitRefused
<1>3. CASE MarkPaid(h) BY <1>3 DEF MarkPaid
<1>4. CASE Settle(h) BY <1>4 DEF Settle
<1>5. CASE RecordDiscountUse(h) BY <1>5 DEF RecordDiscountUse
<1>6. CASE Reserve(h) BY <1>6 DEF Reserve
<1>7. CASE CheckQueue(h)
  <2>1. CASE Finish(h) BY <1>7, <2>1 DEF CheckQueue
  <2>2. CASE Goto(h, "queue") /\ Stay BY <1>7, <2>2 DEF CheckQueue
  <2>3. QED BY <1>7, <2>1, <2>2 DEF CheckQueue
<1>8. CASE Queue(h) BY <1>8 DEF Queue
<1>9. CASE CheckProvision(h)
  <2>1. CASE Finish(h) BY <1>9, <2>1 DEF CheckProvision
  <2>2. CASE /\ Goto(h, "claim")
             /\ \E b \in {"paid", "awaiting_review"} : back' = [back EXCEPT ![h] =
                  b]
             /\ aim' = [aim EXCEPT ![h] = on[h] \in aimed]
             /\ UNCHANGED <<on, made, holds, locks>>
    <3> DEFINE o == on[h]
    <3>0. pc[h] = "fulfil" BY <1>9 DEF CheckProvision
    <3>1. /\ o \in Orders /\ pc[h] = "fulfil" /\ made[h] = 0
          /\ (o \in aimed => Kind[o] \in TargetKinds)
      <4> HIDE DEF Fulfilled
      <4>1. on[h] \in Orders /\ made[h] \in Nat BY <3>0
      <4>2. ~(made[h] > 0) BY <3>0
      <4>3. QED BY <3>0, <4>1, <4>2
    <3>2. UNCHANGED <<status, linked, rows, applied, credits, pasted, aimed, made, on>>
      BY <1>9, <2>2 DEF CheckProvision
    <3>3. \A p \in Orders : Fulfilled(p)' <=> Fulfilled(p) BY <3>2
    <3>4. pc' = [pc EXCEPT ![h] = "claim"] BY <2>2
    <3>5. aim'[h] = (o \in aimed) BY <2>2
    <3>6. \A g \in Handlers : g # h => pc'[g] = pc[g] /\ aim'[g] = aim[g]
      BY <2>2, <3>4
    <3>7. QED BY <3>1, <3>2, <3>3, <3>4, <3>5, <3>6
  <2>3. QED BY <1>9, <2>1, <2>2 DEF CheckProvision
<1>10. CASE Claim(h) BY <1>10 DEF Claim
<1>11. CASE Credit(h) BY <1>11 DEF Credit
<1>12. CASE AddClient(h) BY <1>12 DEF AddClient
<1>13. CASE CreateRow(h) BY <1>13 DEF CreateRow
<1>14. CASE RowTaken(h) BY <1>14 DEF RowTaken
<1>15. CASE UpdateTarget(h) BY <1>15, SMTT(60) DEF UpdateTarget
<1>16. CASE WorkFails(h)
  <2>1. CASE Finish(h) BY <1>16, <2>1 DEF WorkFails
  <2>2. CASE Goto(h, "failed") /\ Stay BY <1>16, <2>2 DEF WorkFails
  <2>3. QED BY <1>16, <2>1, <2>2 DEF WorkFails
<1>17. CASE Complete(h) BY <1>17 DEF Complete
<1>18. CASE Restore(h) BY <1>18, SMTT(60) DEF Restore
<1>19. CASE Deliver(h)
  <2>1. on[h] \in Orders /\ Kind[on[h]] \in {"new", "renew"}
    BY <1>19 DEF Deliver
  <2>2. /\ pc' = [pc EXCEPT ![h] = "complete"]
        /\ pasted' = pasted \cup {on[h]}
        /\ UNCHANGED <<status, credits, made, on, aimed, aim>>
    BY <1>19 DEF Deliver
  <2>3. CASE aim[h]
    <3>1. /\ applied' = [applied EXCEPT ![on[h]] = @ + 1]
          /\ UNCHANGED <<linked, rows>>
      BY <1>19, <2>3 DEF Deliver
    <3>2. \A o \in Orders : Fulfilled(o) => Fulfilled(o)' BY <2>2, <3>1
    <3>3. Fulfilled(on[h])'
      <4>1. Kind[on[h]] \notin {"new", "wallet_charge"} BY <2>3
      <4>2. applied'[on[h]] > 0 BY <2>1, <3>1
      <4>3. QED BY <2>2, <4>1, <4>2
    <3>4. QED BY <1>19, <2>1, <2>2, <2>3, <3>1, <3>2, <3>3
  <2>4. CASE ~aim[h]
    <3>1. /\ ~linked[on[h]] /\ rows[on[h]] = 0
          /\ linked' = [linked EXCEPT ![on[h]] = TRUE]
          /\ rows' = [rows EXCEPT ![on[h]] = @ + 1]
          /\ UNCHANGED applied
      BY <1>19, <2>1, <2>4 DEF Deliver
    <3>2. \A o \in Orders : Fulfilled(o) => Fulfilled(o)' BY <2>2, <3>1
    <3>3. Fulfilled(on[h])'
      <4>1. Kind[on[h]] = "new" \/ on[h] \notin aimed BY <1>19, <2>1, <2>4 DEF Deliver
      <4>2. rows'[on[h]] = 1 BY <2>1, <3>1
      <4>3. QED BY <2>1, <2>2, <4>1, <4>2
    <3>4. \A k \in Handlers : made[k] > 0 => on[k] # on[h] BY <3>1
    <3>5. QED BY <1>19, <2>1, <2>2, <2>4, <3>1, <3>2, <3>3, <3>4
  <2>5. QED BY <2>3, <2>4
<1>20. CASE DeliveryFails(h) BY <1>20 DEF DeliveryFails
<1>21. CASE AttachReceipt(h) BY <1>21 DEF AttachReceipt
<1>22. CASE CancelOnBack(h) BY <1>22 DEF CancelOnBack
<1>23. QED BY <1>1, <1>2, <1>3, <1>4, <1>5, <1>6, <1>7, <1>8, <1>9, <1>10, <1>11,
     <1>12, <1>13, <1>14, <1>15, <1>16, <1>17, <1>18, <1>19, <1>20, <1>21, <1>22 DEF
     Proceed

\* A restart leaves the rows and forgets who was making them.
LEMMA WorkOther ==
  ASSUME TypeOK, TypeOK', WorkInv,
         \/ \E h \in Handlers : Throw(h)
         \/ \E o \in Orders : AtOnce(o)
         \/ Crash
         \/ UNCHANGED vars
  PROVE  WorkInv'
<1> USE OrderAssumption DEF TypeOK, StoreOK, HandlingOK, HistoryOK, WorkInv,
     CompletedFulfilled, Fulfilled, Making, Work, Kinds, TargetKinds, SetStatus, goods, money,
     handling, history
<1>1. ASSUME NEW h \in Handlers, Throw(h) PROVE WorkInv'
  BY <1>1 DEF Throw, Finish
<1>2. ASSUME NEW o \in Orders, AtOnce(o) PROVE WorkInv'
  <2>1. CASE List(o) BY <2>1 DEF List
  <2>2. CASE Reject(o) BY <2>2 DEF Reject
  <2>3. CASE SendReceiptInWeb(o) BY <2>3 DEF SendReceiptInWeb
  <2>4. CASE Cancel(o) BY <2>4 DEF Cancel
  <2>5. CASE CancelStale(o) BY <2>5 DEF CancelStale, Cancel
  <2>6. CASE DeleteTarget(o) BY <2>6 DEF DeleteTarget
  <2>7. QED BY <1>2, <2>1, <2>2, <2>3, <2>4, <2>5, <2>6 DEF AtOnce
<1>3. CASE Crash BY <1>3 DEF Crash
<1>4. CASE UNCHANGED vars BY <1>4 DEF vars
<1>5. QED BY <1>1, <1>2, <1>3, <1>4

\* Every step keeps the work in order.
LEMMA WorkStep == TypeOK /\ TypeOK' /\ WorkInv /\ [Next]_vars => WorkInv'
BY WorkStart, WorkProceed, WorkOther DEF Next

\* No work has been done at the start.
LEMMA WorkInit == Init => WorkInv
BY OrderAssumption DEF Init, WorkInv, CompletedFulfilled

(***************************************************************************)
(* Racing and failing runs never leave an order with more subscriptions    *)
(* than it asked for.                                                      *)
(***************************************************************************)
THEOREM QuantityRespected == Spec => []AccountsWithinQuantity
<1>1. WorkInv => AccountsWithinQuantity
  BY DEF WorkInv, AccountsWithinQuantity
<1>2. QED
  BY <1>1, WorkInit, WorkStep, TypeCorrect, PTL DEF Spec

(***************************************************************************)
(* An order is only ever completed by a run that did all of its work.      *)
(***************************************************************************)
THEOREM CompletedIsFulfilled == Spec => []CompletedFulfilled
<1>1. WorkInv => CompletedFulfilled
  BY DEF WorkInv
<1>2. QED
  BY <1>1, WorkInit, WorkStep, TypeCorrect, PTL DEF Spec

-----------------------------------------------------------------------------
(* The lock of the bot.                                                    *)

\* The lock is free only when no payment of a pending order is under way.
LEMMA LockStart ==
  ASSUME TypeOK, TypeOK', "web" \notin Channels, LockInv, NEW h \in Handlers,
       Start(h)
  PROVE  LockInv'
<1> PICK o \in Orders :
      \/ PayInBot(h, o) \/ PayInWeb(h, o)
      \/ ApproveInWeb(h, o) \/ ApproveInBot(h, o) \/ Complimentary(h, o)
      \/ CheckDelivery(h, o) \/ PickReservation(h, o)
      \/ SendReceiptInBot(h, o) \/ PressBack(h, o)
  BY DEF Start
<1> USE OrderAssumption DEF TypeOK, StoreOK, HandlingOK, HistoryOK, LockInv, Labels,
     Enter, goods, money, history
<1>1. CASE PayInBot(h, o) BY <1>1 DEF PayInBot
<1>2. CASE PayInWeb(h, o) BY <1>2 DEF PayInWeb
<1>3. CASE ApproveInWeb(h, o) BY <1>3 DEF ApproveInWeb, Approve
<1>4. CASE ApproveInBot(h, o) BY <1>4 DEF ApproveInBot, Approve
<1>5. CASE Complimentary(h, o) BY <1>5 DEF Complimentary
<1>6. CASE CheckDelivery(h, o) BY <1>6 DEF CheckDelivery
<1>7. CASE PickReservation(h, o) BY <1>7 DEF PickReservation
<1>8. CASE SendReceiptInBot(h, o) BY <1>8 DEF SendReceiptInBot
<1>9. CASE PressBack(h, o) BY <1>9 DEF PressBack
<1>10. QED BY <1>1, <1>2, <1>3, <1>4, <1>5, <1>6, <1>7, <1>8, <1>9

\* The lock is given back after the order has left pending_payment, or undebited.
LEMMA LockProceed ==
  ASSUME TypeOK, TypeOK', "web" \notin Channels, LockInv, NEW h \in Handlers,
       Proceed(h)
  PROVE  LockInv'
<1> USE OrderAssumption DEF TypeOK, StoreOK, HandlingOK, HistoryOK, LockInv, Labels,
     Goto, Stay, Finish, SetStatus, goods, money, history
<1>1. CASE Debit(h) BY <1>1 DEF Debit
<1>2. CASE DebitRefused(h) BY <1>2 DEF DebitRefused
<1>3. CASE MarkPaid(h) BY <1>3 DEF MarkPaid
<1>4. CASE Settle(h) BY <1>4 DEF Settle
<1>5. CASE RecordDiscountUse(h) BY <1>5 DEF RecordDiscountUse
<1>6. CASE Reserve(h) BY <1>6 DEF Reserve
<1>7. CASE CheckQueue(h)
  <2>1. CASE Finish(h) BY <1>7, <2>1 DEF CheckQueue
  <2>2. CASE Goto(h, "queue") /\ Stay BY <1>7, <2>2 DEF CheckQueue
  <2>3. QED BY <1>7, <2>1, <2>2 DEF CheckQueue
<1>8. CASE Queue(h) BY <1>8 DEF Queue
<1>9. CASE CheckProvision(h)
  <2>1. CASE Finish(h) BY <1>9, <2>1 DEF CheckProvision
  <2>2. CASE /\ Goto(h, "claim")
             /\ \E b \in {"paid", "awaiting_review"} : back' = [back EXCEPT ![h] =
                  b]
             /\ aim' = [aim EXCEPT ![h] = on[h] \in aimed]
             /\ UNCHANGED <<on, made, holds, locks>>
    BY <1>9, <2>2 DEF CheckProvision
  <2>3. QED BY <1>9, <2>1, <2>2 DEF CheckProvision
<1>10. CASE Claim(h)
  <2>1. Work(h) \in {"credit", "client", "target"} BY DEF Work
  <2>2. QED BY <1>10, <2>1 DEF Claim
<1>11. CASE Credit(h) BY <1>11 DEF Credit
<1>12. CASE AddClient(h) BY <1>12 DEF AddClient
<1>13. CASE CreateRow(h) BY <1>13 DEF CreateRow
<1>14. CASE RowTaken(h) BY <1>14 DEF RowTaken
<1>15. CASE UpdateTarget(h) BY <1>15 DEF UpdateTarget
<1>16. CASE WorkFails(h)
  <2>1. CASE Finish(h) BY <1>16, <2>1 DEF WorkFails
  <2>2. CASE Goto(h, "failed") /\ Stay BY <1>16, <2>2 DEF WorkFails
  <2>3. QED BY <1>16, <2>1, <2>2 DEF WorkFails
<1>17. CASE Complete(h) BY <1>17 DEF Complete
<1>18. CASE Restore(h) BY <1>18 DEF Restore
<1>19. CASE Deliver(h) BY <1>19 DEF Deliver
<1>20. CASE DeliveryFails(h) BY <1>20 DEF DeliveryFails
<1>21. CASE AttachReceipt(h) BY <1>21 DEF AttachReceipt
<1>22. CASE CancelOnBack(h) BY <1>22 DEF CancelOnBack
<1>23. QED BY <1>1, <1>2, <1>3, <1>4, <1>5, <1>6, <1>7, <1>8, <1>9, <1>10, <1>11,
     <1>12, <1>13, <1>14, <1>15, <1>16, <1>17, <1>18, <1>19, <1>20, <1>21, <1>22 DEF
     Proceed

\* Refused updates and restarts lose a lock, and are counted.
LEMMA LockOther ==
  ASSUME TypeOK, TypeOK', "web" \notin Channels, LockInv,
         \/ \E h \in Handlers : Throw(h)
         \/ \E o \in Orders : AtOnce(o)
         \/ Crash
         \/ UNCHANGED vars
  PROVE  LockInv'
<1> USE OrderAssumption DEF TypeOK, StoreOK, HandlingOK, HistoryOK, LockInv, Labels,
     SetStatus, goods, money, handling, history
<1>1. ASSUME NEW h \in Handlers, Throw(h) PROVE LockInv'
  BY <1>1 DEF Throw, Finish
<1>2. ASSUME NEW o \in Orders, AtOnce(o) PROVE LockInv'
  <2>1. CASE List(o) BY <2>1 DEF List
  <2>2. CASE Reject(o) BY <2>2 DEF Reject
  <2>3. CASE SendReceiptInWeb(o) BY <2>3 DEF SendReceiptInWeb
  <2>4. CASE Cancel(o) BY <2>4 DEF Cancel
  <2>5. CASE CancelStale(o) BY <2>5 DEF CancelStale, Cancel
  <2>6. CASE DeleteTarget(o) BY <2>6 DEF DeleteTarget
  <2>7. QED BY <1>2, <2>1, <2>2, <2>3, <2>4, <2>5, <2>6 DEF AtOnce
<1>3. CASE Crash BY <1>3 DEF Crash
<1>4. CASE UNCHANGED vars BY <1>4 DEF vars
<1>5. QED BY <1>1, <1>2, <1>3, <1>4

(***************************************************************************)
(* Where only the bot takes wallet payments, an order is debited at most   *)
(* once, and once more for each restart or refused update.                 *)
(***************************************************************************)
THEOREM LockWorks == Spec => []DebitOncePerLife
<1>1. CASE "web" \in Channels
  <2>1. DebitOncePerLife BY <1>1 DEF DebitOncePerLife
  <2>2. QED BY <2>1, PTL
<1>2. CASE "web" \notin Channels
  <2>1. Init => LockInv
    BY DEF Init, LockInv
  <2>2. TypeOK /\ TypeOK' /\ LockInv /\ [Next]_vars => LockInv'
    BY <1>2, LockStart, LockProceed, LockOther DEF Next
  <2>3. LockInv => DebitOncePerLife
    BY DEF LockInv, DebitOncePerLife
  <2>4. QED
    BY <2>1, <2>2, <2>3, TypeCorrect, PTL DEF Spec
<1>3. QED
  BY <1>1, <1>2

-----------------------------------------------------------------------------
(* Nobody walks away from a provisioning order.                            *)

\* New requests do not touch an order in provisioning.
LEMMA AttendStart ==
  ASSUME TypeOK, TypeOK', AttendInv, NEW h \in Handlers, Start(h)
  PROVE  AttendInv'
<1> PICK o \in Orders :
      \/ PayInBot(h, o) \/ PayInWeb(h, o)
      \/ ApproveInWeb(h, o) \/ ApproveInBot(h, o) \/ Complimentary(h, o)
      \/ CheckDelivery(h, o) \/ PickReservation(h, o)
      \/ SendReceiptInBot(h, o) \/ PressBack(h, o)
  BY DEF Start
<1> USE OrderAssumption DEF TypeOK, StoreOK, HandlingOK, HistoryOK, AttendInv,
     Claimer, Working, Restoring, Enter, goods, money, history
<1>1. CASE PayInBot(h, o) BY <1>1 DEF PayInBot
<1>2. CASE PayInWeb(h, o) BY <1>2 DEF PayInWeb
<1>3. CASE ApproveInWeb(h, o) BY <1>3 DEF ApproveInWeb, Approve
<1>4. CASE ApproveInBot(h, o) BY <1>4 DEF ApproveInBot, Approve
<1>5. CASE Complimentary(h, o) BY <1>5 DEF Complimentary
<1>6. CASE CheckDelivery(h, o) BY <1>6 DEF CheckDelivery
<1>7. CASE PickReservation(h, o) BY <1>7 DEF PickReservation
<1>8. CASE SendReceiptInBot(h, o) BY <1>8 DEF SendReceiptInBot
<1>9. CASE PressBack(h, o) BY <1>9 DEF PressBack
<1>10. QED BY <1>1, <1>2, <1>3, <1>4, <1>5, <1>6, <1>7, <1>8, <1>9

\* The handler that claims an order leaves it only by writing its status.
LEMMA AttendProceed ==
  ASSUME TypeOK, TypeOK', AttendInv, NEW h \in Handlers, Proceed(h)
  PROVE  AttendInv'
<1> USE OrderAssumption DEF TypeOK, StoreOK, HandlingOK, HistoryOK, AttendInv,
     Claimer, Working, Restoring, Goto, Stay, Finish, SetStatus, goods, money,
     history
<1>1. CASE Debit(h) BY <1>1 DEF Debit
<1>2. CASE DebitRefused(h) BY <1>2 DEF DebitRefused
<1>3. CASE MarkPaid(h) BY <1>3 DEF MarkPaid
<1>4. CASE Settle(h) BY <1>4 DEF Settle
<1>5. CASE RecordDiscountUse(h) BY <1>5 DEF RecordDiscountUse
<1>6. CASE Reserve(h) BY <1>6 DEF Reserve
<1>7. CASE CheckQueue(h)
  <2>1. CASE Finish(h) BY <1>7, <2>1 DEF CheckQueue
  <2>2. CASE Goto(h, "queue") /\ Stay BY <1>7, <2>2 DEF CheckQueue
  <2>3. QED BY <1>7, <2>1, <2>2 DEF CheckQueue
<1>8. CASE Queue(h) BY <1>8 DEF Queue
<1>9. CASE CheckProvision(h)
  <2>1. CASE Finish(h) BY <1>9, <2>1 DEF CheckProvision
  <2>2. CASE /\ Goto(h, "claim")
             /\ \E b \in {"paid", "awaiting_review"} : back' = [back EXCEPT ![h] =
                  b]
             /\ aim' = [aim EXCEPT ![h] = on[h] \in aimed]
             /\ UNCHANGED <<on, made, holds, locks>>
    BY <1>9, <2>2 DEF CheckProvision
  <2>3. QED BY <1>9, <2>1, <2>2 DEF CheckProvision
<1>10. CASE Claim(h)
  <2>1. Work(h) \in {"credit", "client", "target"} BY DEF Work
  <2>2. QED BY <1>10, <2>1 DEF Claim
<1>11. CASE Credit(h) BY <1>11 DEF Credit
<1>12. CASE AddClient(h) BY <1>12 DEF AddClient
<1>13. CASE CreateRow(h) BY <1>13 DEF CreateRow
<1>14. CASE RowTaken(h) BY <1>14 DEF RowTaken
<1>15. CASE UpdateTarget(h) BY <1>15 DEF UpdateTarget
<1>16. CASE WorkFails(h)
  <2>1. CASE Finish(h) BY <1>16, <2>1 DEF WorkFails
  <2>2. CASE Goto(h, "failed") /\ Stay BY <1>16, <2>2 DEF WorkFails
  <2>3. QED BY <1>16, <2>1, <2>2 DEF WorkFails
<1>17. CASE Complete(h) BY <1>17 DEF Complete
<1>18. CASE Restore(h) BY <1>18 DEF Restore
<1>19. CASE Deliver(h) BY <1>19 DEF Deliver
<1>20. CASE DeliveryFails(h) BY <1>20 DEF DeliveryFails
<1>21. CASE AttachReceipt(h) BY <1>21 DEF AttachReceipt
<1>22. CASE CancelOnBack(h) BY <1>22 DEF CancelOnBack
<1>23. QED BY <1>1, <1>2, <1>3, <1>4, <1>5, <1>6, <1>7, <1>8, <1>9, <1>10, <1>11,
     <1>12, <1>13, <1>14, <1>15, <1>16, <1>17, <1>18, <1>19, <1>20, <1>21, <1>22 DEF
     Proceed

\* Only a fault takes a handler away.
LEMMA AttendOther ==
  ASSUME TypeOK, TypeOK', AttendInv,
         \/ \E h \in Handlers : Throw(h)
         \/ \E o \in Orders : AtOnce(o)
         \/ Crash
         \/ UNCHANGED vars
  PROVE  AttendInv'
<1> USE OrderAssumption DEF TypeOK, StoreOK, HandlingOK, HistoryOK, AttendInv,
     Claimer, Working, Restoring, SetStatus, goods, money, handling, history
<1>1. ASSUME NEW h \in Handlers, Throw(h) PROVE AttendInv'
  BY <1>1 DEF Throw, Finish
<1>2. ASSUME NEW o \in Orders, AtOnce(o) PROVE AttendInv'
  <2>1. CASE List(o) BY <2>1 DEF List
  <2>2. CASE Reject(o) BY <2>2 DEF Reject
  <2>3. CASE SendReceiptInWeb(o) BY <2>3 DEF SendReceiptInWeb
  <2>4. CASE Cancel(o) BY <2>4 DEF Cancel
  <2>5. CASE CancelStale(o) BY <2>5 DEF CancelStale, Cancel
  <2>6. CASE DeleteTarget(o) BY <2>6 DEF DeleteTarget
  <2>7. QED BY <1>2, <2>1, <2>2, <2>3, <2>4, <2>5, <2>6 DEF AtOnce
<1>3. CASE Crash BY <1>3 DEF Crash
<1>4. CASE UNCHANGED vars BY <1>4 DEF vars
<1>5. QED BY <1>1, <1>2, <1>3, <1>4

(***************************************************************************)
(* Without restarts and refused updates, an order in provisioning has a    *)
(* handler at work on it.                                                  *)
(***************************************************************************)
THEOREM ProvisioningIsAttended == Spec => []ProvisioningAttended
<1>1. Init => AttendInv
  BY OrderAssumption DEF Init, AttendInv, Claimer
<1>2. TypeOK /\ TypeOK' /\ AttendInv /\ [Next]_vars => AttendInv'
  BY AttendStart, AttendProceed, AttendOther DEF Next
<1>3. AttendInv => ProvisioningAttended
  BY DEF AttendInv, ProvisioningAttended, Claimer
<1>4. QED
  BY <1>1, <1>2, <1>3, TypeCorrect, PTL DEF Spec

-----------------------------------------------------------------------------
(* Top-ups.                                                                *)

\* A handler that may still credit a top-up; one that debits never does.
Due == {"debit", "mark", "settle", "record", "fulfil", "claim", "credit"}
Owed(o) == {h \in Handlers : on[h] = o /\ pc[h] \in Due}
Charges == {o \in Orders : Kind[o] = "wallet_charge"}

\* Each handler that may still credit a top-up stands for a decision of its own.
CreditInv ==
  /\ \A o \in Charges : credits[o] + Cardinality(Owed(o)) <= approvals[o]
  /\ \A o \in Orders \ Charges : credits[o] = 0

\* The handlers that owe a top-up can be counted.
LEMMA OwedFinite ==
  ASSUME NEW o
  PROVE  IsFiniteSet(Owed(o)) /\ Cardinality(Owed(o)) \in Nat
<1>1. IsFiniteSet(Owed(o))
  BY BoundAssumption, FS_Subset DEF Owed
<1> QED
  BY <1>1, FS_CardinalityType

LEMMA OwedFiniteNext ==
  ASSUME NEW o
  PROVE  IsFiniteSet(Owed(o)') /\ Cardinality(Owed(o)') \in Nat
<1>1. IsFiniteSet(Owed(o)')
  BY BoundAssumption, FS_Subset DEF Owed
<1> QED
  BY <1>1, FS_CardinalityType

\* What a step may do to a top-up: nothing, take a decision and a handler for it,
\* or credit it and end the handler's claim.
Idles == /\ UNCHANGED <<credits, approvals>>
         /\ \A o \in Charges : Owed(o)' \subseteq Owed(o)
Decides(h, o) ==
  /\ credits' = credits /\ approvals' = [approvals EXCEPT ![o] = @ + 1]
  /\ \A p \in Charges : Owed(p)' \subseteq IF p = o THEN Owed(p) \cup {h} ELSE Owed(p)
Credits(h) == LET o == on[h] IN
  /\ credits' = [credits EXCEPT ![o] = @ + 1] /\ approvals' = approvals
  /\ o \in Charges /\ h \in Owed(o)
  /\ \A p \in Charges : Owed(p)' \subseteq Owed(p) \ {h}

LEMMA CreditSteps ==
  ASSUME TypeOK, CreditInv,
         Idles \/ \E h \in Handlers : Credits(h) \/ \E o \in Orders : Decides(h, o)
  PROVE  CreditInv'
<1> USE DEF TypeOK, StoreOK, HistoryOK
<1>1. CASE Idles
  <2>1. ASSUME NEW o \in Charges PROVE Cardinality(Owed(o)') <= Cardinality(Owed(o))
    BY <1>1, OwedFinite, FS_Subset DEF Idles
  <2> QED
    BY <1>1, <2>1, OwedFinite, OwedFiniteNext DEF Idles, CreditInv, Charges
<1>2. ASSUME NEW h \in Handlers, NEW o \in Orders, Decides(h, o) PROVE CreditInv'
  <2>1. ASSUME NEW p \in Charges
        PROVE  Cardinality(Owed(p)') <= Cardinality(Owed(p)) + IF p = o THEN 1 ELSE 0
    <3>1. CASE p = o
      <4> DEFINE S == Owed(p)
      <4>0. IsFiniteSet(S) /\ Cardinality(S) \in Nat
        BY OwedFinite
      <4> HIDE DEF S
      <4>1. /\ IsFiniteSet(S \cup {h})
            /\ Cardinality(S \cup {h}) <= Cardinality(S) + 1
        <5>1. /\ IsFiniteSet(S \cup {h})
              /\ Cardinality(S \cup {h}) = IF h \in S THEN Cardinality(S) ELSE Cardinality(S) + 1
          BY <4>0, FS_AddElement
        <5> QED
          BY <4>0, <5>1
      <4> USE DEF S
      <4>2. /\ Cardinality(Owed(p)') <= Cardinality(Owed(p) \cup {h})
            /\ Cardinality(Owed(p) \cup {h}) \in Nat
        BY <1>2, <3>1, <4>1, FS_Subset, FS_CardinalityType DEF Decides
      <4> QED
        BY <3>1, <4>1, <4>2, OwedFinite, OwedFiniteNext
    <3>2. CASE p # o
      <4>1. Cardinality(Owed(p)') <= Cardinality(Owed(p))
        BY <1>2, <3>2, OwedFinite, FS_Subset DEF Decides
      <4> QED
        BY <3>2, <4>1, OwedFinite, OwedFiniteNext
    <3> QED
      BY <3>1, <3>2
  <2>2. ASSUME NEW p \in Charges
        PROVE  credits'[p] + Cardinality(Owed(p)') <= approvals'[p]
    <3>1. credits[p] + Cardinality(Owed(p)) <= approvals[p]
      BY DEF CreditInv
    <3>2. /\ credits'[p] = credits[p]
          /\ approvals'[p] = approvals[p] + IF p = o THEN 1 ELSE 0
      BY <1>2 DEF Decides, Charges
    <3> QED
      BY <2>1, <3>1, <3>2, OwedFinite, OwedFiniteNext DEF Charges
  <2> QED
    BY <1>2, <2>2 DEF Decides, CreditInv
<1>3. ASSUME NEW h \in Handlers, Credits(h) PROVE CreditInv'
  <2> DEFINE o == on[h]
  <2>1. o \in Charges /\ h \in Owed(o)
    BY <1>3 DEF Credits
  <2>2. ASSUME NEW p \in Charges
        PROVE  Cardinality(Owed(p)') <= Cardinality(Owed(p)) - IF p = o THEN 1 ELSE 0
    <3> DEFINE S == Owed(p)
    <3>0. /\ IsFiniteSet(S) /\ Cardinality(S) \in Nat
          /\ p = o => h \in S
      BY <2>1, OwedFinite
    <3> HIDE DEF S, o
    <3>1. /\ IsFiniteSet(S \ {h})
          /\ Cardinality(S \ {h}) <= Cardinality(S) - IF p = o THEN 1 ELSE 0
      <4>1. /\ IsFiniteSet(S \ {h})
            /\ Cardinality(S \ {h}) = IF h \in S THEN Cardinality(S) - 1 ELSE Cardinality(S)
        BY <3>0, FS_RemoveElement
      <4> QED
        BY <3>0, <4>1
    <3> USE DEF S, o
    <3>2. /\ Cardinality(Owed(p)') <= Cardinality(Owed(p) \ {h})
          /\ Cardinality(Owed(p) \ {h}) \in Nat
      BY <1>3, <3>1, FS_Subset, FS_CardinalityType DEF Credits
    <3> QED
      BY <3>1, <3>2, OwedFinite, OwedFiniteNext
  <2>3. ASSUME NEW p \in Charges
        PROVE  credits'[p] + Cardinality(Owed(p)') <= approvals'[p]
    <3>1. credits[p] + Cardinality(Owed(p)) <= approvals[p]
      BY DEF CreditInv
    <3>2. /\ credits'[p] = credits[p] + IF p = o THEN 1 ELSE 0
          /\ approvals'[p] = approvals[p]
      BY <1>3, <2>1 DEF Credits, Charges
    <3> QED
      BY <2>2, <3>1, <3>2, OwedFinite, OwedFiniteNext DEF Charges
  <2>4. ASSUME NEW p \in Orders \ Charges PROVE credits'[p] = 0
    <3>1. p # o
      BY <2>1
    <3> QED
      BY <1>3, <3>1 DEF Credits, CreditInv
  <2> QED
    BY <2>3, <2>4 DEF CreditInv
<1> QED
  BY <1>1, <1>2, <1>3

\* Only a decision starts a handler that may credit a top-up.
LEMMA CreditStart ==
  ASSUME TypeOK, CreditInv, NEW h \in Handlers, Start(h)
  PROVE  CreditInv'
<1> PICK o \in Orders :
      \/ PayInBot(h, o) \/ PayInWeb(h, o)
      \/ ApproveInWeb(h, o) \/ ApproveInBot(h, o) \/ Complimentary(h, o)
      \/ CheckDelivery(h, o) \/ PickReservation(h, o)
      \/ SendReceiptInBot(h, o) \/ PressBack(h, o)
  BY DEF Start
<1> USE DEF TypeOK, HandlingOK, Enter, money
<1>1. ASSUME NEW at, Enter(h, o, at), at \notin Due \/ o \notin Charges
      PROVE  \A p \in Charges : Owed(p)' \subseteq Owed(p)
  BY <1>1 DEF Owed
<1>2. CASE PayInBot(h, o) \/ PayInWeb(h, o)
  <2>1. Idles
    BY <1>1, <1>2 DEF PayInBot, PayInWeb, Idles, Charges
  <2> QED
    BY <2>1, CreditSteps
<1>3. CASE ApproveInWeb(h, o) \/ ApproveInBot(h, o)
  <2>1. Decides(h, o)
    BY <1>3 DEF ApproveInWeb, ApproveInBot, Approve, Decides, Owed
  <2> QED
    BY <2>1, CreditSteps
<1>4. CASE Complimentary(h, o)
  <2>1. Decides(h, o)
    BY <1>4 DEF Complimentary, Decides, Owed
  <2> QED
    BY <2>1, CreditSteps
<1>5. CASE PickReservation(h, o)
  <2>1. Idles
    BY <1>1, <1>5 DEF PickReservation, Idles, Charges
  <2> QED
    BY <2>1, CreditSteps
<1>6. CASE CheckDelivery(h, o) \/ SendReceiptInBot(h, o) \/ PressBack(h, o)
  <2>1. Idles
    BY <1>1, <1>6 DEF CheckDelivery, SendReceiptInBot, PressBack, Idles, Due
  <2> QED
    BY <2>1, CreditSteps
<1> QED
  BY <1>2, <1>3, <1>4, <1>5, <1>6

\* A handler credits once, and owes nothing afterwards.
LEMMA CreditProceed ==
  ASSUME TypeOK, WorkInv, CreditInv, NEW h \in Handlers, Proceed(h)
  PROVE  CreditInv'
<1> USE DEF TypeOK, HandlingOK, money, history
<1>1. ASSUME NEW at, Goto(h, at), UNCHANGED on, at \notin Due \/ pc[h] \in Due
      PROVE  \A p \in Charges : Owed(p)' \subseteq Owed(p)
  BY <1>1 DEF Owed, Goto
<1>2. ASSUME Finish(h) PROVE \A p \in Charges : Owed(p)' \subseteq Owed(p)
  BY <1>2 DEF Owed, Finish, Due
<1>3. CASE Credit(h)
  <2>1. Kind[on[h]] = "wallet_charge" /\ on[h] \in Orders /\ pc[h] = "credit"
    BY <1>3 DEF Credit, WorkInv
  <2>2. Credits(h)
    BY <1>3, <2>1 DEF Credit, Goto, Stay, Credits, Owed, Charges, Due
  <2> QED
    BY <2>2, CreditSteps
<1>4. CASE \/ Debit(h) \/ MarkPaid(h) \/ Settle(h) \/ RecordDiscountUse(h) \/ AddClient(h)
           \/ CreateRow(h) \/ RowTaken(h) \/ UpdateTarget(h) \/ Deliver(h)
  <2>1. \E at : Goto(h, at) /\ UNCHANGED on /\ (at \notin Due \/ pc[h] \in Due)
    BY <1>4 DEF Debit, MarkPaid, Settle, RecordDiscountUse, AddClient, CreateRow, RowTaken,
         UpdateTarget, Deliver, Stay, Due
  <2>2. UNCHANGED <<credits, approvals>>
    BY <1>4 DEF Debit, MarkPaid, Settle, RecordDiscountUse, AddClient, CreateRow, RowTaken,
         UpdateTarget, Deliver
  <2>3. Idles
    BY <1>1, <2>1, <2>2 DEF Idles
  <2> QED
    BY <2>3, CreditSteps
<1>5. CASE \/ DebitRefused(h) \/ Reserve(h) \/ Queue(h) \/ Complete(h) \/ Restore(h)
           \/ DeliveryFails(h) \/ AttachReceipt(h) \/ CancelOnBack(h)
  <2>1. Finish(h) /\ UNCHANGED <<credits, approvals>>
    BY <1>5 DEF DebitRefused, Reserve, Queue, Complete, Restore, DeliveryFails, AttachReceipt,
         CancelOnBack
  <2>2. Idles
    BY <1>2, <2>1 DEF Idles
  <2> QED
    BY <2>2, CreditSteps
<1>6. CASE CheckQueue(h) \/ CheckProvision(h) \/ Claim(h) \/ WorkFails(h)
  <2>1. \/ Finish(h)
        \/ \E at : Goto(h, at) /\ UNCHANGED on /\ (at \notin Due \/ pc[h] \in Due)
    BY <1>6 DEF CheckQueue, CheckProvision, Claim, WorkFails, Stay, Due
  <2>2. UNCHANGED <<credits, approvals>>
    BY <1>6 DEF CheckQueue, CheckProvision, Claim, WorkFails
  <2>3. Idles
    BY <1>1, <1>2, <2>1, <2>2 DEF Idles
  <2> QED
    BY <2>3, CreditSteps
<1> QED
  BY <1>3, <1>4, <1>5, <1>6 DEF Proceed

\* Whatever else happens credits nothing and starts nothing.
LEMMA CreditOther ==
  ASSUME TypeOK, CreditInv,
         \/ \E h \in Handlers : Throw(h)
         \/ \E o \in Orders : AtOnce(o)
         \/ Crash
         \/ UNCHANGED vars
  PROVE  CreditInv'
<1> USE DEF TypeOK, HandlingOK, money, handling, history
<1>1. ASSUME NEW h \in Handlers, Throw(h) PROVE Idles
  BY <1>1 DEF Throw, Finish, Idles, Owed, Due
<1>2. ASSUME NEW o \in Orders, AtOnce(o) PROVE Idles
  <2>1. UNCHANGED <<credits, approvals, pc, on>>
    BY <1>2 DEF AtOnce, List, Reject, SendReceiptInWeb, Cancel, CancelStale, DeleteTarget
  <2> QED
    BY <2>1 DEF Idles, Owed
<1>3. CASE Crash
  <2>1. Idles
    BY <1>3 DEF Crash, Idles, Owed, Due
  <2> QED
    BY <2>1, CreditSteps
<1>4. CASE UNCHANGED vars
  <2>1. Idles
    BY <1>4 DEF vars, Idles, Owed
  <2> QED
    BY <2>1, CreditSteps
<1> QED
  BY <1>1, <1>2, <1>3, <1>4, CreditSteps

(***************************************************************************)
(* A top-up is credited at most once per decision, however many runs race  *)
(* on it, fail and are repeated.                                           *)
(***************************************************************************)
THEOREM CreditsAreApproved == Spec => []CreditsApproved
<1>1. Init => CreditInv
  <2> SUFFICES ASSUME Init PROVE CreditInv
    OBVIOUS
  <2>1. \A o : Owed(o) = {}
    BY DEF Init, Owed, Due
  <2> QED
    BY <2>1, FS_EmptySet DEF Init, CreditInv, Charges
<1>2. TypeOK /\ WorkInv /\ CreditInv /\ [Next]_vars => CreditInv'
  BY CreditStart, CreditProceed, CreditOther DEF Next
<1>3. TypeOK /\ CreditInv => CreditsApproved
  BY OwedFinite DEF TypeOK, StoreOK, HistoryOK, CreditInv, CreditsApproved, Charges
<1> QED
  BY <1>1, <1>2, <1>3, WorkInit, WorkStep, TypeCorrect, PTL DEF Spec
=============================================================================
