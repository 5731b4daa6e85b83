--------------------------- MODULE CheckoutProofs ---------------------------
(* Theorems about how many orders a user gets, for any number of users,    *)
(* requests in flight and orders.                                          *)
EXTENDS Checkout, TLAPS, FiniteSetTheorems, SequenceTheorems

Creating == {"recent", "open", "row", "own", "drop", "create"}
OnOrder == {"mark", "paid", "record", "fulfil", "attach", "claim", "apply"}
OnTest == {"check", "client", "subscription", "flag", "again"}

JobSet == [kind : Kinds, user : Users, code : BOOLEAN, months : Nat, seen : Nat,
           ord : Numbers \cup {None}, at : Creating \cup OnOrder \cup OnTest]

\* Where a request of a kind may stand, and what it has in its hands there.
Ready(d) ==
  /\ d.at \in Creating <=> d.kind \in Creations
  /\ d.kind \in Creations => d.code \in Codes
  /\ d.at \in OnOrder => d.ord \in Numbers

Data ==
  /\ orders \in Seq(OrderSet)
  /\ used \in 0 .. MaxUses
  /\ claimed \subseteq Users /\ tests \subseteq Users /\ locks \subseteq Users

Work ==
  /\ DOMAIN job = Jobs
  /\ \A j \in Busy : job[j] \in JobSet /\ Ready(job[j])

\* Every creation in flight has a place among the orders.
Creators == {i \in Busy : job[i].kind \in Creations}
Room == Len(orders) + Cardinality(Creators) <= MaxOrders

TypeInv == Data /\ Work /\ Room

-----------------------------------------------------------------------------
(* The orders of a user's draft that the bot made and are open.            *)
BotTwins(u, c, m) == {o \in Twins(u, c, m) : orders[o].inBot}
Faithful(m) == Drafted(m) = m

Tapping == {j \in Busy : job[j].kind = "tap"}

\* The lock lets one checkout of a user in; past its check nothing is open.
Locked ==
  /\ \A j \in Tapping : job[j].user \in locks
  /\ \A i, j \in Tapping : job[i].user = job[j].user => i = j
  /\ \A j \in Tapping : job[j].at # "recent" /\ Faithful(job[j].months) =>
       BotTwins(job[j].user, job[j].code, job[j].months) = {}

Single == \A u \in Users, c \in Codes, m \in Nat : Faithful(m) =>
  \A o, p \in BotTwins(u, c, m) : o = p

TapInv == Locked /\ Single

-----------------------------------------------------------------------------
(* Steps that make no order: none opens again, none changes its owner.     *)
Closes ==
  /\ DOMAIN orders' = DOMAIN orders
  /\ \A o \in DOMAIN orders :
       /\ orders'[o].kind = orders[o].kind /\ orders'[o].user = orders[o].user
       /\ orders'[o].code = orders[o].code /\ orders'[o].inBot = orders[o].inBot
       /\ orders'[o].months = orders[o].months
       /\ orders'[o].recent => orders[o].recent
       /\ orders'[o].status = "pending_payment" => orders[o].status = "pending_payment"

\* Steps that start no request: each keeps what it is about, and stays past its
\* check of recent orders.
Continues ==
  /\ DOMAIN job' = Jobs
  /\ \A j \in Jobs : job'[j] # None =>
       /\ job[j] # None
       /\ job'[j].kind = job[j].kind /\ job'[j].user = job[j].user
       /\ job'[j].code = job[j].code /\ job'[j].months = job[j].months
       /\ job[j].kind = "tap" /\ job'[j].at # "recent" /\ Faithful(job[j].months) =>
            \/ job[j].at # "recent"
            \/ BotTwins(job[j].user, job[j].code, job[j].months) = {}

LEMMA ClosesTwins ==
  ASSUME Closes
  PROVE  \A u, c, m : (BotTwins(u, c, m))' \subseteq BotTwins(u, c, m)
BY DEF Closes, BotTwins, Twins, Numbers

LEMMA ContinuesTap ==
  ASSUME TapInv, Closes, Continues, \A j \in Tapping' : job'[j].user \in locks'
  PROVE  TapInv'
<1>1. Tapping' \subseteq Tapping
  BY DEF Continues, Tapping, Busy
<1>2. \A j \in Tapping' :
        /\ job'[j].user = job[j].user /\ job'[j].code = job[j].code
        /\ job'[j].months = job[j].months /\ job[j].kind = "tap"
  BY DEF Continues, Tapping, Busy
<1>3. \A j \in Tapping' : job'[j].at # "recent" /\ Faithful(job[j].months) =>
        BotTwins(job[j].user, job[j].code, job[j].months) = {}
  BY <1>1 DEF Continues, Tapping, Busy, TapInv, Locked
<1>4. \A j \in Tapping' : job'[j].at # "recent" /\ Faithful(job[j].months) =>
        (BotTwins(job[j].user, job[j].code, job[j].months))' = {}
  BY <1>2, <1>3, ClosesTwins
<1>5. Locked'
  BY <1>1, <1>2, <1>4 DEF TapInv, Locked
<1>6. Single'
  BY ClosesTwins DEF TapInv, Single
<1> QED
  BY <1>5, <1>6 DEF TapInv

-----------------------------------------------------------------------------
(* What the steps make of the orders ...                                   *)
Amends == orders' \in Seq(OrderSet) /\ Len(orders') = Len(orders) /\ Closes

LEMMA SameOrders == ASSUME Data, UNCHANGED orders PROVE Amends
BY DEF Data, Amends, Closes

LEMMA MappedOrders ==
  ASSUME Data, NEW f, f = [o \in Numbers |-> f[o]], \A o \in Numbers : f[o] \in OrderSet
  PROVE  f \in Seq(OrderSet) /\ Len(f) = Len(orders) /\ DOMAIN f = DOMAIN orders
<1>1. Len(orders) \in Nat /\ Numbers = 1 .. Len(orders)
  BY DEF Data, Numbers
<1>2. f \in [1 .. Len(orders) -> OrderSet]
  BY <1>1
<1> QED
  BY <1>1, <1>2

LEMMA StatusAmends ==
  ASSUME Data, NEW o \in Numbers, NEW s \in Statuses \ {"pending_payment"}, SetStatus(o, s)
  PROVE  Amends
<1>1. \A p \in Numbers : orders[p] \in OrderSet
  BY DEF Data, Numbers
<1>2. orders' = [p \in Numbers |-> orders'[p]]
  BY DEF SetStatus, Numbers, Data
<1>3. \A p \in Numbers :
        orders'[p] = IF p = o THEN [orders[p] EXCEPT !.status = s] ELSE orders[p]
  BY DEF SetStatus, Numbers, Data
<1>4. \A p \in Numbers : orders'[p] \in OrderSet
  <2>1. \A r \in OrderSet : [r EXCEPT !.status = s] \in OrderSet
    BY DEF OrderSet
  <2> QED
    BY <1>1, <1>3, <2>1
<1>5. orders' \in Seq(OrderSet) /\ Len(orders') = Len(orders) /\ DOMAIN orders' = DOMAIN orders
  BY <1>2, <1>4, MappedOrders
<1>6. Closes
  BY <1>1, <1>3, <1>5 DEF Closes, OrderSet, Numbers
<1> QED
  BY <1>5, <1>6 DEF Amends

LEMMA CancelledAmends ==
  ASSUME Data, NEW S, orders' = Cancelled(S)
  PROVE  Amends
<1>1. \A p \in Numbers : orders[p] \in OrderSet
  BY DEF Data, Numbers
<1>2. \A p \in Numbers :
        orders'[p] = IF p \in S THEN [orders[p] EXCEPT !.status = "cancelled"] ELSE orders[p]
  BY DEF Cancelled
<1>3. orders' = [p \in Numbers |-> orders'[p]]
  BY DEF Cancelled
<1>4. \A p \in Numbers : orders'[p] \in OrderSet
  <2>1. \A r \in OrderSet : [r EXCEPT !.status = "cancelled"] \in OrderSet
    BY DEF OrderSet, Statuses
  <2> QED
    BY <1>1, <1>2, <2>1
<1>5. orders' \in Seq(OrderSet) /\ Len(orders') = Len(orders) /\ DOMAIN orders' = DOMAIN orders
  BY <1>3, <1>4, MappedOrders
<1>6. Closes
  BY <1>1, <1>2, <1>5 DEF Closes, OrderSet, Numbers
<1> QED
  BY <1>5, <1>6 DEF Amends

(* ... and of the request they belong to.                                  *)
LEMMA RoomKept ==
  ASSUME Work, Room, Amends, Creators' \subseteq Creators
  PROVE  Room'
<1>1. IsFiniteSet(Creators)
  BY FS_Subset, BoundAssumption DEF Creators, Busy
<1>2. Cardinality(Creators') <= Cardinality(Creators)
  BY <1>1, FS_Subset
<1>3. Cardinality(Creators) \in Nat /\ Cardinality(Creators') \in Nat
  BY <1>1, FS_Subset, FS_CardinalityType
<1>4. Len(orders') = Len(orders) /\ Len(orders') \in Nat
  BY DEF Amends
<1> QED
  BY <1>2, <1>3, <1>4, BoundAssumption DEF Room

LEMMA Moves ==
  ASSUME Work, Room, TapInv, Amends, NEW j \in Busy, NEW e \in JobSet, Ready(e),
         e.kind = job[j].kind, e.user = job[j].user, e.code = job[j].code,
         e.months = job[j].months,
         job[j].kind = "tap" /\ job[j].at = "recent" /\ Faithful(job[j].months) =>
           BotTwins(job[j].user, job[j].code, job[j].months) = {},
         job' = [job EXCEPT ![j] = e], UNCHANGED locks
  PROVE  Work' /\ Room' /\ TapInv'
<1>1. \A i \in Jobs : job'[i] = IF i = j THEN e ELSE job[i]
  BY DEF Work
<1>2. Numbers' = Numbers
  BY DEF Amends, Closes, Numbers
<1>3. Work'
  BY <1>1, <1>2 DEF Work, Busy, JobSet, Ready
<1>4. Creators' \subseteq Creators
  BY <1>1 DEF Creators, Busy
<1>5. Continues
  BY <1>1 DEF Continues, Work, Busy
<1>6. \A i \in Tapping' : job'[i].user \in locks'
  BY <1>1 DEF Tapping, Busy, TapInv, Locked
<1> QED
  BY <1>3, <1>4, <1>5, <1>6, RoomKept, ContinuesTap DEF Amends

LEMMA Leaves ==
  ASSUME Work, Room, TapInv, Amends, NEW j \in Busy,
         job' = [job EXCEPT ![j] = None],
         locks' = IF job[j].kind = "tap" THEN locks \ {job[j].user} ELSE locks
  PROVE  Work' /\ Room' /\ TapInv'
<1>1. \A i \in Jobs : job'[i] = IF i = j THEN None ELSE job[i]
  BY DEF Work
<1>2. Numbers' = Numbers
  BY DEF Amends, Closes, Numbers
<1>3. Work'
  BY <1>1, <1>2 DEF Work, Busy, JobSet, Ready
<1>4. Creators' \subseteq Creators
  BY <1>1 DEF Creators, Busy
<1>5. Continues
  BY <1>1 DEF Continues, Work, Busy
<1>6. ASSUME NEW i \in Tapping' PROVE job'[i].user \in locks'
  <2>1. i # j /\ i \in Tapping /\ job'[i] = job[i]
    BY <1>1 DEF Tapping, Busy
  <2>2. job[j].kind = "tap" => job[i].user # job[j].user
    BY <2>1 DEF TapInv, Locked, Tapping
  <2> QED
    BY <2>1, <2>2 DEF TapInv, Locked
<1> QED
  BY <1>3, <1>4, <1>5, <1>6, RoomKept, ContinuesTap DEF Amends

-----------------------------------------------------------------------------
(* A request starts: a tap finds its user unlocked.                        *)
LEMMA StartKeeps ==
  ASSUME TypeInv, TapInv, NEW j \in Jobs, NEW d \in JobSet, Ready(d), d # None, Start(j, d),
         d.kind = "tap" =>
           d.at = "recent" /\ d.user \notin locks /\ locks' = locks \cup {d.user},
         d.kind # "tap" => UNCHANGED locks
  PROVE  TypeInv' /\ TapInv'
<1> USE DEF TypeInv
<1>1. UNCHANGED <<orders, used, claimed, tests>> /\ job' = [job EXCEPT ![j] = d]
  BY DEF Start, tables
<1>2. \A i \in Jobs : job'[i] = IF i = j THEN d ELSE job[i]
  BY <1>1 DEF Work
<1>3. Data'
  BY <1>1 DEF Data, JobSet
<1>4. Work'
  BY <1>1, <1>2 DEF Work, Busy, JobSet, Ready, Numbers
<1>5. IsFiniteSet(Creators) /\ Cardinality(Creators) \in Nat
  BY FS_Subset, FS_CardinalityType, BoundAssumption DEF Creators, Busy
<1>6. Room'
  <2>1. Len(orders) \in Nat
    BY DEF Data
  <2>2. CASE d.kind \in Creations
    <3>1. Creators' = Creators \cup {j}
      BY <1>2, <2>2 DEF Creators, Busy, Start, JobSet
    <3>2. j \notin Creators
      BY DEF Creators, Busy, Start
    <3>3. Cardinality(Creators') = Cardinality(Creators) + 1
      BY <1>5, <3>1, <3>2, FS_AddElement
    <3>4. Len(orders) + Cardinality(Creators) < MaxOrders
      BY <2>2 DEF Start, Creators
    <3> QED
      BY <1>1, <1>5, <2>1, <3>3, <3>4, BoundAssumption DEF Room
  <2>3. CASE d.kind \notin Creations
    <3>1. Creators' \subseteq Creators
      BY <1>2, <2>3 DEF Creators, Busy
    <3> QED
      BY <1>1, <3>1, RoomKept, SameOrders
  <2> QED
    BY <2>2, <2>3
<1>7. \A u, c, m : (BotTwins(u, c, m))' = BotTwins(u, c, m)
  BY <1>1 DEF BotTwins, Twins, Numbers
<1>8. \A i \in Tapping' : \/ i = j /\ d.kind = "tap"
                          \/ i # j /\ i \in Tapping /\ job'[i] = job[i]
  BY <1>2 DEF Tapping, Busy
<1>9. Locked'
  BY <1>2, <1>7, <1>8 DEF TapInv, Locked
<1>10. Single'
  BY <1>7 DEF TapInv, Single
<1> QED
  BY <1>3, <1>4, <1>6, <1>9, <1>10 DEF TapInv

(* A new order takes the place of its request; one made by a tap is the    *)
(* only open one of its draft.                                             *)
LEMMA CreateKeeps ==
  ASSUME TypeInv, TapInv, NEW j \in Jobs, CreateOrder(j)
  PROVE  TypeInv' /\ TapInv'
<1> USE DEF TypeInv
<1> DEFINE n == Len(orders) + 1
           x == [kind |-> IF job[j].kind = "reserve" THEN "reserve" ELSE "new",
                 user |-> job[j].user, code |-> job[j].code, months |-> job[j].months,
                 inBot |-> job[j].kind = "tap",
                 status |-> "pending_payment", receipt |-> FALSE, recent |-> TRUE]
<1>1. /\ j \in Busy /\ job[j].at = "create" /\ job[j].kind \in Creations
      /\ job[j].user \in Users /\ job[j].code \in Codes /\ job[j].months \in Nat
  BY DEF CreateOrder, At, Busy, Work, Ready, Creating, JobSet
<1>2. x \in OrderSet
  BY <1>1 DEF OrderSet, Statuses
<1>3. /\ orders' = Append(orders, x) /\ orders' \in Seq(OrderSet) /\ Len(orders') = n
      /\ Numbers = 1 .. Len(orders) /\ Numbers' = 1 .. n /\ Len(orders) \in Nat
      /\ orders'[n] = x /\ \A o \in Numbers : orders'[o] = orders[o]
  BY <1>2 DEF CreateOrder, Data, Numbers
<1>4. /\ UNCHANGED <<used, claimed, tests>>
      /\ job' = [job EXCEPT ![j] = None]
      /\ locks' = IF job[j].kind = "tap" THEN locks \ {job[j].user} ELSE locks
  BY DEF CreateOrder, Ends
<1>5. \A i \in Jobs : job'[i] = IF i = j THEN None ELSE job[i]
  BY <1>4 DEF Work
<1>6. Data'
  BY <1>3, <1>4 DEF Data
<1>7. Work'
  BY <1>3, <1>4, <1>5 DEF Work, Busy, JobSet, Ready
<1>8. Room'
  <2>1. Creators' = Creators \ {j} /\ j \in Creators
    BY <1>1, <1>5 DEF Creators, Busy
  <2>2. IsFiniteSet(Creators) /\ Cardinality(Creators) \in Nat
    BY FS_Subset, FS_CardinalityType, BoundAssumption DEF Creators, Busy
  <2>3. Cardinality(Creators') = Cardinality(Creators) - 1
    BY <2>1, <2>2, FS_RemoveElement
  <2> QED
    BY <1>3, <2>2, <2>3, BoundAssumption DEF Room
<1>9. ASSUME NEW u, NEW c, NEW m, NEW o \in (BotTwins(u, c, m))'
      PROVE  \/ o \in BotTwins(u, c, m)
             \/ /\ o = n /\ job[j].kind = "tap" /\ u = job[j].user
                /\ c = job[j].code /\ m = job[j].months
  <2>1. /\ o \in Numbers' /\ orders'[o].user = u /\ orders'[o].code = c
        /\ orders'[o].months = m /\ orders'[o].inBot
    BY DEF BotTwins, Twins
  <2>2. CASE o = n
    <3>1. /\ x.user = job[j].user /\ x.code = job[j].code /\ x.months = job[j].months
          /\ x.inBot <=> job[j].kind = "tap"
      OBVIOUS
    <3>2. x.user = u /\ x.code = c /\ x.months = m /\ x.inBot
      BY <1>3, <2>1, <2>2
    <3> HIDE DEF x
    <3> QED
      BY <2>2, <3>1, <3>2
  <2>3. CASE o # n
    <3>1. o \in Numbers /\ orders'[o] = orders[o]
      BY <1>3, <2>1, <2>3
    <3> QED
      BY <3>1 DEF BotTwins, Twins
  <2> QED
    BY <2>2, <2>3
<1>10. \A i \in Tapping' : i # j /\ i \in Tapping /\ job'[i] = job[i]
  BY <1>5 DEF Tapping, Busy
<1>11. \A i \in Tapping' : job[j].kind = "tap" => job[i].user # job[j].user
  BY <1>1, <1>10 DEF TapInv, Locked, Tapping
<1>12. Locked'
  <2>1. \A i \in Tapping' : job'[i].user \in locks'
    BY <1>4, <1>10, <1>11 DEF TapInv, Locked
  <2>2. ASSUME NEW i \in Tapping', job'[i].at # "recent", Faithful(job[i].months)
        PROVE  (BotTwins(job[i].user, job[i].code, job[i].months))' = {}
    <3>1. /\ BotTwins(job[i].user, job[i].code, job[i].months) = {}
          /\ job'[i] = job[i]
      BY <1>10, <2>2 DEF TapInv, Locked
    <3> QED
      BY <1>9, <1>11, <3>1
  <2> QED
    BY <1>10, <2>1, <2>2 DEF TapInv, Locked
<1>13. Single'
  <2> SUFFICES ASSUME NEW u \in Users, NEW c \in Codes, NEW m \in Nat, Faithful(m),
                      NEW o \in (BotTwins(u, c, m))', NEW p \in (BotTwins(u, c, m))'
               PROVE  o = p
    BY DEF Single, Faithful, Drafted
  <2> DEFINE its == /\ job[j].kind = "tap" /\ u = job[j].user
                    /\ c = job[j].code /\ m = job[j].months
  <2>1. CASE its
    <3>1. BotTwins(u, c, m) = {}
      BY <1>1, <2>1 DEF TapInv, Locked, Tapping
    <3> QED
      BY <1>9, <3>1
  <2>2. CASE ~its
    BY <1>9, <2>2 DEF TapInv, Single
  <2> QED
    BY <2>1, <2>2
<1> QED
  BY <1>6, <1>7, <1>8, <1>12, <1>13 DEF TapInv

-----------------------------------------------------------------------------
(* A request goes on to a place of its own kind.                           *)
LEMMA Goes ==
  ASSUME Work, Room, TapInv, Amends, NEW j \in Busy, NEW at, Goto(j, at),
         \/ job[j].at \in Creating /\ at \in Creating
         \/ job[j].at \in OnOrder /\ at \in OnOrder
         \/ job[j].at \in OnTest /\ at \in OnTest,
         job[j].kind = "tap" /\ job[j].at = "recent" /\ Faithful(job[j].months) =>
           BotTwins(job[j].user, job[j].code, job[j].months) = {}
  PROVE  Work' /\ Room' /\ TapInv' /\ locks' = locks
<1> DEFINE e == [job[j] EXCEPT !.at = at]
<1>1. job[j] \in JobSet /\ Ready(job[j])
  BY DEF Work
<1>2. e \in JobSet /\ Ready(e) /\ e.kind = job[j].kind /\ e.user = job[j].user
      /\ e.code = job[j].code /\ e.months = job[j].months
  BY <1>1 DEF JobSet, Ready, Creating, OnOrder, OnTest
<1>3. job' = [job EXCEPT ![j] = e] /\ UNCHANGED locks
  BY DEF Goto
<1> HIDE DEF e
<1> QED
  BY <1>2, <1>3, Moves

LEMMA GoneSpec ==
  ASSUME Data, Work, Room, TapInv, Amends, NEW j \in Busy, Ends(j)
  PROVE  Work' /\ Room' /\ TapInv' /\ locks' \subseteq Users
<1>1. locks' \subseteq Users
  BY DEF Ends, Data
<1> QED
  BY <1>1, Leaves DEF Ends

(* The steps of a creation up to the order.                                *)
LEMMA CreationKeeps ==
  ASSUME TypeInv, TapInv, NEW j \in Jobs,
         Recent(j) \/ NoReserve(j) \/ ReadCode(j) \/ CheckCode(j) \/ DropPending(j)
  PROVE  TypeInv' /\ TapInv'
<1> USE DEF TypeInv
<1>1. /\ j \in Busy /\ job[j] \in JobSet /\ Ready(job[j])
      /\ job[j].at \in Creating
  BY DEF Recent, NoReserve, ReadCode, CheckCode, DropPending, At, Busy, Work, Creating
<1>2. Amends /\ UNCHANGED <<used, claimed, tests>>
  BY SameOrders, CancelledAmends
  DEF Recent, NoReserve, ReadCode, CheckCode, DropPending, tables
<1>3. CASE Recent(j)
  <2>1. CASE Ends(j)
    BY <1>1, <1>2, <2>1, GoneSpec DEF Data, Amends
  <2>2. CASE Twins(job[j].user, job[j].code, Drafted(job[j].months)) = {} /\ Priced(j)
    <3>1. Faithful(job[j].months) =>
            BotTwins(job[j].user, job[j].code, job[j].months) = {}
      BY <2>2 DEF BotTwins, Faithful
    <3>2. Work' /\ Room' /\ TapInv' /\ locks' = locks
      BY <1>1, <1>2, <2>2, <3>1, Goes DEF Priced, Creating
    <3> QED
      BY <1>2, <3>2 DEF Data, Amends
  <2> QED
    BY <1>3, <2>1, <2>2 DEF Recent
<1>4. CASE NoReserve(j) \/ CheckCode(j) \/ DropPending(j)
  <2>1. job[j].at # "recent" /\ (Ends(j) \/ \E at \in Creating : Goto(j, at))
    BY <1>4 DEF NoReserve, CheckCode, DropPending, Priced, At, Creating
  <2>2. Work' /\ Room' /\ TapInv' /\ locks' \subseteq Users
    BY <1>1, <1>2, <2>1, Goes, GoneSpec DEF Data
  <2> QED
    BY <1>2, <2>2 DEF Data, Amends
<1>5. CASE ReadCode(j)
  <2> DEFINE e == [job[j] EXCEPT !.at = "own", !.seen = used]
  <2>1. /\ e \in JobSet /\ Ready(e) /\ e.kind = job[j].kind /\ e.user = job[j].user
        /\ e.code = job[j].code /\ e.months = job[j].months
    <3>1. used \in Nat
      BY BoundAssumption DEF Data
    <3>2. \A d \in JobSet : [d EXCEPT !.at = "own"] \in JobSet
      BY DEF JobSet, Creating
    <3>3. \A d \in JobSet : [d EXCEPT !.seen = used] \in JobSet
      BY <3>1 DEF JobSet
    <3>4. e = [[job[j] EXCEPT !.at = "own"] EXCEPT !.seen = used] /\ e \in JobSet
      BY <1>1, <3>2, <3>3
    <3> QED
      BY <1>1, <3>4 DEF JobSet, Ready, Creating, OnOrder
  <2>2. job' = [job EXCEPT ![j] = e] /\ UNCHANGED locks /\ job[j].at # "recent"
    BY <1>5 DEF ReadCode, At
  <2> HIDE DEF e
  <2>3. Work' /\ Room' /\ TapInv'
    BY <1>1, <1>2, <2>1, <2>2, Moves
  <2> QED
    BY <1>2, <2>2, <2>3 DEF Data, Amends
<1> QED
  BY <1>3, <1>4, <1>5

(* What the steps on an order make of the orders.                          *)
LEMMA PaymentAmends ==
  ASSUME TypeInv, NEW j \in Jobs,
         \/ MarkPaid(j) \/ WritePaid(j) \/ RecordUse(j) \/ Fulfil(j)
         \/ AttachReceipt(j) \/ ClaimReservation(j) \/ ApplyReservation(j)
  PROVE  Amends
<1> USE DEF TypeInv
<1>0. job[j].ord \in Numbers
  BY DEF MarkPaid, WritePaid, RecordUse, Fulfil, AttachReceipt, ClaimReservation,
         ApplyReservation, At, Busy, Work, Ready, OnOrder
<1>1. CASE MarkPaid(j) \/ RecordUse(j)
  BY <1>1, SameOrders DEF MarkPaid, RecordUse, tables
<1>2. CASE WritePaid(j) \/ ClaimReservation(j) \/ ApplyReservation(j) \/ Fulfil(j)
  <2>1. \E s \in Statuses \ {"pending_payment"} : SetStatus(job[j].ord, s)
    BY <1>2 DEF WritePaid, ClaimReservation, ApplyReservation, Fulfil, Statuses
  <2> QED
    BY <1>0, <2>1, StatusAmends
<1>3. CASE AttachReceipt(j)
  <2> DEFINE o == job[j].ord
  <2>1. \A p \in Numbers : orders[p] \in OrderSet
    BY DEF Data, Numbers
  <2>2. \A p \in Numbers :
          orders'[p] = IF p = o
                       THEN [orders[p] EXCEPT !.status = "awaiting_review", !.receipt = TRUE]
                       ELSE orders[p]
    BY <1>3 DEF AttachReceipt, Numbers, Data
  <2>3. orders' = [p \in Numbers |-> orders'[p]]
    BY <1>3 DEF AttachReceipt, Numbers, Data
  <2>4. ASSUME NEW p \in Numbers PROVE orders'[p] \in OrderSet
    <3>1. "awaiting_review" \in Statuses /\ orders[p] \in OrderSet
      BY <2>1 DEF Statuses
    <3>2. [orders[p] EXCEPT !.status = "awaiting_review"] \in OrderSet
      BY <3>1 DEF OrderSet
    <3>3. \A x \in OrderSet : [x EXCEPT !.receipt = TRUE] \in OrderSet
      BY DEF OrderSet
    <3> QED
      BY <2>2, <3>1, <3>2, <3>3
  <2>5. orders' \in Seq(OrderSet) /\ Len(orders') = Len(orders)
        /\ DOMAIN orders' = DOMAIN orders
    BY <2>3, <2>4, MappedOrders
  <2>6. Closes
    BY <2>1, <2>2, <2>5 DEF Closes, OrderSet, Numbers
  <2> QED
    BY <2>5, <2>6 DEF Amends
<1> QED
  BY <1>1, <1>2, <1>3

(* The steps of a request that works on an order.                          *)
LEMMA PaymentKeeps ==
  ASSUME TypeInv, TapInv, NEW j \in Jobs,
         \/ MarkPaid(j) \/ WritePaid(j) \/ RecordUse(j) \/ Fulfil(j)
         \/ AttachReceipt(j) \/ ClaimReservation(j) \/ ApplyReservation(j)
  PROVE  TypeInv' /\ TapInv'
<1> USE DEF TypeInv
<1>1. /\ j \in Busy /\ job[j].at \in OnOrder /\ job[j].ord \in Numbers
      /\ job[j].at # "recent"
  BY DEF MarkPaid, WritePaid, RecordUse, Fulfil, AttachReceipt, ClaimReservation,
         ApplyReservation, At, Busy, Work, Ready, OnOrder
<1>2. Ends(j) \/ \E at \in OnOrder : Goto(j, at)
  BY DEF MarkPaid, WritePaid, RecordUse, Fulfil, AttachReceipt, ClaimReservation,
         ApplyReservation, OnOrder
<1>3. Amends
  BY PaymentAmends
<1>4. used' \in 0 .. MaxUses /\ UNCHANGED <<claimed, tests>>
  BY BoundAssumption
  DEF MarkPaid, WritePaid, RecordUse, Fulfil, AttachReceipt, ClaimReservation,
      ApplyReservation, tables, Data
<1>5. Work' /\ Room' /\ TapInv' /\ locks' \subseteq Users
  BY <1>1, <1>2, <1>3, Goes, GoneSpec DEF Data
<1> QED
  BY <1>3, <1>4, <1>5 DEF Data, Amends

(* The steps of a claim of the free test account.                          *)
LEMMA TestKeeps ==
  ASSUME TypeInv, TapInv, NEW j \in Jobs,
         CheckTests(j) \/ AddTestClient(j) \/ CreateTest(j) \/ FlagTest(j)
  PROVE  TypeInv' /\ TapInv'
<1> USE DEF TypeInv
<1>1. /\ j \in Busy /\ job[j].at \in OnTest /\ job[j].at # "recent"
      /\ job[j].user \in Users
  BY DEF CheckTests, AddTestClient, CreateTest, FlagTest, At, Busy, Work, JobSet, OnTest
<1>2. Ends(j) \/ \E at \in OnTest : Goto(j, at)
  BY DEF CheckTests, AddTestClient, CreateTest, FlagTest, OnTest
<1>3. /\ UNCHANGED <<orders, used>>
      /\ claimed' \subseteq Users /\ tests' \subseteq Users
  BY <1>1 DEF CheckTests, AddTestClient, CreateTest, FlagTest, tables, Data
<1>4. Amends
  BY <1>3, SameOrders
<1>5. Work' /\ Room' /\ TapInv' /\ locks' \subseteq Users
  BY <1>1, <1>2, <1>4, Goes, GoneSpec DEF Data
<1> QED
  BY <1>3, <1>5 DEF Data

-----------------------------------------------------------------------------
LEMMA MonthsNat == Months \subseteq Nat
<1>1. ASSUME NEW d \in Requested PROVE d[3] \in Nat
  BY RequestAssumption
<1> QED
  BY <1>1 DEF Months

(* What a request starts with is a request, and not nothing.               *)
LEMMA TaskSpec ==
  ASSUME Data, NEW kind \in Kinds, NEW u \in Users, NEW code \in BOOLEAN, NEW m \in Nat,
         NEW at \in Creating \cup OnOrder \cup OnTest, NEW o \in Numbers \cup {None}
  PROVE  Task(kind, u, at, code, m, o) \in JobSet /\ Task(kind, u, at, code, m, o) # None
<1> DEFINE d == Task(kind, u, at, code, m, o)
<1>1. d \in JobSet
  BY DEF Task, JobSet
<1>2. Numbers \subseteq Nat /\ at \in Places
  BY DEF Data, Numbers, Places, Creating, OnOrder, OnTest
<1>3. d \in [kind : Kinds, user : Users, at : Places, code : BOOLEAN, months : Nat, seen : Nat,
             ord : Nat \cup {None}]
  BY <1>2 DEF Task
<1> QED
  BY <1>1, <1>3, NoneAssumption

LEMMA AskKeeps ==
  ASSUME TypeInv, TapInv, NEW j \in Jobs, Ask(j)
  PROVE  TypeInv' /\ TapInv'
<1> USE DEF TypeInv
<1>1. ASSUME NEW u \in Users, NEW c \in Codes, NEW m \in Months, Tap(j, u, c, m)
      PROVE  TypeInv' /\ TapInv'
  <2> DEFINE d == Task("tap", u, "recent", c, m, None)
  <2>1. d \in JobSet /\ d # None
    BY TaskSpec, MonthsNat, RequestAssumption DEF Kinds, Creations, Creating
  <2>2. Ready(d) /\ d.kind = "tap" /\ d.at = "recent" /\ d.user = u
    BY DEF Task, Ready, Creations, Creating, OnOrder
  <2>3. Start(j, d) /\ u \notin locks /\ locks' = locks \cup {u}
    BY <1>1 DEF Tap
  <2> HIDE DEF d
  <2> QED
    BY <2>1, <2>2, <2>3, StartKeeps
<1>2. ASSUME NEW u \in Users, NEW c \in Codes, NEW m \in Months, Order(j, u, c, m)
      PROVE  TypeInv' /\ TapInv'
  <2> DEFINE d == Task("order", u, IF c THEN "row" ELSE "create", c, m, None)
  <2>1. d \in JobSet /\ d # None
    BY TaskSpec, MonthsNat, RequestAssumption DEF Kinds, Creations, Creating
  <2>2. Ready(d) /\ d.kind # "tap"
    BY DEF Task, Ready, Creations, Creating, OnOrder
  <2>3. Start(j, d) /\ UNCHANGED locks
    BY <1>2 DEF Order
  <2> HIDE DEF d
  <2> QED
    BY <2>1, <2>2, <2>3, StartKeeps
<1>3. ASSUME NEW c \in Codes, NEW m \in Months, Reservation(j, c, m)
      PROVE  TypeInv' /\ TapInv'
  <2> DEFINE d == Task("reserve", Owner, "open", c, m, None)
  <2>1. d \in JobSet /\ d # None
    BY TaskSpec, MonthsNat, RequestAssumption DEF Kinds, Creations, Creating
  <2>2. Ready(d) /\ d.kind # "tap"
    BY DEF Task, Ready, Creations, Creating, OnOrder
  <2>3. Start(j, d) /\ UNCHANGED locks
    BY <1>3 DEF Reservation
  <2> HIDE DEF d
  <2> QED
    BY <2>1, <2>2, <2>3, StartKeeps
<1>4. ASSUME NEW kind \in Kinds \ Creations, NEW u \in Users, NEW at \in OnOrder,
             NEW o \in Numbers, Start(j, Task(kind, u, at, FALSE, 0, o)), UNCHANGED locks
      PROVE  TypeInv' /\ TapInv'
  <2> DEFINE d == Task(kind, u, at, FALSE, 0, o)
  <2>1. d \in JobSet /\ d # None
    BY TaskSpec
  <2>2. Ready(d) /\ d.kind # "tap"
    BY DEF Task, Ready, Creations, Creating, OnOrder
  <2> HIDE DEF d
  <2> QED
    BY <1>4, <2>1, <2>2, StartKeeps DEF d
<1>5. ASSUME NEW o \in Numbers,
             Pay(j, o) \/ Approve(j, o) \/ SendReceipt(j, o) \/ PickReservation(j, o)
      PROVE  TypeInv' /\ TapInv'
  <2>1. orders[o] \in OrderSet /\ Owner \in Users
    BY RequestAssumption DEF Data, Numbers
  <2>2. orders[o].user \in Users
    BY <2>1 DEF OrderSet
  <2> QED
    BY <1>4, <1>5, <2>1, <2>2
    DEF Pay, Approve, SendReceipt, PickReservation, Kinds, Creations, OnOrder
<1>6. ASSUME NEW u \in Users, Test(j, u) PROVE TypeInv' /\ TapInv'
  <2> DEFINE d == Task("test", u, "check", FALSE, 0, None)
  <2>1. d \in JobSet /\ d # None
    BY TaskSpec DEF Kinds, OnTest
  <2>2. Ready(d) /\ d.kind # "tap"
    BY DEF Task, Ready, Creations, Creating, OnOrder
  <2>3. Start(j, d) /\ UNCHANGED locks
    BY <1>6 DEF Test
  <2> HIDE DEF d
  <2> QED
    BY <2>1, <2>2, <2>3, StartKeeps
<1> QED
  BY <1>1, <1>2, <1>3, <1>5, <1>6 DEF Ask

LEMMA MeanwhileAmends ==
  ASSUME TypeInv, Meanwhile PROVE Amends
<1> USE DEF TypeInv
<1>1. CASE UNCHANGED orders
  BY <1>1, SameOrders
<1>2. CASE \E o \in Numbers : Reject(o) \/ Cancel(o)
  BY <1>2, StatusAmends DEF Reject, Cancel, Statuses
<1>3. CASE CancelStale
  BY <1>3, CancelledAmends DEF CancelStale
<1>4. CASE Age
  <2>1. \A p \in Numbers : orders[p] \in OrderSet
    BY DEF Data, Numbers
  <2>2. orders' = [p \in Numbers |-> orders'[p]]
    BY <1>4 DEF Age
  <2>3. \A p \in Numbers : orders'[p] = [orders[p] EXCEPT !.recent = FALSE]
    BY <1>4 DEF Age
  <2>4. \A p \in Numbers : orders'[p] \in OrderSet
    BY <2>1, <2>3 DEF OrderSet
  <2>5. orders' \in Seq(OrderSet) /\ Len(orders') = Len(orders)
        /\ DOMAIN orders' = DOMAIN orders
    BY <2>2, <2>4, MappedOrders
  <2>6. Closes
    BY <2>1, <2>3, <2>5 DEF Closes, OrderSet, Numbers
  <2> QED
    BY <2>5, <2>6 DEF Amends
<1> QED
  BY <1>1, <1>2, <1>3, <1>4 DEF Meanwhile

(* Between requests orders are closed, and a restart forgets the locks     *)
(* together with the requests that held them.                              *)
LEMMA OutsideKeeps ==
  ASSUME TypeInv, TapInv, Meanwhile \/ Restart
  PROVE  TypeInv' /\ TapInv'
<1> USE DEF TypeInv
<1>1. CASE Restart
  <2>1. /\ UNCHANGED <<orders, used, claimed, tests>>
        /\ job' = [j \in Jobs |-> None] /\ locks' = {}
    BY <1>1 DEF Restart, tables
  <2>2. Busy' = {} /\ Creators' = {} /\ Tapping' = {}
    BY <2>1 DEF Busy, Creators, Tapping
  <2>3. Amends /\ Continues
    BY <2>1, SameOrders DEF Continues
  <2>4. Room' /\ TapInv'
    BY <2>2, <2>3, RoomKept, ContinuesTap DEF Amends
  <2> QED
    BY <2>1, <2>2, <2>4 DEF Data, Work
<1>2. CASE Meanwhile
  <2>1. Amends
    BY <1>2, MeanwhileAmends
  <2>2. UNCHANGED <<used, claimed, locks, job>> /\ tests' \subseteq Users
    BY <1>2 DEF Meanwhile, DeleteTest, Data
  <2>3. Work' /\ Creators' = Creators /\ Tapping' = Tapping
    BY <2>1, <2>2
    DEF Amends, Closes, Work, Busy, Creators, Tapping, JobSet, Ready, Numbers
  <2>4. Continues
    BY <2>2 DEF Continues, Work
  <2>5. \A i \in Tapping' : job'[i].user \in locks'
    BY <2>2, <2>3 DEF TapInv, Locked
  <2> QED
    BY <2>1, <2>2, <2>3, <2>4, <2>5, RoomKept, ContinuesTap DEF Amends, Data
<1> QED
  BY <1>1, <1>2

LEMMA Initial == Init => TypeInv /\ TapInv
<1> SUFFICES ASSUME Init PROVE TypeInv /\ TapInv
  OBVIOUS
<1>1. Busy = {} /\ Creators = {} /\ Tapping = {} /\ Numbers = {}
  BY DEF Init, Busy, Creators, Tapping, Numbers
<1>2. Data /\ Work
  BY <1>1, BoundAssumption DEF Init, Data, Work
<1>3. Room
  BY <1>1, FS_EmptySet, BoundAssumption DEF Init, Room
<1>4. TapInv
  BY <1>1 DEF TapInv, Locked, Single, BotTwins, Twins
<1> QED
  BY <1>2, <1>3, <1>4 DEF TypeInv

LEMMA Inductive == TypeInv /\ TapInv /\ [Next]_vars => TypeInv' /\ TapInv'
<1> SUFFICES ASSUME TypeInv, TapInv, [Next]_vars PROVE TypeInv' /\ TapInv'
  OBVIOUS
<1>1. ASSUME NEW j \in Jobs, Ask(j) \/ Proceed(j) PROVE TypeInv' /\ TapInv'
  BY <1>1, AskKeeps, CreationKeeps, CreateKeeps, PaymentKeeps, TestKeeps DEF Proceed
<1>2. ASSUME NEW j \in Jobs, Fails(j) PROVE TypeInv' /\ TapInv'
  <2>1. j \in Busy /\ Ends(j) /\ UNCHANGED <<orders, used, claimed, tests>>
    BY <1>2 DEF Fails, Busy, tables
  <2> QED
    BY <2>1, GoneSpec, SameOrders DEF TypeInv, Data
<1>3. CASE Meanwhile \/ Restart
  BY <1>3, OutsideKeeps
<1>4. CASE UNCHANGED vars
  <2>1. UNCHANGED <<orders, used, claimed, tests, locks, job>>
    BY <1>4 DEF vars
  <2> QED
    BY <2>1
    DEF TypeInv, Data, Work, Room, Busy, Creators, JobSet, Ready, Numbers,
        TapInv, Locked, Single, Tapping, BotTwins, Twins
<1> QED
  BY <1>1, <1>2, <1>3, <1>4 DEF Next

(* The variables keep their types: the counter of the code stays within    *)
(* its cap, and a request always has the order it works on.                *)
THEOREM TypeCorrect == Spec => []TypeOK
<1>1. TypeInv => TypeOK
  <2> SUFFICES ASSUME TypeInv PROVE TypeOK
    OBVIOUS
  <2>1. IsFiniteSet(Creators) /\ Cardinality(Creators) \in Nat
    BY FS_Subset, FS_CardinalityType, BoundAssumption DEF Creators, Busy
  <2>2. Len(orders) <= MaxOrders
    BY <2>1, BoundAssumption DEF TypeInv, Data, Room
  <2>3. JobSet \subseteq
          [kind : Kinds, user : Users, code : BOOLEAN, months : Nat, seen : Nat,
           ord : Numbers \cup {None}, at : Places]
    BY DEF JobSet, Places, Creating, OnOrder, OnTest
  <2> QED
    BY <2>2, <2>3 DEF TypeInv, Data, Work, TypeOK
<1> QED
  BY Initial, Inductive, <1>1, PTL DEF Spec

(* However often the button is pressed and whatever fails, in the bot a    *)
(* user has one recent pending order of a draft that its order agrees with.*)
THEOREM DoubleTapPrevented == Spec => []OneTap
<1>1. TypeInv /\ TapInv => OneTap
  <2> SUFFICES ASSUME TapInv, NEW u \in Users, NEW c \in Codes, NEW m \in Months, Faithful(m)
               PROVE  Cardinality(BotTwins(u, c, m)) <= 1
    BY DEF OneTap, BotTwins, Faithful
  <2>1. CASE BotTwins(u, c, m) = {}
    BY <2>1, FS_EmptySet
  <2>2. CASE BotTwins(u, c, m) # {}
    <3>1. PICK o \in BotTwins(u, c, m) : TRUE
      BY <2>2
    <3>2. BotTwins(u, c, m) = {o}
      BY <3>1, MonthsNat DEF TapInv, Single
    <3>3. Cardinality({o}) = 1
      BY FS_Singleton
    <3> QED
      BY <3>2, <3>3
  <2> QED
    BY <2>1, <2>2
<1> QED
  BY Initial, Inductive, <1>1, PTL DEF Spec

-----------------------------------------------------------------------------
(* Counting.                                                               *)
LEMMA Within ==
  ASSUME NEW T, IsFiniteSet(T), NEW S, S \subseteq T
  PROVE  /\ IsFiniteSet(S) /\ Cardinality(S) \in Nat /\ Cardinality(T) \in Nat
         /\ Cardinality(S) <= Cardinality(T)
<1>1. IsFiniteSet(S) /\ Cardinality(S) <= Cardinality(T)
  BY FS_Subset
<1>2. Cardinality(S) \in Nat /\ Cardinality(T) \in Nat
  BY <1>1, FS_CardinalityType
<1> QED
  BY <1>1, <1>2

LEMMA Covered ==
  ASSUME NEW T, IsFiniteSet(T), NEW X, IsFiniteSet(X), NEW S, S \subseteq T \cup X
  PROVE  /\ IsFiniteSet(S) /\ Cardinality(S) \in Nat
         /\ Cardinality(T) \in Nat /\ Cardinality(X) \in Nat
         /\ Cardinality(S) <= Cardinality(T) + Cardinality(X)
<1>1. /\ IsFiniteSet(T \cup X)
      /\ Cardinality(T \cup X) =
           Cardinality(T) + Cardinality(X) - Cardinality(T \cap X)
  BY FS_Union
<1>2. IsFiniteSet(T \cap X)
  BY FS_Intersection
<1>3. /\ Cardinality(T) \in Nat /\ Cardinality(X) \in Nat
      /\ Cardinality(T \cap X) \in Nat
  BY <1>2, FS_CardinalityType
<1>4. IsFiniteSet(S) /\ Cardinality(S) \in Nat /\ Cardinality(S) <= Cardinality(T \cup X)
  BY <1>1, Within
<1> QED
  BY <1>1, <1>3, <1>4

LEMMA Disjoint ==
  ASSUME NEW R, IsFiniteSet(R), NEW S, NEW T, S \cup T \subseteq R, S \cap T = {}
  PROVE  /\ Cardinality(S) \in Nat /\ Cardinality(T) \in Nat
         /\ Cardinality(S) + Cardinality(T) <= Cardinality(R)
<1>1. IsFiniteSet(S) /\ IsFiniteSet(T)
  BY Within
<1>2. /\ Cardinality(S) \in Nat /\ Cardinality(T) \in Nat /\ Cardinality(R) \in Nat
      /\ Cardinality(S \cup T) <= Cardinality(R)
  BY Within
<1>3. Cardinality(S \cup T) = Cardinality(S) + Cardinality(T) - Cardinality(S \cap T)
  BY <1>1, FS_Union
<1>4. Cardinality(S \cap T) = 0
  BY FS_EmptySet
<1> QED
  BY <1>2, <1>3, <1>4

LEMMA OneMore ==
  ASSUME NEW T, IsFiniteSet(T), NEW x, x \notin T
  PROVE  /\ IsFiniteSet(T \cup {x}) /\ Cardinality(T) \in Nat
         /\ Cardinality(T \cup {x}) = Cardinality(T) + 1
<1>1. Cardinality(T) \in Nat
  BY FS_CardinalityType
<1> QED
  BY <1>1, FS_AddElement

LEMMA OneLess ==
  ASSUME NEW T, IsFiniteSet(T), NEW x \in T
  PROVE  /\ IsFiniteSet(T \ {x}) /\ Cardinality(T) \in Nat /\ Cardinality(T \ {x}) \in Nat
         /\ Cardinality(T) = Cardinality(T \ {x}) + 1
<1>1. IsFiniteSet(T \ {x}) /\ x \notin T \ {x} /\ (T \ {x}) \cup {x} = T
  BY Within
<1>2. Cardinality((T \ {x}) \cup {x}) = Cardinality(T \ {x}) + 1
  BY <1>1, OneMore
<1>3. Cardinality(T) \in Nat /\ Cardinality(T \ {x}) \in Nat
  BY <1>1, FS_CardinalityType
<1> QED
  BY <1>1, <1>2, <1>3

LEMMA BusyFinite == IsFiniteSet(Busy) /\ IsFiniteSet(Busy')
BY Within, BoundAssumption DEF Busy

-----------------------------------------------------------------------------
(* What a request starts with, by its kind.                                *)
Opening(d) ==
  /\ d \in JobSet /\ d # None /\ Ready(d)
  /\ CASE d.kind = "tap" -> d.at = "recent"
       [] d.kind = "order" -> d.at = IF d.code THEN "row" ELSE "create"
       [] d.kind = "reserve" -> d.at = "open" /\ d.user = Owner
       [] d.kind = "pay" -> /\ d.at = "paid" /\ d.user = orders[d.ord].user
                            /\ orders[d.ord].status = "pending_payment"
       [] d.kind = "approve" -> /\ d.at = "mark" /\ d.user = orders[d.ord].user
                                /\ orders[d.ord].status # "completed"
       [] d.kind = "receipt" -> /\ d.at = "attach" /\ d.user = orders[d.ord].user
                                /\ orders[d.ord].status \in {"pending_payment", "awaiting_review"}
       [] d.kind = "tick" -> /\ d.at = "claim" /\ d.user = Owner
                             /\ orders[d.ord].kind = "reserve"
                             /\ orders[d.ord].status = "reserved"
       [] d.kind = "test" -> d.at = "check" /\ d.user \notin claimed

LEMMA Asked ==
  ASSUME TypeInv, NEW j \in Jobs, Ask(j)
  PROVE  \E d : Opening(d) /\ Start(j, d)
<1> USE DEF TypeInv
<1>1. \A kind \in Kinds, u \in Users, code \in BOOLEAN,
         m \in Nat, at \in Creating \cup OnOrder \cup OnTest, o \in Numbers \cup {None} :
        Task(kind, u, at, code, m, o) \in JobSet /\ Task(kind, u, at, code, m, o) # None
  BY TaskSpec
<1>2. ASSUME NEW u \in Users, NEW c \in Codes, NEW m \in Months,
             Tap(j, u, c, m) \/ Order(j, u, c, m)
      PROVE  \E d : Opening(d) /\ Start(j, d)
  <2> DEFINE d == IF Tap(j, u, c, m) THEN Task("tap", u, "recent", c, m, None)
                  ELSE Task("order", u, IF c THEN "row" ELSE "create", c, m, None)
  <2>1. Start(j, d)
    BY <1>2 DEF Tap, Order
  <2>2. /\ d \in JobSet /\ d # None /\ d.code = c
        /\ \/ d.kind = "tap" /\ d.at = "recent"
           \/ d.kind = "order" /\ d.at = IF c THEN "row" ELSE "create"
    <3>1. c \in BOOLEAN
      BY RequestAssumption
    <3>2. d \in JobSet /\ d # None
      BY <1>1, <3>1, MonthsNat DEF Kinds, Creations, Creating
    <3> QED
      BY <3>2 DEF Task
  <2> HIDE DEF d
  <2>3. Ready(d)
    BY <2>2 DEF Ready, Creations, Creating, OnOrder
  <2> QED
    BY <2>1, <2>2, <2>3 DEF Opening
<1>3. ASSUME NEW c \in Codes, NEW m \in Months, Reservation(j, c, m)
      PROVE  \E d : Opening(d) /\ Start(j, d)
  <2> DEFINE d == Task("reserve", Owner, "open", c, m, None)
  <2>1. Start(j, d)
    BY <1>3 DEF Reservation
  <2>2. /\ d \in JobSet /\ d # None /\ d.code = c
        /\ d.kind = "reserve" /\ d.at = "open" /\ d.user = Owner
    <3>1. c \in BOOLEAN /\ Owner \in Users
      BY RequestAssumption
    <3>2. d \in JobSet /\ d # None
      BY <1>1, <3>1, MonthsNat DEF Kinds, Creations, Creating
    <3> QED
      BY <3>2 DEF Task
  <2> HIDE DEF d
  <2>3. Ready(d)
    BY <2>2 DEF Ready, Creations, Creating, OnOrder
  <2> QED
    BY <2>1, <2>2, <2>3 DEF Opening
<1>4. ASSUME NEW o \in Numbers,
             Pay(j, o) \/ Approve(j, o) \/ SendReceipt(j, o) \/ PickReservation(j, o)
      PROVE  \E d : Opening(d) /\ Start(j, d)
  <2>1. orders[o].user \in Users /\ Owner \in Users
    <3>1. orders[o] \in OrderSet
      BY DEF Data, Numbers
    <3> QED
      BY <3>1, RequestAssumption DEF OrderSet
  <2>2. \A kind \in {"pay", "approve", "receipt", "tick"}, u \in Users, at \in OnOrder :
          Task(kind, u, at, FALSE, 0, o) \in JobSet /\ Task(kind, u, at, FALSE, 0, o) # None
    BY <1>1 DEF Kinds
  <2>3. CASE Pay(j, o)
    <3> DEFINE d == Task("pay", orders[o].user, "paid", FALSE, 0, o)
    <3>1. Start(j, d) /\ orders[o].status = "pending_payment"
      BY <2>3 DEF Pay
    <3>2. d \in JobSet /\ d # None
      BY <2>1, <2>2 DEF OnOrder
    <3>3. d.kind = "pay" /\ d.user = orders[o].user /\ d.at = "paid" /\ d.ord = o
      BY DEF Task
    <3> HIDE DEF d
    <3>4. Ready(d)
      BY <3>2, <3>3 DEF Ready, Creations, Creating, OnOrder
    <3> QED
      BY <3>1, <3>2, <3>3, <3>4 DEF Opening
  <2>4. CASE Approve(j, o)
    <3> DEFINE d == Task("approve", orders[o].user, "mark", FALSE, 0, o)
    <3>1. Start(j, d) /\ orders[o].status # "completed"
      BY <2>4 DEF Approve
    <3>2. d \in JobSet /\ d # None
      BY <2>1, <2>2 DEF OnOrder
    <3>3. d.kind = "approve" /\ d.user = orders[o].user /\ d.at = "mark" /\ d.ord = o
      BY DEF Task
    <3> HIDE DEF d
    <3>4. Ready(d)
      BY <3>2, <3>3 DEF Ready, Creations, Creating, OnOrder
    <3> QED
      BY <3>1, <3>2, <3>3, <3>4 DEF Opening
  <2>5. CASE SendReceipt(j, o)
    <3> DEFINE d == Task("receipt", orders[o].user, "attach", FALSE, 0, o)
    <3>1. Start(j, d) /\ orders[o].status \in {"pending_payment", "awaiting_review"}
      BY <2>5 DEF SendReceipt
    <3>2. d \in JobSet /\ d # None
      BY <2>1, <2>2 DEF OnOrder
    <3>3. d.kind = "receipt" /\ d.user = orders[o].user /\ d.at = "attach" /\ d.ord = o
      BY DEF Task
    <3> HIDE DEF d
    <3>4. Ready(d)
      BY <3>2, <3>3 DEF Ready, Creations, Creating, OnOrder
    <3> QED
      BY <3>1, <3>2, <3>3, <3>4 DEF Opening
  <2>6. CASE PickReservation(j, o)
    <3> DEFINE d == Task("tick", Owner, "claim", FALSE, 0, o)
    <3>1. Start(j, d) /\ orders[o].kind = "reserve" /\ orders[o].status = "reserved"
      BY <2>6 DEF PickReservation
    <3>2. d \in JobSet /\ d # None
      BY <2>1, <2>2 DEF OnOrder
    <3>3. d.kind = "tick" /\ d.user = Owner /\ d.at = "claim" /\ d.ord = o
      BY DEF Task
    <3> HIDE DEF d
    <3>4. Ready(d)
      BY <3>2, <3>3 DEF Ready, Creations, Creating, OnOrder
    <3> QED
      BY <3>1, <3>2, <3>3, <3>4 DEF Opening
  <2> QED
    BY <1>4, <2>3, <2>4, <2>5, <2>6
<1>5. ASSUME NEW u \in Users, Test(j, u) PROVE \E d : Opening(d) /\ Start(j, d)
  <2> DEFINE d == Task("test", u, "check", FALSE, 0, None)
  <2>1. Start(j, d) /\ u \notin claimed
    BY <1>5 DEF Test
  <2>2. /\ d \in JobSet /\ d # None
        /\ d.kind = "test" /\ d.at = "check" /\ d.user = u
    <3>1. d \in JobSet /\ d # None
      BY <1>1 DEF Kinds, OnTest
    <3> QED
      BY <3>1 DEF Task
  <2> HIDE DEF d
  <2>3. Ready(d)
    BY <2>2 DEF Ready, Creations, Creating, OnOrder
  <2> QED
    BY <2>1, <2>2, <2>3 DEF Opening
<1> QED
  BY <1>2, <1>3, <1>4, <1>5 DEF Ask

(* A request that goes on keeps what it is about, and its kind of place.   *)
LEMMA Walks ==
  ASSUME TypeInv, NEW j \in Jobs, Proceed(j)
  PROVE  /\ j \in Busy /\ job[j] \in JobSet /\ Ready(job[j]) /\ Busy' \subseteq Busy
         /\ \A i \in Jobs : i # j => job'[i] = job[i]
         /\ \/ job'[j] = None
            \/ /\ job'[j].user = job[j].user /\ job'[j].kind = job[j].kind
               /\ job'[j].code = job[j].code /\ job'[j].ord = job[j].ord
         /\ job[j].at \notin OnTest => job'[j] = None \/ job'[j].at \notin OnTest
         /\ job[j].at \in OnTest => job'[j] = None \/ job'[j].at \in OnTest
         /\ UNCHANGED <<peak, unnoted, overlapped>>
<1>1. j \in Busy /\ UNCHANGED <<peak, unnoted, overlapped>>
  BY DEF Proceed, Recent, NoReserve, ReadCode, CheckCode, DropPending, CreateOrder, MarkPaid,
         WritePaid, RecordUse, Fulfil, AttachReceipt, ClaimReservation, ApplyReservation,
         CheckTests, AddTestClient, CreateTest, FlagTest, At, Busy, history
<1>2. job[j] \in JobSet /\ Ready(job[j]) /\ DOMAIN job = Jobs
  BY <1>1 DEF TypeInv, Work
<1>3. \/ job' = [job EXCEPT ![j] = None]
      \/ ReadCode(j)
      \/ job[j].at \notin OnTest /\ \E at \in Creating \cup OnOrder : Goto(j, at)
      \/ job[j].at \in OnTest /\ \E at \in OnTest : Goto(j, at)
  <2>1. CASE \/ Recent(j) \/ NoReserve(j) \/ CheckCode(j) \/ DropPending(j) \/ CreateOrder(j)
    BY <2>1 DEF Recent, NoReserve, CheckCode, DropPending, CreateOrder, At, Priced, Ends,
                Creating, OnTest
  <2>2. CASE \/ MarkPaid(j) \/ WritePaid(j) \/ RecordUse(j) \/ Fulfil(j) \/ AttachReceipt(j)
             \/ ClaimReservation(j) \/ ApplyReservation(j)
    BY <2>2 DEF MarkPaid, WritePaid, RecordUse, Fulfil, AttachReceipt, ClaimReservation,
                ApplyReservation, At, Ends, OnOrder, OnTest
  <2>3. CASE CheckTests(j) \/ AddTestClient(j) \/ CreateTest(j) \/ FlagTest(j)
    BY <2>3 DEF CheckTests, AddTestClient, CreateTest, FlagTest, At, Ends, OnTest
  <2> QED
    BY <2>1, <2>2, <2>3 DEF Proceed
<1>4. CASE job' = [job EXCEPT ![j] = None]
  BY <1>1, <1>2, <1>4 DEF Busy
<1>5. ASSUME NEW at, NEW n,
             job' = [job EXCEPT ![j] = [job[j] EXCEPT !.at = at, !.seen = n]]
             \/ job' = [job EXCEPT ![j] = [job[j] EXCEPT !.at = at]]
      PROVE  /\ \A i \in Jobs : i # j => job'[i] = job[i]
             /\ Busy' \subseteq Busy
             /\ job'[j].user = job[j].user /\ job'[j].kind = job[j].kind
             /\ job'[j].code = job[j].code /\ job'[j].ord = job[j].ord /\ job'[j].at = at
  BY <1>1, <1>2, <1>5 DEF Busy, JobSet
<1>6. CASE ReadCode(j)
  <2>1. job' = [job EXCEPT ![j] = [job[j] EXCEPT !.at = "own", !.seen = used]]
    BY <1>6 DEF ReadCode
  <2>2. /\ \A i \in Jobs : i # j => job'[i] = job[i]
        /\ Busy' \subseteq Busy
        /\ job'[j].user = job[j].user /\ job'[j].kind = job[j].kind
        /\ job'[j].code = job[j].code /\ job'[j].ord = job[j].ord /\ job'[j].at = "own"
    BY <1>1, <1>2, <2>1 DEF Busy, JobSet
  <2>3. job[j].at \notin OnTest
    BY <1>6 DEF ReadCode, At, OnTest
  <2> QED
    BY <1>1, <1>2, <2>2, <2>3 DEF OnTest
<1>7. ASSUME NEW at, Goto(j, at)
      PROVE  /\ \A i \in Jobs : i # j => job'[i] = job[i]
             /\ Busy' \subseteq Busy
             /\ job'[j].user = job[j].user /\ job'[j].kind = job[j].kind
             /\ job'[j].code = job[j].code /\ job'[j].ord = job[j].ord /\ job'[j].at = at
  BY <1>5, <1>7 DEF Goto
<1> QED
  BY <1>1, <1>2, <1>3, <1>4, <1>6, <1>7 DEF Creating, OnOrder, OnTest

(* A failed call, or a restart, ends the requests S.                       *)
Loses(S) ==
  /\ S \subseteq Busy /\ LeftUnnoted(S)
  /\ \A i \in Jobs : job'[i] = IF i \in S THEN None ELSE job[i]
  /\ UNCHANGED <<tables, peak, reopened, overlapped, raced, given>>

LEMMA Lost ==
  ASSUME TypeInv, Restart \/ \E j \in Jobs : Fails(j)
  PROVE  \E S : Loses(S)
<1>1. CASE Restart
  <2>1. Loses(Busy)
    BY <1>1 DEF Restart, Loses, Busy
  <2> QED
    BY <2>1
<1>2. ASSUME NEW j \in Jobs, Fails(j) PROVE Loses({j})
  BY <1>2 DEF Fails, Ends, Loses, Busy, TypeInv, Work
<1> QED
  BY <1>1, <1>2

-----------------------------------------------------------------------------
(* The histories count, and peak is what it says.                          *)
CountInv ==
  /\ peak \in Nat /\ reopened \in Nat
  /\ unnoted \in [uses : Nat, clients : Nat, renewals : Nat]
  /\ overlapped \subseteq Jobs
  /\ raced \in [Users -> Nat] /\ given \in [Users -> Nat]
  /\ Cardinality(Busy) <= peak

LEMMA Started ==
  ASSUME TypeInv, CountInv, NEW j \in Jobs, NEW d, d # None, Start(j, d)
  PROVE  /\ job' = [job EXCEPT ![j] = d] /\ Busy' = Busy \cup {j} /\ j \notin Busy
         /\ \A i \in Jobs : job'[i] = IF i = j THEN d ELSE job[i]
         /\ peak' \in Nat /\ peak <= peak' /\ Cardinality(Busy') <= peak'
         /\ UNCHANGED <<orders, used, claimed, tests, reopened, unnoted, raced, given>>
<1>1. /\ job' = [job EXCEPT ![j] = d] /\ DOMAIN job = Jobs /\ job[j] = None
      /\ UNCHANGED <<orders, used, claimed, tests, reopened, unnoted, raced, given>>
      /\ peak' = IF Cardinality(Busy) < peak THEN peak ELSE Cardinality(Busy) + 1
  BY DEF Start, TypeInv, Work, tables
<1>2. Busy' = Busy \cup {j} /\ j \notin Busy
  BY <1>1 DEF Busy
<1>3. Cardinality(Busy') = Cardinality(Busy) + 1 /\ Cardinality(Busy) \in Nat
  BY <1>2, BusyFinite, OneMore
<1>4. peak' \in Nat /\ peak <= peak' /\ Cardinality(Busy') <= peak'
  BY <1>1, <1>3 DEF CountInv
<1> QED
  BY <1>1, <1>2, <1>4

LEMMA Unnotes ==
  ASSUME CountInv, NEW S, Loses(S)
  PROVE  LET left(ats) == Cardinality({j \in S : job[j].at \in ats})
         IN  /\ unnoted' \in [uses : Nat, clients : Nat, renewals : Nat]
             /\ left({"record"}) \in Nat /\ left({"subscription", "flag"}) \in Nat
             /\ left({"apply"}) \in Nat
             /\ unnoted'.uses = unnoted.uses + left({"record"})
             /\ unnoted'.clients = unnoted.clients + left({"subscription", "flag"})
             /\ unnoted'.renewals = unnoted.renewals + left({"apply"})
<1> DEFINE R == {j \in S : job[j].at = "record"}
           C == {j \in S : job[j].at \in {"subscription", "flag"}}
           A == {j \in S : job[j].at = "apply"}
<1>1. /\ R = {j \in S : job[j].at \in {"record"}}
      /\ A = {j \in S : job[j].at \in {"apply"}}
  OBVIOUS
<1>2. IsFiniteSet(S)
  BY BusyFinite, Within DEF Loses
<1>3. unnoted' = [uses |-> unnoted.uses + Cardinality(R),
                  clients |-> unnoted.clients + Cardinality(C),
                  renewals |-> unnoted.renewals + Cardinality(A)]
  BY DEF Loses, LeftUnnoted
<1>4. R \subseteq S /\ C \subseteq S /\ A \subseteq S
  OBVIOUS
<1> HIDE DEF R, C, A
<1>5. Cardinality(R) \in Nat /\ Cardinality(C) \in Nat /\ Cardinality(A) \in Nat
  BY <1>2, <1>4, Within
<1>6. /\ unnoted.uses + Cardinality(R) \in Nat /\ unnoted.clients + Cardinality(C) \in Nat
      /\ unnoted.renewals + Cardinality(A) \in Nat
  BY <1>5 DEF CountInv
<1>7. /\ unnoted' \in [uses : Nat, clients : Nat, renewals : Nat]
      /\ unnoted'.uses = unnoted.uses + Cardinality(R)
      /\ unnoted'.clients = unnoted.clients + Cardinality(C)
      /\ unnoted'.renewals = unnoted.renewals + Cardinality(A)
  BY <1>3, <1>6
<1> QED
  BY <1>1, <1>5, <1>7 DEF C

LEMMA CountInductive ==
  ASSUME TypeInv, CountInv, [Next]_vars PROVE CountInv'
<1>1. ASSUME NEW j \in Jobs, Ask(j) PROVE CountInv'
  <2>1. PICK d : Opening(d) /\ Start(j, d)
    BY <1>1, Asked
  <2>2. overlapped' \subseteq Jobs
    BY <2>1 DEF Start, Busy, CountInv
  <2> QED
    BY <2>1, <2>2, Started DEF Opening, CountInv
<1>2. ASSUME NEW j \in Jobs, Proceed(j) PROVE CountInv'
  <2>1. /\ Cardinality(Busy') <= Cardinality(Busy) /\ Cardinality(Busy') \in Nat
        /\ Cardinality(Busy) \in Nat /\ UNCHANGED <<peak, unnoted, overlapped>>
    BY <1>2, Walks, BusyFinite, Within
  <2>2. reopened' \in Nat
    <3>1. reopened' \in {reopened, reopened + 1}
      BY <1>2 DEF Proceed, Recent, NoReserve, ReadCode, CheckCode, DropPending, CreateOrder,
         MarkPaid, WritePaid, RecordUse, Fulfil, AttachReceipt, ClaimReservation,
         ApplyReservation, CheckTests, AddTestClient, CreateTest, FlagTest, history
    <3> QED
      BY <3>1 DEF CountInv
  <2>3. raced' \in [Users -> Nat]
    <3>1. \/ raced' = raced
          \/ raced' = [raced EXCEPT ![job[j].user] = raced[job[j].user] + 1]
      BY <1>2 DEF Proceed, Recent, NoReserve, ReadCode, CheckCode, DropPending, CreateOrder,
         MarkPaid, WritePaid, RecordUse, Fulfil, AttachReceipt, ClaimReservation,
         ApplyReservation, CheckTests, AddTestClient, CreateTest, FlagTest, history
    <3> QED
      BY <1>2, <3>1, Walks DEF CountInv, JobSet
  <2>4. given' \in [Users -> Nat]
    <3>1. \/ given' = given
          \/ given' = [given EXCEPT ![job[j].user] = given[job[j].user] + 1]
      BY <1>2 DEF Proceed, Recent, NoReserve, ReadCode, CheckCode, DropPending, CreateOrder,
         MarkPaid, WritePaid, RecordUse, Fulfil, AttachReceipt, ClaimReservation,
         ApplyReservation, CheckTests, AddTestClient, CreateTest, FlagTest, history
    <3> QED
      BY <1>2, <3>1, Walks DEF CountInv, JobSet
  <2> QED
    BY <2>1, <2>2, <2>3, <2>4 DEF CountInv
<1>3. CASE Restart \/ \E j \in Jobs : Fails(j)
  <2>1. PICK S : Loses(S)
    BY <1>3, Lost
  <2>2. Busy' \subseteq Busy /\ UNCHANGED <<peak, reopened, overlapped, raced, given>>
    BY <2>1 DEF Loses, Busy
  <2>3. Cardinality(Busy') <= Cardinality(Busy) /\ Cardinality(Busy') \in Nat
        /\ Cardinality(Busy) \in Nat
    BY <2>2, BusyFinite, Within
  <2>4. unnoted' \in [uses : Nat, clients : Nat, renewals : Nat]
    BY <2>1, Unnotes
  <2> QED
    BY <2>2, <2>3, <2>4 DEF CountInv
<1>4. CASE Meanwhile \/ UNCHANGED vars
  BY <1>4 DEF Meanwhile, vars, history, CountInv, Busy
<1> QED
  BY <1>1, <1>2, <1>3, <1>4 DEF Next

LEMMA CountInitial == Init => CountInv
<1> SUFFICES ASSUME Init PROVE CountInv
  OBVIOUS
<1>1. Busy = {}
  BY DEF Init, Busy
<1>2. Cardinality(Busy) = 0
  BY <1>1, FS_EmptySet
<1> QED
  BY <1>2 DEF Init, CountInv

-----------------------------------------------------------------------------
(* Requests of a user that are about to make a test client, and those that *)
(* have made one and have not written it down.                             *)
Making(u) == {j \in Busy : job[j].at \in {"check", "client"} /\ job[j].user = u}
Noting(u) == {j \in Busy : job[j].at \in {"subscription", "flag"} /\ job[j].user = u}

\* Who has not claimed yet has no client that nobody is noting; so that a claim
\* that starts then finds room below the peak.
TestInv == \A u \in Users :
  /\ given[u] + Cardinality(Making(u)) <= peak + unnoted.clients
  /\ u \notin claimed => given[u] <= unnoted.clients + Cardinality(Noting(u))

LEMMA TestSizes ==
  ASSUME CountInv, NEW u \in Users
  PROVE  /\ IsFiniteSet(Making(u)) /\ IsFiniteSet(Noting(u))
         /\ Cardinality(Making(u)) \in Nat /\ Cardinality(Noting(u)) \in Nat
         /\ given[u] \in Nat /\ peak \in Nat /\ unnoted.clients \in Nat
<1>1. Making(u) \subseteq Busy /\ Noting(u) \subseteq Busy
  BY DEF Making, Noting
<1>2. /\ IsFiniteSet(Making(u)) /\ IsFiniteSet(Noting(u))
      /\ Cardinality(Making(u)) \in Nat /\ Cardinality(Noting(u)) \in Nat
  BY <1>1, BusyFinite, Within
<1> QED
  BY <1>2 DEF CountInv

LEMMA SameTests ==
  ASSUME CountInv, TestInv, CountInv', UNCHANGED <<given, peak, unnoted>>,
         claimed \subseteq claimed',
         \A u \in Users : Making(u)' \subseteq Making(u)
                          /\ (u \notin claimed' => Noting(u)' = Noting(u))
  PROVE  TestInv'
<1> SUFFICES ASSUME NEW u \in Users
             PROVE  /\ given'[u] + Cardinality(Making(u)') <= peak' + unnoted'.clients
                    /\ u \notin claimed' =>
                         given'[u] <= unnoted'.clients + Cardinality(Noting(u)')
  BY DEF TestInv
<1>1. /\ given[u] + Cardinality(Making(u)) <= peak + unnoted.clients
      /\ u \notin claimed => given[u] <= unnoted.clients + Cardinality(Noting(u))
  BY DEF TestInv
<1>2. Cardinality(Making(u)') <= Cardinality(Making(u)) /\ Cardinality(Making(u)') \in Nat
  BY TestSizes, Within
<1>3. given'[u] + Cardinality(Making(u)') <= peak' + unnoted'.clients
  BY <1>1, <1>2, TestSizes
<1>4. u \notin claimed' => Cardinality(Noting(u)') = Cardinality(Noting(u))
  OBVIOUS
<1> QED
  BY <1>1, <1>3, <1>4

LEMMA TestInductive ==
  ASSUME TypeInv, CountInv, CountInv', TestInv, [Next]_vars PROVE TestInv'
<1>1. ASSUME NEW j \in Jobs, Ask(j) PROVE TestInv'
  <2>1. PICK d : Opening(d) /\ Start(j, d)
    BY <1>1, Asked
  <2>2. d # None /\ d \in JobSet /\ Ready(d)
    BY <2>1 DEF Opening
  <2>3. /\ Busy' = Busy \cup {j} /\ j \notin Busy
        /\ \A i \in Jobs : job'[i] = IF i = j THEN d ELSE job[i]
        /\ peak' \in Nat /\ peak <= peak' /\ Cardinality(Busy') <= peak'
        /\ UNCHANGED <<claimed, unnoted, given>>
    BY <2>1, <2>2, Started
  <2>4. d.at \notin {"subscription", "flag"}
    BY <2>1 DEF Opening, JobSet, Kinds, Creations
  <2>5. d.at \in {"check", "client"} => d.user \notin claimed
    BY <2>1 DEF Opening, JobSet, Kinds, Creations
  <2> SUFFICES ASSUME NEW u \in Users
               PROVE  /\ given'[u] + Cardinality(Making(u)') <= peak' + unnoted'.clients
                      /\ u \notin claimed' =>
                           given'[u] <= unnoted'.clients + Cardinality(Noting(u)')
    BY DEF TestInv
  <2>6. /\ given[u] + Cardinality(Making(u)) <= peak + unnoted.clients
        /\ u \notin claimed => given[u] <= unnoted.clients + Cardinality(Noting(u))
    BY DEF TestInv
  <2>7. Noting(u)' = Noting(u)
    BY <2>3, <2>4 DEF Noting, Busy
  <2>8. CASE u \in claimed
    <3>1. Making(u)' = Making(u)
      BY <2>3, <2>5, <2>8 DEF Making, Busy
    <3> QED
      BY <2>3, <2>6, <2>7, <2>8, <3>1, TestSizes
  <2>9. CASE u \notin claimed
    <3>1. Making(u)' \cup Noting(u)' \subseteq Busy' /\ Making(u)' \cap Noting(u)' = {}
      BY DEF Making, Noting
    <3>2. Cardinality(Making(u)') + Cardinality(Noting(u)') <= Cardinality(Busy')
          /\ Cardinality(Making(u)') \in Nat /\ Cardinality(Noting(u)') \in Nat
      BY <3>1, BusyFinite, Disjoint
    <3>3. Cardinality(Noting(u)') = Cardinality(Noting(u)) /\ Cardinality(Busy') \in Nat
      BY <2>7, BusyFinite, FS_CardinalityType
    <3> QED
      BY <2>3, <2>6, <2>9, <3>2, <3>3, TestSizes
  <2> QED
    BY <2>8, <2>9
<1>2. ASSUME NEW j \in Jobs, Proceed(j), job[j].at \notin OnTest PROVE TestInv'
  <2>1. /\ \A i \in Jobs : i # j => job'[i] = job[i]
        /\ job'[j] = None \/ job'[j].at \notin OnTest
        /\ Busy' \subseteq Busy /\ UNCHANGED <<peak, unnoted>>
    BY <1>2, Walks
  <2>2. UNCHANGED <<given, claimed>>
    <3>1. ~(CheckTests(j) \/ AddTestClient(j) \/ CreateTest(j) \/ FlagTest(j))
      BY <1>2 DEF CheckTests, AddTestClient, CreateTest, FlagTest, At, OnTest
    <3> QED
      BY <1>2, <3>1 DEF Proceed, Recent, NoReserve, ReadCode, CheckCode, DropPending,
         CreateOrder, MarkPaid, WritePaid, RecordUse, Fulfil, AttachReceipt, ClaimReservation,
         ApplyReservation, history, tables
  <2>3. \A u : Making(u)' = Making(u) /\ Noting(u)' = Noting(u)
    BY <1>2, <2>1 DEF Making, Noting, OnTest, Busy
  <2> QED
    BY <2>1, <2>2, <2>3, SameTests
<1>3. ASSUME NEW j \in Jobs, Proceed(j), job[j].at \in OnTest PROVE TestInv'
  <2>0. PICK x \in Users : x = job[j].user
    BY <1>3, Walks DEF JobSet
  <2>1. /\ j \in Busy /\ x = job[j].user /\ DOMAIN job = Jobs /\ job[j] \in JobSet
        /\ \A i \in Jobs : i # j => job'[i] = job[i]
        /\ UNCHANGED <<peak, unnoted>>
    BY <1>3, <2>0, Walks DEF TypeInv, Work
  <2>2. CheckTests(j) \/ AddTestClient(j) \/ CreateTest(j) \/ FlagTest(j)
    BY <1>3 DEF Proceed, Recent, NoReserve, ReadCode, CheckCode, DropPending, CreateOrder,
       MarkPaid, WritePaid, RecordUse, Fulfil, AttachReceipt, ClaimReservation,
       ApplyReservation, At, OnTest
  <2>3. CASE CheckTests(j) \/ CreateTest(j)
    <3>1. /\ UNCHANGED <<given, claimed>>
          /\ \/ job[j].at = "check" /\ Goto(j, "again")
             \/ job[j].at = "check" /\ Goto(j, "client")
             \/ job[j].at = "subscription" /\ Goto(j, "flag")
      BY <2>3 DEF CheckTests, CreateTest, At, tables, history
    <3>2. /\ job'[j].user = x /\ job'[j] # None
          /\ \/ job[j].at = "check" /\ job'[j].at \in {"again", "client"}
             \/ job[j].at = "subscription" /\ job'[j].at = "flag"
      <4>1. ASSUME NEW at \in OnTest, job'[j] = [job[j] EXCEPT !.at = at]
            PROVE  job'[j].user = x /\ job'[j].at = at /\ job'[j] # None
        <5>1. job'[j] \in JobSet
          BY <2>1, <4>1 DEF JobSet
        <5>2. Numbers \subseteq Nat
          BY DEF TypeInv, Data, Numbers
        <5>3. job'[j] # None
          BY <5>1, <5>2, NoneAssumption DEF JobSet, Places, Creating, OnOrder, OnTest
        <5> QED
          BY <2>1, <4>1, <5>3 DEF JobSet
      <4> QED
        BY <2>1, <3>1, <4>1 DEF Goto, OnTest
    <3>3. \A u : Making(u)' \subseteq Making(u) /\ Noting(u)' = Noting(u)
      BY <2>1, <3>2 DEF Making, Noting, Busy
    <3> QED
      BY <2>1, <3>1, <3>3, SameTests
  <2>4. CASE FlagTest(j)
    <3>1. /\ claimed' = claimed \cup {x} /\ given' = given
          /\ job' = [job EXCEPT ![j] = None]
      BY <2>1, <2>4 DEF FlagTest, Ends, history
    <3>2. \A u : Making(u)' \subseteq Making(u) /\ (u # x => Noting(u)' = Noting(u))
      BY <2>1, <3>1 DEF Making, Noting, Busy
    <3> QED
      BY <2>1, <3>1, <3>2, SameTests
  <2>5. CASE AddTestClient(j)
    <3>1. /\ given' = [given EXCEPT ![x] = given[x] + 1] /\ claimed' = claimed
          /\ job' = [job EXCEPT ![j] = [job[j] EXCEPT !.at = "subscription"]]
          /\ job[j].at = "client"
      BY <2>1, <2>5 DEF AddTestClient, At, Goto, tables
    <3>2. job'[j].user = x /\ job'[j].at = "subscription" /\ job'[j] # None
      <4>1. job'[j] \in JobSet
        BY <2>1, <3>1 DEF JobSet, OnTest
      <4>2. Numbers \subseteq Nat
        BY DEF TypeInv, Data, Numbers
      <4>3. job'[j] # None
        BY <4>1, <4>2, NoneAssumption DEF JobSet, Places, Creating, OnOrder, OnTest
      <4> QED
        BY <2>1, <3>1, <4>3 DEF JobSet
    <3>3. /\ Making(x)' = Making(x) \ {j} /\ j \in Making(x)
          /\ Noting(x)' = Noting(x) \cup {j} /\ j \notin Noting(x)
          /\ \A u : u # x => Making(u)' = Making(u) /\ Noting(u)' = Noting(u)
      BY <2>1, <3>1, <3>2 DEF Making, Noting, Busy
    <3>4. Cardinality(Making(x)) = Cardinality(Making(x)') + 1
          /\ Cardinality(Making(x)') \in Nat
      BY <2>1, <3>3, TestSizes, OneLess
    <3>5. Cardinality(Noting(x)') = Cardinality(Noting(x)) + 1
      BY <2>1, <3>3, TestSizes, OneMore
    <3>6. given'[x] = given[x] + 1 /\ \A u \in Users : u # x => given'[u] = given[u]
      BY <2>1, <3>1 DEF CountInv
    <3> SUFFICES ASSUME NEW u \in Users
                 PROVE  /\ given'[u] + Cardinality(Making(u)') <= peak' + unnoted'.clients
                        /\ u \notin claimed' =>
                             given'[u] <= unnoted'.clients + Cardinality(Noting(u)')
      BY DEF TestInv
    <3>7. /\ given[u] + Cardinality(Making(u)) <= peak + unnoted.clients
          /\ u \notin claimed => given[u] <= unnoted.clients + Cardinality(Noting(u))
      BY DEF TestInv
    <3>8. CASE u = x
      <4>1. \A g, m, n, p, c \in Nat :
              /\ g + (m + 1) <= p + c => (g + 1) + m <= p + c
              /\ g <= c + n => g + 1 <= c + (n + 1)
        OBVIOUS
      <4>2. /\ given[x] \in Nat /\ peak \in Nat /\ unnoted.clients \in Nat
            /\ Cardinality(Noting(x)) \in Nat /\ Cardinality(Making(x)') \in Nat
        BY <2>1, <3>4, TestSizes
      <4>3. /\ given[x] + (Cardinality(Making(x)') + 1) <= peak + unnoted.clients
            /\ x \notin claimed => given[x] <= unnoted.clients + Cardinality(Noting(x))
        BY <3>4, <3>7, <3>8
      <4>4. /\ given'[x] + Cardinality(Making(x)') <= peak' + unnoted'.clients
            /\ x \notin claimed' => given'[x] <= unnoted'.clients + Cardinality(Noting(x)')
        BY <2>1, <3>1, <3>5, <3>6, <4>1, <4>2, <4>3
      <4> QED
        BY <3>8, <4>4
    <3>9. CASE u # x
      BY <2>1, <3>1, <3>3, <3>6, <3>7, <3>9
    <3> QED
      BY <3>8, <3>9
  <2> QED
    BY <2>2, <2>3, <2>4, <2>5
<1>4. CASE Restart \/ \E j \in Jobs : Fails(j)
  <2>1. PICK S : Loses(S)
    BY <1>4, Lost
  <2> DEFINE C == {j \in S : job[j].at \in {"subscription", "flag"}}
  <2>2. /\ unnoted'.clients = unnoted.clients + Cardinality(C) /\ Cardinality(C) \in Nat
    BY <2>1, Unnotes
  <2>3. /\ UNCHANGED <<claimed, peak, given>> /\ S \subseteq Busy
        /\ \A i \in Jobs : job'[i] = IF i \in S THEN None ELSE job[i]
    BY <2>1 DEF Loses, tables
  <2>4. IsFiniteSet(C)
    BY <2>3, BusyFinite, Within
  <2> SUFFICES ASSUME NEW u \in Users
               PROVE  /\ given'[u] + Cardinality(Making(u)') <= peak' + unnoted'.clients
                      /\ u \notin claimed' =>
                           given'[u] <= unnoted'.clients + Cardinality(Noting(u)')
    BY DEF TestInv
  <2>5. /\ given[u] + Cardinality(Making(u)) <= peak + unnoted.clients
        /\ u \notin claimed => given[u] <= unnoted.clients + Cardinality(Noting(u))
    BY DEF TestInv
  <2>6. Making(u)' \subseteq Making(u) /\ Noting(u) \subseteq Noting(u)' \cup C
    BY <2>3 DEF Making, Noting, Busy
  <2> HIDE DEF C
  <2>7. Cardinality(Making(u)') <= Cardinality(Making(u)) /\ Cardinality(Making(u)') \in Nat
    BY <2>6, TestSizes, Within
  <2>8. IsFiniteSet(Noting(u)') /\ Cardinality(Noting(u)') \in Nat
    <3>1. Noting(u)' \subseteq Busy'
      BY DEF Noting
    <3> QED
      BY <3>1, BusyFinite, Within
  <2>9. Cardinality(Noting(u)) <= Cardinality(Noting(u)') + Cardinality(C)
    BY <2>4, <2>6, <2>8, Covered
  <2> QED
    BY <2>2, <2>3, <2>5, <2>7, <2>8, <2>9, TestSizes
<1>5. CASE Meanwhile \/ UNCHANGED vars
  <2>1. UNCHANGED <<given, peak, unnoted, claimed, job>>
    BY <1>5 DEF Meanwhile, vars, history
  <2>2. \A u : Making(u)' = Making(u) /\ Noting(u)' = Noting(u)
    BY <2>1 DEF Making, Noting, Busy
  <2> QED
    BY <2>1, <2>2, SameTests
<1> QED
  BY <1>1, <1>2, <1>3, <1>4, <1>5 DEF Next

LEMMA TestInitial == Init => TestInv
<1> SUFFICES ASSUME Init, NEW u \in Users
             PROVE  /\ given[u] + Cardinality(Making(u)) <= peak + unnoted.clients
                    /\ given[u] <= unnoted.clients + Cardinality(Noting(u))
  BY DEF TestInv
<1>1. Making(u) = {} /\ Noting(u) = {}
  BY DEF Init, Making, Noting, Busy
<1>2. Cardinality(Making(u)) = 0 /\ Cardinality(Noting(u)) = 0
  BY <1>1, FS_EmptySet
<1> QED
  BY <1>2 DEF Init

(* One free test account per user: more only by requests that raced or     *)
(* broke off before the claim was written, for any number of both.         *)
THEOREM TestsAreBounded == Spec => []TestsBounded
<1>1. CountInv /\ TestInv => TestsBounded
  <2> SUFFICES ASSUME CountInv, TestInv, NEW u \in Users
               PROVE  given[u] <= peak + unnoted.clients
    BY DEF TestsBounded
  <2>1. given[u] + Cardinality(Making(u)) <= peak + unnoted.clients
    BY DEF TestInv
  <2> QED
    BY <2>1, TestSizes
<1>2. TypeInv /\ CountInv /\ [Next]_vars => CountInv'
  BY CountInductive
<1>3. TypeInv /\ CountInv /\ CountInv' /\ TestInv /\ [Next]_vars => TestInv'
  BY TestInductive
<1> QED
  BY Initial, Inductive, CountInitial, TestInitial, <1>1, <1>2, <1>3, PTL DEF Spec

-----------------------------------------------------------------------------
(* Orders that live, or that a request in flight may bring back to life.   *)
Gone == {"rejected", "cancelled"}
Over == Gone \cup {"completed"}

\* An approval of an order that is gone reopens it, which is counted.
Holds(d) ==
  /\ d.at \in OnOrder
  /\ ~(/\ d.kind = "approve" /\ d.at \in {"mark", "paid"}
       /\ orders[d.ord].status \in Gone)
Holders == {j \in Busy : Holds(job[j])}
Held == {o \in Numbers : \E j \in Holders : job[j].ord = o}
Living(T) == {o \in Numbers : orders[o].status \notin T \/ o \in Held}

\* No order but those of X comes to life.
Wanes(X) ==
  /\ Numbers' = Numbers
  /\ \A o \in Numbers : /\ orders'[o].kind = orders[o].kind /\ orders'[o].user = orders[o].user
                        /\ orders'[o].code = orders[o].code
  /\ \A T \in {Gone, Over} : Living(T)' \subseteq Living(T) \cup X

LEMMA ClosesFields ==
  ASSUME Amends
  PROVE  /\ Numbers' = Numbers
         /\ \A o \in Numbers :
              /\ orders'[o].kind = orders[o].kind /\ orders'[o].user = orders[o].user
              /\ orders'[o].code = orders[o].code
BY DEF Amends, Closes, Numbers

(* It is enough that what is held was held or is alive, and that orders    *)
(* that are not held keep their status or go.                              *)
LEMMA WanesBy ==
  ASSUME Amends, NEW X, Held' \subseteq Held \cup X \cup {o \in Numbers : orders[o].status \notin Over},
         \A o \in Numbers \ X : \/ orders'[o].status = orders[o].status
                              \/ orders'[o].status \in Gone
                              \/ o \in Held
  PROVE  Wanes(X)
<1>1. ASSUME NEW T \in {Gone, Over} PROVE Living(T)' \subseteq Living(T) \cup X
  <2>1. Gone \subseteq T /\ T \subseteq Over
    BY DEF Over
  <2>2. Numbers' = Numbers
    BY ClosesFields
  <2>3. ASSUME NEW o \in Living(T)' PROVE o \in Living(T) \cup X
    <3>1. o \in Numbers /\ (orders'[o].status \notin T \/ o \in Held')
      BY <2>2 DEF Living
    <3>2. o \in Held' => o \in Held \cup X \/ orders[o].status \notin T
      BY <2>1
    <3>3. orders'[o].status \notin T => o \in X \/ orders[o].status \notin T \/ o \in Held
      BY <2>1, <3>1
    <3> QED
      BY <3>1, <3>2, <3>3 DEF Living
  <2> QED
    BY <2>3
<1> QED
  BY <1>1, ClosesFields DEF Wanes

(* What a request that goes on makes of each order.                        *)
Writing == {"paid", "fulfil", "attach", "claim", "apply"}

LEMMA Written ==
  ASSUME TypeInv, NEW j \in Jobs, Proceed(j), ~CreateOrder(j)
  PROVE  /\ Amends
         /\ \A o \in Numbers :
              \/ orders'[o] = orders[o]
              \/ /\ job[j].at = "drop" /\ orders'[o].status = "cancelled"
                 /\ orders[o].status = "pending_payment"
              \/ o = job[j].ord /\ job[j].at \in Writing
<1> USE DEF TypeInv
<1>1. CASE \/ Recent(j) \/ NoReserve(j) \/ ReadCode(j) \/ CheckCode(j) \/ MarkPaid(j)
           \/ RecordUse(j) \/ CheckTests(j) \/ AddTestClient(j) \/ CreateTest(j) \/ FlagTest(j)
  <2>1. UNCHANGED orders
    BY <1>1 DEF Recent, NoReserve, ReadCode, CheckCode, MarkPaid, RecordUse, CheckTests,
                AddTestClient, CreateTest, FlagTest, tables
  <2> QED
    BY <2>1, SameOrders
<1>2. CASE DropPending(j)
  <2> DEFINE S == {o \in Numbers : /\ orders[o].user = job[j].user /\ orders[o].code
                                   /\ orders[o].status = "pending_payment"}
  <2>1. orders' = Cancelled(S) /\ job[j].at = "drop"
    BY <1>2 DEF DropPending, At
  <2>2. Amends
    BY <2>1, CancelledAmends
  <2>3. ASSUME NEW o \in Numbers
        PROVE  \/ orders'[o] = orders[o]
               \/ orders'[o].status = "cancelled" /\ orders[o].status = "pending_payment"
    <3>1. orders[o] \in OrderSet
      BY DEF Data, Numbers
    <3>2. orders'[o] = IF o \in S THEN [orders[o] EXCEPT !.status = "cancelled"] ELSE orders[o]
      BY <2>1 DEF Cancelled
    <3> QED
      BY <3>1, <3>2 DEF OrderSet
  <2> QED
    BY <2>1, <2>2, <2>3
<1>3. CASE WritePaid(j) \/ Fulfil(j) \/ AttachReceipt(j) \/ ClaimReservation(j)
           \/ ApplyReservation(j)
  <2>1. Amends /\ job[j].at \in Writing
    BY <1>3, PaymentAmends
    DEF WritePaid, Fulfil, AttachReceipt, ClaimReservation, ApplyReservation, At, Writing
  <2>2. \A o \in Numbers : o # job[j].ord => orders'[o] = orders[o]
    <3>1. \/ \E s : SetStatus(job[j].ord, s)
          \/ orders' = [orders EXCEPT ![job[j].ord].status = "awaiting_review",
                                      ![job[j].ord].receipt = TRUE]
      BY <1>3 DEF WritePaid, Fulfil, AttachReceipt, ClaimReservation, ApplyReservation
    <3> QED
      BY <3>1 DEF SetStatus, Numbers, Data
  <2> QED
    BY <2>1, <2>2
<1> QED
  BY <1>1, <1>2, <1>3 DEF Proceed

(* The places of a request that works on an order, one after the other.    *)
LEMMA Follows ==
  ASSUME TypeInv, NEW j \in Jobs, Proceed(j), job[j].at \in OnOrder
  PROVE  /\ job[j].ord \in Numbers
         /\ \/ job'[j] = None /\ job[j].at \in {"fulfil", "attach", "apply"}
            \/ /\ job'[j] # None /\ job'[j].ord = job[j].ord /\ job'[j].kind = job[j].kind
               /\ job'[j].user = job[j].user
               /\ <<job[j].at, job'[j].at>> \in {<<"mark", "fulfil">>, <<"mark", "paid">>,
                    <<"paid", "record">>, <<"record", "fulfil">>, <<"claim", "apply">>}
<1> USE DEF TypeInv
<1>1. /\ j \in Busy /\ job[j] \in JobSet /\ job[j].ord \in Numbers /\ DOMAIN job = Jobs
  BY Walks DEF Ready, Work
<1>2. CASE job[j].at \in {"fulfil", "attach", "apply"}
  <2>1. Fulfil(j) \/ AttachReceipt(j) \/ ApplyReservation(j)
    BY <1>2 DEF Proceed, Recent, NoReserve, ReadCode, CheckCode, DropPending, CreateOrder,
       MarkPaid, WritePaid, RecordUse, ClaimReservation, CheckTests, AddTestClient,
       CreateTest, FlagTest, At
  <2>2. job'[j] = None
    BY <1>1, <2>1 DEF Fulfil, AttachReceipt, ApplyReservation, Ends
  <2> QED
    BY <1>1, <1>2, <2>2
<1>3. CASE job[j].at \in {"mark", "paid", "record", "claim"}
  <2>1. MarkPaid(j) \/ WritePaid(j) \/ RecordUse(j) \/ ClaimReservation(j)
    BY <1>3 DEF Proceed, Recent, NoReserve, ReadCode, CheckCode, DropPending, CreateOrder,
       Fulfil, AttachReceipt, ApplyReservation, CheckTests, AddTestClient,
       CreateTest, FlagTest, At
  <2>2. \E at \in OnOrder : /\ Goto(j, at)
                           /\ <<job[j].at, at>> \in {<<"mark", "fulfil">>, <<"mark", "paid">>,
                    <<"paid", "record">>, <<"record", "fulfil">>, <<"claim", "apply">>}
    BY <2>1 DEF MarkPaid, WritePaid, RecordUse, ClaimReservation, At, OnOrder
  <2>3. PICK at \in OnOrder : /\ Goto(j, at)
                           /\ <<job[j].at, at>> \in {<<"mark", "fulfil">>, <<"mark", "paid">>,
                    <<"paid", "record">>, <<"record", "fulfil">>, <<"claim", "apply">>}
    BY <2>2
  <2>4. job'[j] = [job[j] EXCEPT !.at = at]
    BY <1>1, <2>3 DEF Goto
  <2>5. job'[j] \in JobSet /\ job'[j].at = at /\ job'[j].ord = job[j].ord
        /\ job'[j].kind = job[j].kind /\ job'[j].user = job[j].user
    BY <1>1, <2>4 DEF JobSet
  <2>6. job'[j] # None
    <3>1. Numbers \subseteq Nat
      BY DEF Data, Numbers
    <3> QED
      BY <2>5, <3>1, NoneAssumption DEF JobSet, Places, Creating, OnOrder, OnTest
  <2> QED
    BY <1>1, <2>3, <2>5, <2>6
<1> QED
  BY <1>2, <1>3 DEF OnOrder

\* A request is on an order only if it was.
LEMMA Stays ==
  ASSUME TypeInv, TypeInv', NEW j \in Jobs, Proceed(j), job'[j] # None, job'[j].at \in OnOrder
  PROVE  job[j].at \in OnOrder
<1>1. job[j].at \notin OnTest
  BY Walks DEF OnTest, OnOrder
<1>2. job[j].at \notin Creating
  <2>1. Ready(job[j]) /\ job'[j].kind = job[j].kind
    BY Walks
  <2>2. job'[j].at \in Creating <=> job'[j].kind \in Creations
    BY DEF TypeInv, Work, Ready, Busy
  <2> QED
    BY <2>1, <2>2 DEF Ready, Creating, OnOrder
<1>3. job[j] \in JobSet
  BY Walks
<1> QED
  BY <1>1, <1>2, <1>3 DEF JobSet

(* A step of a request brings back nothing, except an approval that        *)
(* reopens an order.                                                       *)
LEMMA WanesProceed ==
  ASSUME TypeInv, TypeInv', CountInv, NEW j \in Jobs, Proceed(j), ~CreateOrder(j)
  PROVE  \/ Wanes({}) /\ reopened' = reopened
         \/ Wanes({job[j].ord}) /\ job[j].ord \in Numbers /\ reopened' = reopened + 1
<1> DEFINE Reopens == /\ job[j].at = "paid" /\ job[j].kind = "approve"
                      /\ orders[job[j].ord].status \in Gone
<1>1. PICK X : X = IF Reopens THEN {job[j].ord} ELSE {}
  OBVIOUS
<1>2. /\ j \in Busy /\ \A i \in Jobs : i # j => job'[i] = job[i]
      /\ Busy' \subseteq Busy
  BY Walks
<1>3. /\ Amends
      /\ \A o \in Numbers :
           \/ orders'[o] = orders[o]
           \/ /\ job[j].at = "drop" /\ orders'[o].status = "cancelled"
              /\ orders[o].status = "pending_payment"
           \/ o = job[j].ord /\ job[j].at \in Writing
  BY Written
<1>4. \A i \in Busy : job[i].at \in OnOrder => job[i].ord \in Numbers
  BY DEF TypeInv, Work, Ready
<1>5. job[j].at \in Writing => job[j].ord \in Held \cup X
  <2> SUFFICES ASSUME job[j].at \in Writing, ~Reopens PROVE job[j].ord \in Held
    BY <1>1
  <2>1. job[j].at \in OnOrder /\ job[j].at # "mark"
    BY DEF Writing, OnOrder
  <2>2. Holds(job[j])
    BY <2>1 DEF Holds
  <2> QED
    BY <1>2, <1>4, <2>1, <2>2 DEF Held, Holders
<1>6. Held' \subseteq Held \cup X
  <2> SUFFICES ASSUME NEW i \in Busy', Holds(job[i])', job'[i].ord \in Numbers
               PROVE  job'[i].ord \in Held \cup X
    BY <1>3, ClosesFields DEF Held, Holders
  <2>1. CASE i # j
    <3>1. i \in Busy /\ job'[i] = job[i]
      BY <1>2, <2>1 DEF Busy
    <3>2. CASE Holds(job[i])
      BY <3>1, <3>2, <1>4 DEF Held, Holders, Holds
    <3>3. CASE ~Holds(job[i])
      <4>1. orders[job[i].ord].status \in Gone /\ orders'[job[i].ord].status \notin Gone
        BY <3>1, <3>3 DEF Holds
      <4>2. job[i].ord = job[j].ord /\ job[j].at \in Writing
        BY <1>3, <3>1, <4>1 DEF Gone
      <4> QED
        BY <1>5, <3>1, <4>2
    <3> QED
      BY <3>2, <3>3
  <2>2. CASE i = j
    <3>1. job'[j] # None /\ job'[j].at \in OnOrder
      BY <2>2 DEF Holds, Busy
    <3>2. job[j].at \in OnOrder
      BY <3>1, Stays
    <3>3. /\ job[j].ord \in Numbers /\ job'[j].ord = job[j].ord /\ job'[j].kind = job[j].kind
          /\ <<job[j].at, job'[j].at>> \in {<<"mark", "fulfil">>, <<"mark", "paid">>,
                    <<"paid", "record">>, <<"record", "fulfil">>, <<"claim", "apply">>}
      BY <3>1, <3>2, Follows
    <3>4. CASE Holds(job[j])
      BY <1>2, <2>2, <3>3, <3>4 DEF Held, Holders
    <3>5. CASE ~Holds(job[j])
      <4>1. job[j].kind = "approve" /\ job[j].at \in {"mark", "paid"}
            /\ orders[job[j].ord].status \in Gone
        BY <3>2, <3>5 DEF Holds
      <4>2. CASE job[j].at = "paid"
        BY <1>1, <2>2, <3>3, <4>1, <4>2
      <4>3. CASE job[j].at = "mark"
        <5>1. MarkPaid(j)
          BY <4>3 DEF Proceed, Recent, NoReserve, ReadCode, CheckCode, DropPending, WritePaid,
             RecordUse, Fulfil, AttachReceipt, ClaimReservation, ApplyReservation, CheckTests,
             AddTestClient, CreateTest, FlagTest, At, CreateOrder
        <5>2. Goto(j, "paid") /\ UNCHANGED orders
          BY <4>1, <5>1 DEF MarkPaid, Status, PaidLike, Gone, tables
        <5>3. job'[j].at = "paid"
          BY <1>2, <5>2 DEF Goto, TypeInv, Work, JobSet
        <5>4. ~Holds(job[j])'
          BY <3>3, <4>1, <5>2, <5>3 DEF Holds
        <5> QED
          BY <2>2, <5>4
      <4> QED
        BY <4>1, <4>2, <4>3
    <3> QED
      BY <3>4, <3>5
  <2> QED
    BY <2>1, <2>2
<1>7. \A o \in Numbers \ X : \/ orders'[o].status = orders[o].status
                           \/ orders'[o].status \in Gone
                           \/ o \in Held
  BY <1>3, <1>5 DEF Gone
<1>8. Wanes(X)
  BY <1>3, <1>6, <1>7, WanesBy
<1>9. CASE Reopens
  <2>1. WritePaid(j)
    BY <1>9 DEF Proceed, Recent, NoReserve, ReadCode, CheckCode, DropPending, MarkPaid,
       RecordUse, Fulfil, AttachReceipt, ClaimReservation, ApplyReservation, CheckTests,
       AddTestClient, CreateTest, FlagTest, At, CreateOrder
  <2>2. reopened' = reopened + 1
    BY <1>9, <2>1 DEF WritePaid, Status, Gone
  <2>3. job[j].ord \in Numbers
    BY <1>2, <1>4, <1>9 DEF OnOrder
  <2> QED
    BY <1>1, <1>8, <1>9, <2>2, <2>3
<1>10. CASE ~Reopens
  <2>1. reopened' = reopened
    <3>1. CASE WritePaid(j)
      BY <1>10, <3>1 DEF WritePaid, At, Status, Gone
    <3>2. CASE ~WritePaid(j)
      BY <3>2 DEF Proceed, Recent, NoReserve, ReadCode, CheckCode, DropPending, CreateOrder,
         MarkPaid, RecordUse, Fulfil, AttachReceipt, ClaimReservation,
         ApplyReservation, CheckTests, AddTestClient, CreateTest, FlagTest, history
    <3> QED
      BY <3>1, <3>2
  <2> QED
    BY <1>1, <1>8, <1>10, <2>1
<1> QED
  BY <1>9, <1>10

(* Nor does a request that starts, what is lost, or what happens between.  *)
LEMMA WanesStart ==
  ASSUME TypeInv, CountInv, NEW j \in Jobs, NEW d, Opening(d), Start(j, d)
  PROVE  Wanes({})
<1>1. /\ orders' = orders /\ j \notin Busy
      /\ \A i \in Jobs : job'[i] = IF i = j THEN d ELSE job[i]
  BY Started DEF Opening
<1>2. Amends
  BY <1>1, SameOrders DEF TypeInv
<1>3. d.at \in OnOrder /\ Holds(d) => d.ord \in Numbers /\ orders[d.ord].status \notin Over
  <2> SUFFICES ASSUME d.at \in OnOrder, Holds(d) PROVE orders[d.ord].status \notin Over
    BY DEF Opening, Ready
  <2>1. d.kind \in {"pay", "approve", "receipt", "tick"}
    BY DEF Opening, JobSet, Kinds, Creations, OnOrder
  <2>2. CASE d.kind = "approve"
    BY <2>2 DEF Opening, Holds, Over
  <2>3. CASE d.kind \in {"pay", "receipt", "tick"}
    BY <2>3 DEF Opening, Over, Gone
  <2> QED
    BY <2>1, <2>2, <2>3
<1>4. Held' \subseteq Held \cup {o \in Numbers : orders[o].status \notin Over}
  <2> SUFFICES ASSUME NEW i \in Busy', Holds(job[i])', job'[i].ord \in Numbers
               PROVE  job'[i].ord \in Held \cup {o \in Numbers : orders[o].status \notin Over}
    BY <1>2, ClosesFields DEF Held, Holders
  <2>1. CASE i # j
    <3>1. i \in Busy /\ job'[i] = job[i] /\ Holds(job[i])
      BY <1>1, <2>1 DEF Busy, Holds
    <3> QED
      BY <3>1 DEF Held, Holders
  <2>2. CASE i = j
    <3>1. job'[i] = d /\ Holds(d)
      BY <1>1, <2>2 DEF Holds
    <3> QED
      BY <1>3, <3>1 DEF Holds
  <2> QED
    BY <2>1, <2>2
<1> QED
  BY <1>1, <1>2, <1>4, WanesBy

LEMMA WanesLost ==
  ASSUME TypeInv, NEW S, Loses(S) PROVE Wanes({})
<1>1. /\ orders' = orders /\ \A i \in Jobs : job'[i] = IF i \in S THEN None ELSE job[i]
  BY DEF Loses, tables
<1>2. Amends
  BY <1>1, SameOrders DEF TypeInv
<1>3. Held' \subseteq Held
  BY <1>1 DEF Held, Holders, Holds, Busy, Numbers
<1> QED
  BY <1>1, <1>2, <1>3, WanesBy

LEMMA WanesMeanwhile ==
  ASSUME TypeInv, Meanwhile
  PROVE  Wanes({}) /\ UNCHANGED <<job, history>>
         /\ \A o \in Numbers : orders'[o].status = orders[o].status \/ orders'[o].status \in Gone
<1>1. Amends /\ UNCHANGED <<job, history>>
  BY MeanwhileAmends DEF Meanwhile
<1>2. ASSUME NEW o \in Numbers
      PROVE  orders'[o].status = orders[o].status \/ orders'[o].status \in Gone
  <2>1. orders[o] \in OrderSet /\ orders \in [Numbers -> OrderSet]
    BY DEF TypeInv, Data, Numbers
  <2>2. ASSUME NEW p \in Numbers, NEW s \in Gone, SetStatus(p, s)
        PROVE  orders'[o].status = orders[o].status \/ orders'[o].status \in Gone
    <3>1. orders'[o] = IF o = p THEN [orders[o] EXCEPT !.status = s] ELSE orders[o]
      BY <2>1, <2>2 DEF SetStatus
    <3> QED
      BY <2>1, <3>1 DEF OrderSet
  <2>3. CASE \E p \in Numbers : Reject(p) \/ Cancel(p)
    BY <2>2, <2>3 DEF Reject, Cancel, Gone
  <2>4. ASSUME NEW S, orders' = Cancelled(S)
        PROVE  orders'[o].status = orders[o].status \/ orders'[o].status \in Gone
    <3>1. orders'[o] = IF o \in S THEN [orders[o] EXCEPT !.status = "cancelled"] ELSE orders[o]
      BY <2>4 DEF Cancelled
    <3> QED
      BY <2>1, <3>1 DEF OrderSet, Gone
  <2>5. CASE CancelStale
    BY <2>4, <2>5 DEF CancelStale
  <2>6. CASE Age
    <3>1. orders'[o] = [orders[o] EXCEPT !.recent = FALSE]
      BY <2>6 DEF Age
    <3> QED
      BY <2>1, <3>1 DEF OrderSet
  <2>7. CASE UNCHANGED orders
    BY <2>7
  <2> QED
    BY <2>3, <2>5, <2>6, <2>7 DEF Meanwhile
<1>3. Held' \subseteq Held
  <2> SUFFICES ASSUME NEW i \in Busy', Holds(job[i])', job'[i].ord \in Numbers
               PROVE  job'[i].ord \in Held
    BY <1>1, ClosesFields DEF Held, Holders
  <2>1. i \in Busy /\ job' = job /\ job[i].ord \in Numbers
    BY <1>1 DEF Busy
  <2>2. orders'[job[i].ord].status \notin Gone => orders[job[i].ord].status \notin Gone
    BY <1>2, <2>1
  <2>3. Holds(job[i])
    BY <2>1, <2>2 DEF Holds
  <2> QED
    BY <2>1, <2>3 DEF Held, Holders
<1>4. Wanes({})
  BY <1>1, <1>2, <1>3, WanesBy
<1> QED
  BY <1>1, <1>2, <1>4

(* The places of a creation, one after the other.                          *)
LEMMA Prepares ==
  ASSUME TypeInv, NEW j \in Jobs, Proceed(j), job[j].at \in Creating
  PROVE  \/ job'[j] = None
         \/ /\ ~CreateOrder(j)
            /\ job'[j] # None /\ job'[j].user = job[j].user
            /\ job'[j].kind = job[j].kind /\ job'[j].code = job[j].code
            /\ <<job[j].at, job'[j].at>> \in {<<"recent", "row">>, <<"recent", "create">>,
                 <<"open", "row">>, <<"open", "create">>, <<"row", "own">>,
                 <<"own", "drop">>, <<"drop", "create">>}
            /\ job[j].at = "open" => OpenReserves = {}
<1> USE DEF TypeInv
<1>1. /\ j \in Busy /\ job[j] \in JobSet /\ Ready(job[j]) /\ DOMAIN job = Jobs
  BY Walks DEF Work
<1>2. ASSUME NEW at, NEW n, at \in Creating, n \in Nat,
             \/ job'[j] = [job[j] EXCEPT !.at = at]
             \/ job'[j] = [job[j] EXCEPT !.at = at, !.seen = n]
      PROVE  /\ job'[j] # None /\ job'[j].user = job[j].user /\ job'[j].at = at
             /\ job'[j].kind = job[j].kind /\ job'[j].code = job[j].code
  <2>1. /\ job'[j] \in JobSet /\ job'[j].user = job[j].user /\ job'[j].at = at
        /\ job'[j].kind = job[j].kind /\ job'[j].code = job[j].code
    <3>1. CASE job'[j] = [job[j] EXCEPT !.at = at]
      BY <1>1, <1>2, <3>1 DEF JobSet
    <3>2. CASE job'[j] = [job[j] EXCEPT !.at = at, !.seen = n]
      <4>1. [job[j] EXCEPT !.at = at] \in JobSet
        BY <1>1, <1>2 DEF JobSet
      <4>2. \A d \in JobSet : [d EXCEPT !.seen = n] \in JobSet
        BY <1>2 DEF JobSet
      <4>3. job'[j] = [[job[j] EXCEPT !.at = at] EXCEPT !.seen = n]
        BY <1>1, <3>2
      <4>4. job'[j] \in JobSet
        BY <4>1, <4>2, <4>3
      <4> QED
        BY <1>1, <3>2, <4>4 DEF JobSet
    <3> QED
      BY <1>2, <3>1, <3>2
  <2>2. Numbers \subseteq Nat
    BY DEF Data, Numbers
  <2>3. job'[j] # None
    BY <2>1, <2>2, NoneAssumption DEF JobSet, Places, Creating, OnOrder, OnTest
  <2> QED
    BY <2>1, <2>3
<1>3. Recent(j) \/ NoReserve(j) \/ ReadCode(j) \/ CheckCode(j) \/ DropPending(j) \/ CreateOrder(j)
  BY DEF Proceed, MarkPaid, WritePaid, RecordUse, Fulfil, AttachReceipt, ClaimReservation,
     ApplyReservation, CheckTests, AddTestClient, CreateTest, FlagTest, At, Creating
<1>4. CASE CreateOrder(j)
  BY <1>1, <1>4 DEF CreateOrder, Ends
<1>5. CASE ReadCode(j)
  <2>1. /\ job'[j] = [job[j] EXCEPT !.at = "own", !.seen = used] /\ job[j].at = "row"
        /\ used \in Nat
    BY <1>1, <1>5, BoundAssumption DEF ReadCode, At, Data
  <2>2. "own" \in Creating
    BY DEF Creating
  <2>3. \A n \in Nat : job'[j] = [job[j] EXCEPT !.at = "own", !.seen = n] =>
          /\ job'[j] # None /\ job'[j].user = job[j].user /\ job'[j].at = "own"
          /\ job'[j].kind = job[j].kind /\ job'[j].code = job[j].code
    BY <1>2, <2>2
  <2> QED
    BY <2>1, <2>3 DEF CreateOrder, At
<1>6. CASE Recent(j) \/ NoReserve(j) \/ CheckCode(j) \/ DropPending(j)
  <2>1. \/ Ends(j)
        \/ \E at \in Creating :
             /\ Goto(j, at)
             /\ <<job[j].at, at>> \in {<<"recent", "row">>, <<"recent", "create">>,
                  <<"open", "row">>, <<"open", "create">>, <<"row", "own">>,
                  <<"own", "drop">>, <<"drop", "create">>}
             /\ job[j].at = "open" => OpenReserves = {}
    BY <1>6 DEF Recent, NoReserve, CheckCode, DropPending, Priced, At, Creating
  <2>2. CASE Ends(j)
    BY <1>1, <2>2 DEF Ends
  <2>3. ASSUME NEW at \in Creating,
               /\ Goto(j, at)
               /\ <<job[j].at, at>> \in {<<"recent", "row">>, <<"recent", "create">>,
                    <<"open", "row">>, <<"open", "create">>, <<"row", "own">>,
                    <<"own", "drop">>, <<"drop", "create">>}
               /\ job[j].at = "open" => OpenReserves = {}
        PROVE  /\ job'[j] # None /\ job'[j].user = job[j].user /\ job'[j].at = at
               /\ job'[j].kind = job[j].kind /\ job'[j].code = job[j].code
    <3>1. job'[j] = [job[j] EXCEPT !.at = at] /\ 0 \in Nat
      BY <1>1, <2>3 DEF Goto
    <3> QED
      BY <1>2, <3>1
  <2> QED
    BY <1>6, <2>1, <2>2, <2>3 DEF CreateOrder, At
<1> QED
  BY <1>3, <1>4, <1>5, <1>6

(* Only the owner reserves, and a request works for the user of its order. *)
Orderly ==
  /\ \A o \in Numbers : orders[o].kind = "reserve" => orders[o].user = Owner
  /\ \A j \in Busy :
       /\ job[j].kind = "reserve" => job[j].user = Owner /\ job[j].at # "recent"
       /\ job[j].at \in OnOrder => job[j].user = orders[job[j].ord].user

\* A new order, and what it leaves alone.
LEMMA Created ==
  ASSUME TypeInv, NEW j \in Jobs, CreateOrder(j)
  PROVE  LET n == Len(orders) + 1 IN
         /\ j \in Busy /\ job[j].at = "create" /\ Numbers' = Numbers \cup {n} /\ n \notin Numbers
         /\ \A o \in Numbers : orders'[o] = orders[o]
         /\ orders'[n].kind = (IF job[j].kind = "reserve" THEN "reserve" ELSE "new")
         /\ orders'[n].user = job[j].user /\ orders'[n].code = job[j].code
         /\ orders'[n].status = "pending_payment"
         /\ \A i \in Jobs : job'[i] = IF i = j THEN None ELSE job[i]
<1> DEFINE n == Len(orders) + 1
           x == [kind |-> IF job[j].kind = "reserve" THEN "reserve" ELSE "new",
                 user |-> job[j].user, code |-> job[j].code, months |-> job[j].months,
                 inBot |-> job[j].kind = "tap",
                 status |-> "pending_payment", receipt |-> FALSE, recent |-> TRUE]
<1>1. j \in Busy /\ job[j].at = "create" /\ orders' = Append(orders, x)
  BY DEF CreateOrder, At, Busy
<1>2. \A i \in Jobs : job'[i] = IF i = j THEN None ELSE job[i]
  BY DEF CreateOrder, Ends, TypeInv, Work
<1>3. /\ x.kind = (IF job[j].kind = "reserve" THEN "reserve" ELSE "new")
      /\ x.user = job[j].user /\ x.code = job[j].code /\ x.status = "pending_payment"
  OBVIOUS
<1> HIDE DEF x
<1>4. /\ Numbers = 1 .. Len(orders) /\ Len(orders) \in Nat /\ Numbers' = 1 .. n
      /\ orders'[n] = x /\ \A o \in Numbers : orders'[o] = orders[o]
  BY <1>1 DEF TypeInv, Data, Numbers
<1>5. Numbers' = Numbers \cup {n} /\ n \notin Numbers
  BY <1>4
<1> QED
  BY <1>1, <1>2, <1>3, <1>4, <1>5

LEMMA OrderlyInductive ==
  ASSUME TypeInv, TypeInv', CountInv, Orderly, [Next]_vars PROVE Orderly'
<1>1. ASSUME NEW j \in Jobs, Ask(j) PROVE Orderly'
  <2>1. PICK d : Opening(d) /\ Start(j, d)
    BY <1>1, Asked
  <2>2. /\ Busy' = Busy \cup {j} /\ j \notin Busy
        /\ \A i \in Jobs : job'[i] = IF i = j THEN d ELSE job[i]
        /\ UNCHANGED orders
    BY <2>1, Started DEF Opening
  <2>3. d.kind = "reserve" => d.user = Owner /\ d.at # "recent"
    BY <2>1 DEF Opening
  <2>4. d.at \in OnOrder => d.user = orders[d.ord].user
    <3> SUFFICES ASSUME d.at \in OnOrder PROVE d.user = orders[d.ord].user
      OBVIOUS
    <3>1. d.kind \in {"pay", "approve", "receipt", "tick"} /\ d.ord \in Numbers
      BY <2>1 DEF Opening, Ready, JobSet, Kinds, Creations, OnOrder
    <3>2. CASE d.kind = "tick"
      BY <2>1, <3>1, <3>2 DEF Opening, Orderly
    <3>3. CASE d.kind # "tick"
      BY <2>1, <3>1, <3>3 DEF Opening
    <3> QED
      BY <3>2, <3>3
  <2> QED
    BY <2>2, <2>3, <2>4 DEF Orderly, Busy, Numbers
<1>2. ASSUME NEW j \in Jobs, Proceed(j), ~CreateOrder(j) PROVE Orderly'
  <2>1. /\ j \in Busy /\ Busy' \subseteq Busy /\ Ready(job[j]) /\ job[j] \in JobSet
        /\ \A i \in Jobs : i # j => job'[i] = job[i]
        /\ job[j].at \notin OnTest => job'[j] = None \/ job'[j].at \notin OnTest
        /\ job[j].at \in OnTest => job'[j] = None \/ job'[j].at \in OnTest
        /\ \/ job'[j] = None
           \/ /\ job'[j].user = job[j].user /\ job'[j].kind = job[j].kind
              /\ job'[j].code = job[j].code /\ job'[j].ord = job[j].ord
    BY <1>2, Walks
  <2>2. /\ Numbers' = Numbers
        /\ \A o \in Numbers : orders'[o].kind = orders[o].kind /\ orders'[o].user = orders[o].user
    BY <1>2, Written, ClosesFields
  <2>3. \A i \in Busy : job[i].at \in OnOrder => job[i].ord \in Numbers
    BY DEF TypeInv, Work, Ready
  <2>4. ASSUME job'[j] # None
        PROVE  /\ job[j].kind = "reserve" => job'[j].user = Owner /\ job'[j].at # "recent"
               /\ job'[j].at \in OnOrder => job[j].at \in OnOrder
    <3>1. CASE job[j].at \in Creating
      BY <1>2, <2>1, <2>4, <3>1, Prepares DEF Orderly, OnOrder
    <3>2. CASE job[j].at \in OnOrder
      BY <1>2, <2>1, <2>4, <3>2, Follows DEF Orderly
    <3>3. CASE job[j].at \in OnTest
      BY <2>1, <2>4, <3>3 DEF Orderly, OnTest, OnOrder
    <3> QED
      BY <2>1, <3>1, <3>2, <3>3 DEF JobSet
  <2> QED
    BY <2>1, <2>2, <2>3, <2>4 DEF Orderly, Busy
<1>3. ASSUME NEW j \in Jobs, CreateOrder(j) PROVE Orderly'
  <2> DEFINE n == Len(orders) + 1
  <2>1. /\ j \in Busy /\ Numbers' = Numbers \cup {n}
        /\ \A o \in Numbers : orders'[o] = orders[o]
        /\ orders'[n].kind = (IF job[j].kind = "reserve" THEN "reserve" ELSE "new")
        /\ orders'[n].user = job[j].user
        /\ \A i \in Jobs : job'[i] = IF i = j THEN None ELSE job[i]
    BY <1>3, Created
  <2> HIDE DEF n
  <2>2. \A i \in Busy : job[i].at \in OnOrder => job[i].ord \in Numbers
    BY DEF TypeInv, Work, Ready
  <2> QED
    BY <2>1, <2>2 DEF Orderly, Busy
<1>4. CASE Restart \/ \E j \in Jobs : Fails(j)
  <2>1. PICK S : Loses(S)
    BY <1>4, Lost
  <2>2. /\ UNCHANGED orders
        /\ \A i \in Jobs : job'[i] = IF i \in S THEN None ELSE job[i]
    BY <2>1 DEF Loses, tables
  <2> QED
    BY <2>2 DEF Orderly, Busy, Numbers
<1>5. CASE Meanwhile
  <2>1. /\ Numbers' = Numbers /\ job' = job
        /\ \A o \in Numbers : orders'[o].kind = orders[o].kind /\ orders'[o].user = orders[o].user
    BY <1>5, MeanwhileAmends, ClosesFields DEF Meanwhile
  <2>2. \A i \in Busy : job[i].at \in OnOrder => job[i].ord \in Numbers
    BY DEF TypeInv, Work, Ready
  <2> QED
    BY <2>1, <2>2 DEF Orderly, Busy
<1>6. CASE UNCHANGED vars
  BY <1>6 DEF vars, Orderly, Busy, Numbers
<1> QED
  BY <1>1, <1>2, <1>3, <1>4, <1>5, <1>6 DEF Next

-----------------------------------------------------------------------------
(* Reservations that are open, taken by a timer, or held; creations of one *)
(* past the check; and those that a timer took and did not come back to.   *)
Reserves == {o \in Living(Over) : orders[o].kind = "reserve"}
Serving == {j \in Busy : /\ job[j].kind = "reserve"
                         /\ job[j].at \in {"row", "own", "drop", "create"}}
Stuck == {o \in Numbers : /\ orders[o].kind = "reserve" /\ orders[o].status = "provisioning"
                          /\ \A j \in Busy : ~(job[j].at = "apply" /\ job[j].ord = o)}

ReserveInv ==
  /\ Cardinality(Stuck) <= unnoted.renewals
  /\ Cardinality(Reserves) + Cardinality(Serving) <= peak + reopened + unnoted.renewals

\* As many orders as requests, at most, when each has a request of its own.
LEMMA ImageSize ==
  ASSUME NEW J, IsFiniteSet(J), NEW g, NEW S, \A s \in S : \E i \in J : g[i] = s
  PROVE  /\ IsFiniteSet(S) /\ Cardinality(S) \in Nat /\ Cardinality(J) \in Nat
         /\ Cardinality(S) <= Cardinality(J)
<1> DEFINE I == {i \in J : g[i] \in S}
           f == [i \in I |-> g[i]]
<1>1. f \in Surjection(I, S)
  BY DEF Surjection
<1>2. IsFiniteSet(I) /\ Cardinality(I) <= Cardinality(J) /\ Cardinality(I) \in Nat
      /\ Cardinality(J) \in Nat
  BY Within
<1> HIDE DEF I, f
<1>3. IsFiniteSet(S) /\ Cardinality(S) <= Cardinality(I)
  BY <1>1, <1>2, FS_Surjection
<1>4. Cardinality(S) \in Nat
  BY <1>3, FS_CardinalityType
<1> QED
  BY <1>2, <1>3, <1>4

LEMMA NumbersFinite == ASSUME TypeInv PROVE IsFiniteSet(Numbers)
<1>1. Numbers = 1 .. Len(orders) /\ Len(orders) \in Nat
  BY DEF TypeInv, Data, Numbers
<1> QED
  BY <1>1, FS_Interval

LEMMA ReserveSizes ==
  ASSUME TypeInv, CountInv
  PROVE  /\ IsFiniteSet(Reserves) /\ Cardinality(Reserves) \in Nat
         /\ IsFiniteSet(Serving) /\ Cardinality(Serving) \in Nat
         /\ IsFiniteSet(Stuck) /\ Cardinality(Stuck) \in Nat
         /\ peak \in Nat /\ reopened \in Nat /\ unnoted.renewals \in Nat
<1>1. Reserves \subseteq Numbers /\ Stuck \subseteq Numbers /\ Serving \subseteq Busy
  BY DEF Reserves, Living, Stuck, Serving
<1>2. /\ IsFiniteSet(Reserves) /\ Cardinality(Reserves) \in Nat
      /\ IsFiniteSet(Serving) /\ Cardinality(Serving) \in Nat
      /\ IsFiniteSet(Stuck) /\ Cardinality(Stuck) \in Nat
  BY <1>1, NumbersFinite, BusyFinite, Within
<1> QED
  BY <1>2 DEF CountInv

\* With no open reservation, all there is is stuck or has a request working on it.
LEMMA NothingOpen ==
  ASSUME TypeInv, CountInv, OpenReserves = {}
  PROVE  /\ IsFiniteSet(Holders) /\ Cardinality(Holders) \in Nat
         /\ Cardinality(Reserves) <= Cardinality(Stuck) + Cardinality(Holders)
<1>1. Holders \subseteq Busy
  BY DEF Holders
<1>2. IsFiniteSet(Holders) /\ Cardinality(Holders) \in Nat
  BY <1>1, BusyFinite, Within
<1> DEFINE H == {o \in Reserves : o \in Held}
           g == [i \in Holders |-> job[i].ord]
<1>3. IsFiniteSet(H) /\ Cardinality(H) <= Cardinality(Holders) /\ Cardinality(H) \in Nat
  <2>1. \A o \in H : \E i \in Holders : g[i] = o
    BY DEF Held
  <2> HIDE DEF H, g
  <2> QED
    BY <1>2, <2>1, ImageSize
<1>4. Reserves \subseteq Stuck \cup H
  <2> SUFFICES ASSUME NEW o \in Reserves, o \notin Held PROVE o \in Stuck
    OBVIOUS
  <2>1. /\ o \in Numbers /\ orders[o].kind = "reserve" /\ orders[o].status \notin Over
        /\ orders[o].status \in Statuses
    <3>1. o \in Numbers /\ orders[o].kind = "reserve" /\ orders[o].status \notin Over
      BY DEF Reserves, Living
    <3>2. orders[o] \in OrderSet
      BY <3>1 DEF TypeInv, Data, Numbers
    <3> QED
      BY <3>1, <3>2 DEF OrderSet
  <2>2. orders[o].status = "provisioning"
    BY <2>1 DEF OpenReserves, Over, Gone, Statuses
  <2>3. \A i \in Busy : ~(job[i].at = "apply" /\ job[i].ord = o)
    BY <2>1 DEF Held, Holders, Holds, OnOrder
  <2> QED
    BY <2>1, <2>2, <2>3 DEF Stuck
<1> HIDE DEF H, g
<1>5. Cardinality(Reserves) <= Cardinality(Stuck) + Cardinality(H)
  BY <1>3, <1>4, ReserveSizes, Covered
<1> QED
  BY <1>2, <1>3, <1>5, ReserveSizes

\* The bound is kept when orders and creations only go, or an order reopens.
LEMMA ReserveStep ==
  ASSUME TypeInv, TypeInv', CountInv, CountInv', ReserveInv, NEW X, IsFiniteSet(X),
         Wanes(X), Serving' \subseteq Serving, Stuck' \subseteq Stuck,
         peak <= peak', reopened' >= reopened + Cardinality(X), unnoted' = unnoted
  PROVE  ReserveInv'
<1>1. Reserves' \subseteq Reserves \cup X
  BY DEF Wanes, Reserves, Living
<1>2. Cardinality(Reserves') <= Cardinality(Reserves) + Cardinality(X)
      /\ Cardinality(X) \in Nat /\ Cardinality(Reserves') \in Nat
  BY <1>1, ReserveSizes, Covered
<1>3. /\ Cardinality(Serving') <= Cardinality(Serving) /\ Cardinality(Serving') \in Nat
      /\ Cardinality(Stuck') <= Cardinality(Stuck) /\ Cardinality(Stuck') \in Nat
  BY ReserveSizes, Within
<1>4. /\ peak' \in Nat /\ reopened' \in Nat
  BY DEF CountInv
<1>5. Cardinality(Stuck') <= unnoted'.renewals
  BY <1>3, ReserveSizes DEF ReserveInv
<1>6. Cardinality(Reserves) + Cardinality(Serving) <= peak + reopened + unnoted.renewals
  BY DEF ReserveInv
<1>7. \A a, b, c, p, q, r, s, x, y, z \in Nat :
        a <= b + c /\ p <= q /\ b + q <= r + s + x /\ r <= y /\ z >= s + c => a + p <= y + z + x
  OBVIOUS
<1>8. Cardinality(Reserves') + Cardinality(Serving') <= peak' + reopened' + unnoted'.renewals
  BY <1>2, <1>3, <1>4, <1>6, <1>7, ReserveSizes
<1> QED
  BY <1>5, <1>8 DEF ReserveInv

LEMMA EmptySize == IsFiniteSet({}) /\ Cardinality({}) = 0
BY FS_EmptySet

LEMMA ReserveInductive ==
  ASSUME TypeInv, TypeInv', CountInv, CountInv', Orderly, ReserveInv, [Next]_vars
  PROVE  ReserveInv'
<1>0. reopened \in Nat /\ peak \in Nat /\ reopened >= reopened + Cardinality({}) /\ peak <= peak
  BY EmptySize DEF CountInv
<1>1. ASSUME NEW j \in Jobs, Ask(j) PROVE ReserveInv'
  <2>1. PICK d : Opening(d) /\ Start(j, d)
    BY <1>1, Asked
  <2>2. /\ Busy' = Busy \cup {j} /\ j \notin Busy
        /\ \A i \in Jobs : job'[i] = IF i = j THEN d ELSE job[i]
        /\ peak <= peak' /\ UNCHANGED <<orders, reopened, unnoted>>
    BY <2>1, Started DEF Opening
  <2>3. d.kind = "reserve" => d.at = "open"
    BY <2>1 DEF Opening
  <2>4. Serving' \subseteq Serving
    BY <2>2, <2>3 DEF Serving, Busy
  <2>5. Stuck' \subseteq Stuck
    BY <2>2 DEF Stuck, Busy, Numbers
  <2>6. Wanes({})
    BY <2>1, WanesStart
  <2> QED
    BY <1>0, <2>2, <2>4, <2>5, <2>6, EmptySize, ReserveStep
<1>2. ASSUME NEW j \in Jobs, Proceed(j), ~CreateOrder(j) PROVE Stuck' \subseteq Stuck
  <2>1. /\ \A i \in Jobs : i # j => job'[i] = job[i]
        /\ j \in Busy /\ Busy' \subseteq Busy
    BY <1>2, Walks
  <2>2. /\ Amends
        /\ \A o \in Numbers :
             \/ orders'[o] = orders[o]
             \/ /\ job[j].at = "drop" /\ orders'[o].status = "cancelled"
                /\ orders[o].status = "pending_payment"
             \/ o = job[j].ord /\ job[j].at \in Writing
    BY <1>2, Written
  <2> SUFFICES ASSUME NEW o \in Stuck' PROVE o \in Stuck
    OBVIOUS
  <2>3. /\ o \in Numbers /\ orders[o].kind = "reserve" /\ orders'[o].status = "provisioning"
        /\ \A i \in Busy' : ~(job'[i].at = "apply" /\ job'[i].ord = o)
    BY <2>2, ClosesFields DEF Stuck
  <2>4. ASSUME job[j].at \in Writing, o = job[j].ord PROVE FALSE
    <3>1. job[j].at \in OnOrder
      BY <2>4 DEF Writing, OnOrder
    <3>2. CASE job[j].at = "claim"
      <4>1. job'[j] # None /\ job'[j].at = "apply" /\ job'[j].ord = o
        BY <1>2, <2>4, <3>1, <3>2, Follows
      <4> QED
        BY <2>3, <4>1 DEF Busy
    <3>3. CASE job[j].at \in {"paid", "fulfil", "attach", "apply"}
      <4>1. WritePaid(j) \/ Fulfil(j) \/ AttachReceipt(j) \/ ApplyReservation(j)
        BY <1>2, <3>3 DEF Proceed, Recent, NoReserve, ReadCode, CheckCode, DropPending,
           MarkPaid, RecordUse, ClaimReservation, CheckTests, AddTestClient, CreateTest,
           FlagTest, CreateOrder, At
      <4>2. orders[o] \in OrderSet /\ orders \in [Numbers -> OrderSet] /\ o \in Numbers
        BY <2>3 DEF TypeInv, Data, Numbers
      <4>3. \/ \E s \in Statuses \ {"provisioning"} :
                 orders' = [orders EXCEPT ![o].status = s]
            \/ orders' = [orders EXCEPT ![o].status = "awaiting_review", ![o].receipt = TRUE]
        BY <2>4, <4>1 DEF WritePaid, Fulfil, AttachReceipt, ApplyReservation, SetStatus, Statuses
      <4>4. orders'[o].status # "provisioning"
        BY <4>2, <4>3 DEF OrderSet
      <4> QED
        BY <2>3, <4>4
    <3> QED
      BY <2>4, <3>2, <3>3 DEF Writing
  <2>5. orders[o].status = "provisioning"
    BY <2>2, <2>3, <2>4
  <2>6. ASSUME NEW i \in Busy, job[i].at = "apply", job[i].ord = o PROVE FALSE
    <3>1. CASE i # j
      BY <2>1, <2>3, <2>6, <3>1 DEF Busy
    <3>2. CASE i = j
      BY <2>4, <2>6, <3>2 DEF Writing
    <3> QED
      BY <3>1, <3>2
  <2> QED
    BY <2>3, <2>5, <2>6 DEF Stuck
<1>3. ASSUME NEW j \in Jobs, Proceed(j), ~CreateOrder(j), job'[j] = None \/ job[j].at # "open"
      PROVE  ReserveInv'
  <2>1. /\ j \in Busy /\ Busy' \subseteq Busy /\ Ready(job[j]) /\ job[j] \in JobSet
        /\ \A i \in Jobs : i # j => job'[i] = job[i]
        /\ job'[j] = None \/ job'[j].kind = job[j].kind
        /\ UNCHANGED <<peak, unnoted>>
    BY <1>3, Walks
  <2>2. Serving' \subseteq Serving
    <3> SUFFICES ASSUME j \in Serving' PROVE j \in Serving
      BY <2>1 DEF Serving, Busy
    <3>1. job'[j] # None /\ job[j].kind = "reserve" /\ job[j].at \in Creating
      BY <2>1 DEF Serving, Busy, Ready, Creations
    <3>2. job[j].at \in {"row", "own", "drop"}
      BY <1>3, <2>1, <3>1, Prepares DEF Orderly
    <3> QED
      BY <2>1, <3>1, <3>2 DEF Serving
  <2>3. Stuck' \subseteq Stuck
    BY <1>2, <1>3
  <2>4. CASE Wanes({}) /\ reopened' = reopened
    BY <1>0, <2>1, <2>2, <2>3, <2>4, EmptySize, ReserveStep
  <2>5. CASE Wanes({job[j].ord}) /\ reopened' = reopened + 1
    <3>1. IsFiniteSet({job[j].ord}) /\ Cardinality({job[j].ord}) = 1
      BY FS_Singleton
    <3>2. reopened' >= reopened + Cardinality({job[j].ord})
      BY <1>0, <2>5, <3>1
    <3> QED
      BY <1>0, <2>1, <2>2, <2>3, <2>5, <3>1, <3>2, ReserveStep
  <2> QED
    BY <1>3, <2>4, <2>5, WanesProceed
<1>4. ASSUME NEW j \in Jobs, Proceed(j), ~CreateOrder(j), job'[j] # None, job[j].at = "open"
      PROVE  ReserveInv'
  <2>1. /\ j \in Busy /\ Busy' \subseteq Busy
        /\ \A i \in Jobs : i # j => job'[i] = job[i]
        /\ UNCHANGED <<peak, unnoted>>
    BY <1>4, Walks
  <2>2. OpenReserves = {} /\ job'[j].at \in {"row", "create"}
    BY <1>4, Prepares DEF Creating
  <2>3. UNCHANGED <<orders, reopened>>
    <3>1. NoReserve(j)
      BY <1>4 DEF Proceed, Recent, ReadCode, CheckCode, DropPending, CreateOrder, MarkPaid,
         WritePaid, RecordUse, Fulfil, AttachReceipt, ClaimReservation, ApplyReservation,
         CheckTests, AddTestClient, CreateTest, FlagTest, At
    <3> QED
      BY <3>1 DEF NoReserve, tables, history
  <2>4. /\ Cardinality(Holders) \in Nat
        /\ Cardinality(Reserves) <= Cardinality(Stuck) + Cardinality(Holders)
    BY <2>2, NothingOpen
  <2>5. Holders = Holders'
    BY <1>4, <2>1, <2>2, <2>3 DEF Holders, Holds, Busy, OnOrder
  <2>6. Reserves' = Reserves
    <3>1. j \notin Holders
      BY <1>4 DEF Holders, Holds, OnOrder
    <3>2. \A i \in Holders : i # j /\ i \in Jobs /\ job'[i] = job[i]
      BY <2>1, <3>1 DEF Holders, Busy
    <3>3. Held' = Held
      BY <2>3, <2>5, <3>2 DEF Held, Numbers
    <3> QED
      BY <2>3, <3>3 DEF Reserves, Living, Numbers
  <2>7. Stuck' \subseteq Stuck
    BY <1>2, <1>4
  <2>8. Cardinality(Stuck') <= Cardinality(Stuck) /\ Cardinality(Stuck') \in Nat
    BY <2>7, ReserveSizes, Within
  <2>9. Holders \cup Serving' \subseteq Busy' /\ Holders \cap Serving' = {}
    BY <2>5 DEF Holders, Holds, Serving, OnOrder
  <2>10. /\ Cardinality(Serving') \in Nat /\ Cardinality(Busy') \in Nat
         /\ Cardinality(Holders) + Cardinality(Serving') <= Cardinality(Busy')
    BY <2>9, BusyFinite, Disjoint, FS_CardinalityType
  <2>11. Cardinality(Busy') <= peak /\ Cardinality(Stuck) <= unnoted.renewals
    BY <2>1 DEF CountInv, ReserveInv
  <2>12. Cardinality(Reserves') = Cardinality(Reserves)
    BY <2>6
  <2>13. Cardinality(Reserves') + Cardinality(Serving') <= peak' + reopened' + unnoted'.renewals
    BY <2>1, <2>3, <2>4, <2>10, <2>11, <2>12, ReserveSizes
  <2>14. Cardinality(Stuck') <= unnoted'.renewals
    BY <2>1, <2>8, <2>11, ReserveSizes
  <2> QED
    BY <2>13, <2>14 DEF ReserveInv
<1>5. ASSUME NEW j \in Jobs, CreateOrder(j) PROVE ReserveInv'
  <2> DEFINE m == Len(orders) + 1
  <2>0. PICK n : n = m
    OBVIOUS
  <2>1. /\ j \in Busy /\ job[j].at = "create" /\ Numbers' = Numbers \cup {n} /\ n \notin Numbers
        /\ \A o \in Numbers : orders'[o] = orders[o]
        /\ orders'[n].kind = (IF job[j].kind = "reserve" THEN "reserve" ELSE "new")
        /\ orders'[n].status = "pending_payment"
        /\ \A i \in Jobs : job'[i] = IF i = j THEN None ELSE job[i]
    BY <1>5, <2>0, Created
  <2> HIDE DEF m
  <2>2. UNCHANGED <<peak, reopened, unnoted>>
    BY <1>5 DEF CreateOrder
  <2>3. \A i \in Busy : job[i].at \in OnOrder => job[i].ord \in Numbers
    BY DEF TypeInv, Work, Ready
  <2>4. \A o \in Numbers : o \in Held' => o \in Held
    BY <2>1, <2>3 DEF Held, Holders, Holds, Busy
  <2>5. Stuck' \subseteq Stuck
    BY <2>1 DEF Stuck, Busy
  <2>6. Cardinality(Stuck') <= unnoted'.renewals
    <3>1. Cardinality(Stuck') <= Cardinality(Stuck) /\ Cardinality(Stuck') \in Nat
      BY <2>5, ReserveSizes, Within
    <3> QED
      BY <2>2, <3>1, ReserveSizes DEF ReserveInv
  <2>7. Cardinality(Reserves) + Cardinality(Serving) <= peak + reopened + unnoted.renewals
    BY DEF ReserveInv
  <2>8. CASE job[j].kind = "reserve"
    <3>1. Serving' = Serving \ {j} /\ j \in Serving
      BY <2>1, <2>8 DEF Serving, Busy
    <3>2. Cardinality(Serving) = Cardinality(Serving') + 1 /\ Cardinality(Serving') \in Nat
      BY <3>1, ReserveSizes, OneLess
    <3>3. Reserves' \subseteq Reserves \cup {n}
      BY <2>1, <2>4 DEF Reserves, Living
    <3>4. IsFiniteSet({n}) /\ Cardinality({n}) = 1
      BY FS_Singleton
    <3>5. Cardinality(Reserves') <= Cardinality(Reserves) + 1 /\ Cardinality(Reserves') \in Nat
      BY <3>3, <3>4, ReserveSizes, Covered
    <3>6. Cardinality(Reserves') + Cardinality(Serving') <= peak' + reopened' + unnoted'.renewals
      BY <2>2, <2>7, <3>2, <3>5, ReserveSizes
    <3> QED
      BY <2>6, <3>6 DEF ReserveInv
  <2>9. CASE job[j].kind # "reserve"
    <3>1. Serving' \subseteq Serving
      BY <2>1 DEF Serving, Busy
    <3>2. Reserves' \subseteq Reserves
      BY <2>1, <2>4, <2>9 DEF Reserves, Living
    <3>3. /\ Cardinality(Serving') <= Cardinality(Serving) /\ Cardinality(Serving') \in Nat
          /\ Cardinality(Reserves') <= Cardinality(Reserves) /\ Cardinality(Reserves') \in Nat
      BY <3>1, <3>2, ReserveSizes, Within
    <3>4. Cardinality(Reserves') + Cardinality(Serving') <= peak' + reopened' + unnoted'.renewals
      BY <2>2, <2>7, <3>3, ReserveSizes
    <3> QED
      BY <2>6, <3>4 DEF ReserveInv
  <2> QED
    BY <2>8, <2>9
<1>6. CASE Restart \/ \E j \in Jobs : Fails(j)
  <2>1. PICK S : Loses(S)
    BY <1>6, Lost
  <2> DEFINE A == {i \in S : job[i].at \in {"apply"}}
             G == {o \in Numbers : \E i \in A : job[i].ord = o}
  <2>2. /\ UNCHANGED <<orders, peak, reopened>> /\ S \subseteq Busy
        /\ \A i \in Jobs : job'[i] = IF i \in S THEN None ELSE job[i]
    BY <2>1 DEF Loses, tables
  <2>3. /\ unnoted'.renewals = unnoted.renewals + Cardinality(A) /\ Cardinality(A) \in Nat
    BY <2>1, Unnotes
  <2>4. IsFiniteSet(A)
    BY <2>2, BusyFinite, Within
  <2>5. IsFiniteSet(G) /\ Cardinality(G) <= Cardinality(A) /\ Cardinality(G) \in Nat
    <3> DEFINE g == [i \in A |-> job[i].ord]
    <3>1. \A o \in G : \E i \in A : g[i] = o
      OBVIOUS
    <3> HIDE DEF A, G, g
    <3> QED
      BY <2>4, <3>1, ImageSize
  <2>6. Stuck' \subseteq Stuck \cup G
    BY <2>2 DEF Stuck, Busy, Numbers
  <2>7. Serving' \subseteq Serving
    BY <2>2 DEF Serving, Busy
  <2>8. Reserves' \subseteq Reserves
    <3>1. Wanes({})
      BY <2>1, WanesLost
    <3> QED
      BY <3>1 DEF Wanes, Reserves, Living
  <2> HIDE DEF A, G
  <2>9. /\ Cardinality(Stuck') <= Cardinality(Stuck) + Cardinality(G)
        /\ Cardinality(Stuck') \in Nat
    BY <2>5, <2>6, ReserveSizes, Covered
  <2>10. /\ Cardinality(Serving') <= Cardinality(Serving) /\ Cardinality(Serving') \in Nat
         /\ Cardinality(Reserves') <= Cardinality(Reserves) /\ Cardinality(Reserves') \in Nat
    BY <2>7, <2>8, ReserveSizes, Within
  <2>11. /\ Cardinality(Stuck) <= unnoted.renewals
         /\ Cardinality(Reserves) + Cardinality(Serving) <= peak + reopened + unnoted.renewals
    BY DEF ReserveInv
  <2>12. Cardinality(Stuck') <= unnoted'.renewals
    BY <2>3, <2>5, <2>9, <2>11, ReserveSizes
  <2>13. Cardinality(Reserves') + Cardinality(Serving') <= peak' + reopened' + unnoted'.renewals
    BY <2>2, <2>3, <2>10, <2>11, ReserveSizes
  <2> QED
    BY <2>12, <2>13 DEF ReserveInv
<1>7. CASE Meanwhile
  <2>1. /\ Wanes({}) /\ UNCHANGED <<job, history>>
        /\ \A o \in Numbers : orders'[o].status = orders[o].status \/ orders'[o].status \in Gone
    BY <1>7, WanesMeanwhile
  <2>2. Stuck' \subseteq Stuck
    BY <2>1 DEF Wanes, Stuck, Busy, Gone
  <2>3. Serving' \subseteq Serving
    BY <2>1 DEF Serving, Busy
  <2>4. UNCHANGED <<peak, reopened, unnoted>>
    BY <2>1 DEF history
  <2> QED
    BY <1>0, <2>1, <2>2, <2>3, <2>4, EmptySize, ReserveStep
<1>8. CASE UNCHANGED vars
  <2>1. UNCHANGED <<orders, job, peak, reopened, unnoted>>
    BY <1>8 DEF vars, history
  <2>2. Stuck' = Stuck /\ Serving' = Serving /\ Reserves' = Reserves
    BY <2>1 DEF Stuck, Serving, Reserves, Living, Held, Holders, Holds, Busy, Numbers
  <2> QED
    BY <2>1, <2>2 DEF ReserveInv
<1> QED
  BY <1>1, <1>3, <1>4, <1>5, <1>6, <1>7, <1>8 DEF Next, Proceed

LEMMA ReserveInitial == Init => Orderly /\ ReserveInv
<1> SUFFICES ASSUME Init PROVE Orderly /\ ReserveInv
  OBVIOUS
<1>1. Numbers = {} /\ Busy = {}
  BY DEF Init, Numbers, Busy
<1>2. Reserves = {} /\ Serving = {} /\ Stuck = {}
  BY <1>1 DEF Reserves, Living, Serving, Stuck
<1>3. Cardinality(Reserves) = 0 /\ Cardinality(Serving) = 0 /\ Cardinality(Stuck) = 0
  BY <1>2, EmptySize
<1>4. ReserveInv
  BY <1>3 DEF Init, ReserveInv
<1> QED
  BY <1>1, <1>4 DEF Orderly

(* One open reservation per subscription, and one more for each further    *)
(* request in flight at once, each reopened order and each timer that died *)
(* on a reservation it had claimed.                                        *)
THEOREM ReservationsAreBounded == Spec => []ReservationsBounded
<1> DEFINE C == {o \in Numbers :
                   /\ orders[o].kind = "reserve"
                   /\ orders[o].status \notin {"provisioning", "completed", "rejected", "cancelled"}}
<1>1. TypeInv /\ CountInv /\ ReserveInv => ReservationsBounded
  <2> SUFFICES ASSUME TypeInv, CountInv, ReserveInv
               PROVE  Cardinality(C) <= peak + reopened + unnoted.renewals
    BY DEF ReservationsBounded
  <2>1. C \subseteq Reserves
    BY DEF Reserves, Living, Over, Gone
  <2> HIDE DEF C
  <2>2. Cardinality(C) <= Cardinality(Reserves) /\ Cardinality(C) \in Nat
    BY <2>1, ReserveSizes, Within
  <2> QED
    BY <2>2, ReserveSizes DEF ReserveInv
<1>2. TypeInv /\ CountInv /\ [Next]_vars => CountInv'
  BY CountInductive
<1>3. TypeInv /\ TypeInv' /\ CountInv /\ Orderly /\ [Next]_vars => Orderly'
  BY OrderlyInductive
<1>4. TypeInv /\ TypeInv' /\ CountInv /\ CountInv' /\ Orderly /\ ReserveInv /\ [Next]_vars
        => ReserveInv'
  BY ReserveInductive
<1> QED
  BY Initial, Inductive, CountInitial, ReserveInitial, <1>1, <1>2, <1>3, <1>4, PTL DEF Spec

-----------------------------------------------------------------------------
(* A user's orders with the code: those that live, those that are paid.    *)
Coded(u) == {o \in Living(Gone) : orders[o].user = u /\ orders[o].code}
Settled(u) == {o \in Numbers : /\ orders[o].user = u /\ orders[o].code
                              /\ orders[o].status \in PaidLike}
Unpaid(u) == {o \in Numbers : /\ orders[o].user = u /\ orders[o].code
                             /\ orders[o].status = "pending_payment"}

\* Orders with the code, paid or about to be fulfilled, whose use was not recorded
\* unless the code is used, and is not being recorded.
Handing(o, ats) == \E j \in Busy : job[j].at \in ats /\ job[j].ord = o
Unrecorded ==
  {o \in Numbers : /\ orders[o].code /\ ~Handing(o, {"record"})
                   /\ \/ orders[o].status \in PaidLike
                      \/ Handing(o, {"fulfil", "claim", "apply"})}

\* A request that never met another of its user is the only one.
Lonely == Busy \ overlapped
Alone == \A j \in Lonely : \A i \in Busy : i # j => job[i].user # job[j].user

\* What such a request has seen of a one-time code is still so.
Checked(j) ==
  /\ job[j].at \in {"drop", "create"} \/ (job[j].at = "own" /\ job[j].seen = 0) =>
       Cardinality(Settled(job[j].user)) <= unnoted.uses
  /\ job[j].at \in {"drop", "create"} => OwnUsed(job[j].user) = {}
  /\ job[j].at = "create" => Unpaid(job[j].user) = {}

RecordInv == used = 0 => Cardinality(Unrecorded) <= unnoted.uses
CheckInv == \A j \in Lonely : job[j].code => Checked(j)
CodeInv == \A u \in Users : Cardinality(Coded(u)) <= 1 + raced[u] + reopened + unnoted.uses
OnceInv == RecordInv /\ Alone /\ (MaxUses = 1 => CheckInv /\ CodeInv)

LEMMA AloneInductive ==
  ASSUME TypeInv, CountInv, Alone, [Next]_vars PROVE Alone'
<1>1. ASSUME NEW j \in Jobs, Ask(j) PROVE Alone'
  <2>1. PICK d : Opening(d) /\ Start(j, d)
    BY <1>1, Asked
  <2>2. /\ Busy' = Busy \cup {j} /\ j \notin Busy
        /\ \A i \in Jobs : job'[i] = IF i = j THEN d ELSE job[i]
    BY <2>1, Started DEF Opening
  <2> DEFINE Same == {i \in Busy : job[i].user = d.user}
  <2>3. overlapped' = IF Same = {} THEN overlapped \ {j} ELSE overlapped \cup Same \cup {j}
    BY <2>1 DEF Start
  <2> SUFFICES ASSUME NEW k \in Lonely', NEW i \in Busy', i # k
               PROVE  job'[i].user # job'[k].user
    BY DEF Alone
  <2>4. CASE i = j
    BY <2>2, <2>3, <2>4 DEF Lonely, Busy
  <2>5. CASE k = j
    BY <2>2, <2>3, <2>5 DEF Lonely, Busy
  <2>6. CASE i # j /\ k # j
    BY <2>2, <2>3, <2>6 DEF Lonely, Busy, Alone
  <2> QED
    BY <2>4, <2>5, <2>6
<1>2. ASSUME NEW j \in Jobs, Proceed(j) PROVE Alone'
  <2>1. /\ Busy' \subseteq Busy /\ UNCHANGED overlapped
        /\ \A i \in Jobs : i # j => job'[i] = job[i]
        /\ job'[j] = None \/ job'[j].user = job[j].user
    BY <1>2, Walks
  <2>2. \A i \in Busy' : i \in Busy /\ job'[i].user = job[i].user
    BY <2>1 DEF Busy
  <2> QED
    BY <2>1, <2>2 DEF Alone, Lonely
<1>3. CASE Restart \/ \E j \in Jobs : Fails(j)
  <2>1. PICK S : Loses(S)
    BY <1>3, Lost
  <2>2. Busy' \subseteq Busy /\ UNCHANGED overlapped /\ \A i \in Busy' : job'[i] = job[i]
    BY <2>1 DEF Loses, Busy
  <2> QED
    BY <2>2 DEF Alone, Lonely
<1>4. CASE Meanwhile \/ UNCHANGED vars
  <2>1. UNCHANGED <<job, overlapped>>
    BY <1>4 DEF Meanwhile, vars, history
  <2> QED
    BY <2>1 DEF Alone, Lonely, Busy
<1> QED
  BY <1>1, <1>2, <1>3, <1>4 DEF Next

LEMMA OnceSizes ==
  ASSUME TypeInv, CountInv
  PROVE  /\ IsFiniteSet(Unrecorded) /\ Cardinality(Unrecorded) \in Nat
         /\ \A u : /\ IsFiniteSet(Coded(u)) /\ Cardinality(Coded(u)) \in Nat
                  /\ IsFiniteSet(Settled(u)) /\ Cardinality(Settled(u)) \in Nat
         /\ unnoted.uses \in Nat /\ reopened \in Nat
         /\ \A u \in Users : raced[u] \in Nat
<1>1. Unrecorded \subseteq Numbers
  BY DEF Unrecorded
<1>2. \A u : Coded(u) \subseteq Numbers /\ Settled(u) \subseteq Numbers
  BY DEF Coded, Living, Settled
<1>3. IsFiniteSet(Unrecorded) /\ Cardinality(Unrecorded) \in Nat
  BY <1>1, NumbersFinite, Within
<1>4. ASSUME NEW u PROVE /\ IsFiniteSet(Coded(u)) /\ Cardinality(Coded(u)) \in Nat
                         /\ IsFiniteSet(Settled(u)) /\ Cardinality(Settled(u)) \in Nat
  BY <1>2, NumbersFinite, Within
<1> QED
  BY <1>3, <1>4 DEF CountInv

(* Nothing becomes unrecorded but what was being recorded when it was lost.*)
LEMMA RecordKept ==
  ASSUME TypeInv, TypeInv', CountInv, CountInv', RecordInv, used' = 0 => used = 0,
         Unrecorded' \subseteq Unrecorded, unnoted'.uses = unnoted.uses
  PROVE  RecordInv'
<1>1. Cardinality(Unrecorded') <= Cardinality(Unrecorded) /\ Cardinality(Unrecorded') \in Nat
  BY OnceSizes, Within
<1> QED
  BY <1>1, OnceSizes DEF RecordInv

LEMMA RecordProceed ==
  ASSUME TypeInv, TypeInv', CountInv, CountInv', RecordInv, NEW j \in Jobs, Proceed(j),
         ~CreateOrder(j)
  PROVE  RecordInv'
<1>1. /\ j \in Busy /\ Busy' \subseteq Busy /\ Ready(job[j]) /\ job[j] \in JobSet
      /\ \A i \in Jobs : i # j => job'[i] = job[i]
      /\ job[j].at \in OnTest => job'[j] = None \/ job'[j].at \in OnTest
      /\ job'[j] = None \/ job'[j].kind = job[j].kind
      /\ UNCHANGED unnoted
  BY Walks
<1>2. /\ Amends
      /\ \A o \in Numbers :
           \/ orders'[o] = orders[o]
           \/ /\ job[j].at = "drop" /\ orders'[o].status = "cancelled"
              /\ orders[o].status = "pending_payment"
           \/ o = job[j].ord /\ job[j].at \in Writing
  BY Written
<1>3. used \in Nat /\ MaxUses \in Nat \ {0}
  BY BoundAssumption DEF TypeInv, Data
<1>4. CASE RecordUse(j) /\ orders[job[j].ord].code
  <2>1. used' # 0
    <3>1. used' = IF used < MaxUses THEN used + 1 ELSE used
      BY <1>4 DEF RecordUse
    <3> QED
      BY <1>3, <3>1
  <2> QED
    BY <2>1 DEF RecordInv
<1>5. CASE ~(RecordUse(j) /\ orders[job[j].ord].code)
  <2>1. used' = 0 => used = 0
    <3>1. used' = used \/ RecordUse(j)
      BY DEF Proceed, Recent, NoReserve, ReadCode, CheckCode, DropPending, CreateOrder,
         MarkPaid, WritePaid, Fulfil, AttachReceipt, ClaimReservation, ApplyReservation,
         CheckTests, AddTestClient, CreateTest, FlagTest, tables
    <3>2. RecordUse(j) => used' = used
      BY <1>5 DEF RecordUse
    <3> QED
      BY <3>1, <3>2
  <2>2. job[j].at = "record" => ~orders[job[j].ord].code
    <3>1. job[j].at = "record" => RecordUse(j)
      BY DEF Proceed, Recent, NoReserve, ReadCode, CheckCode, DropPending, CreateOrder,
         MarkPaid, WritePaid, Fulfil, AttachReceipt, ClaimReservation, ApplyReservation,
         CheckTests, AddTestClient, CreateTest, FlagTest, At
    <3> QED
      BY <1>5, <3>1
  <2>3. ASSUME NEW o \in Unrecorded' PROVE o \in Unrecorded
    <3>1. /\ o \in Numbers /\ orders[o].code
          /\ \A i \in Busy' : ~(job'[i].at = "record" /\ job'[i].ord = o)
          /\ \/ orders'[o].status \in PaidLike
             \/ \E i \in Busy' : job'[i].at \in {"fulfil", "claim", "apply"} /\ job'[i].ord = o
      BY <1>2, ClosesFields DEF Unrecorded, Handing
    <3>2. ~Handing(o, {"record"})
      <4>1. \A i \in Busy : i # j => i \in Busy' /\ job'[i] = job[i]
        BY <1>1 DEF Busy
      <4> QED
        BY <2>2, <3>1, <4>1 DEF Handing
    <3>3. ASSUME job[j].at \in {"fulfil", "claim", "apply"}, job[j].ord = o PROVE o \in Unrecorded
      BY <1>1, <3>1, <3>2, <3>3 DEF Unrecorded, Handing
    <3>4. ASSUME NEW i \in Busy', job'[i].at \in {"fulfil", "claim", "apply"}, job'[i].ord = o
          PROVE  o \in Unrecorded
      <4>1. CASE i # j
        <5>1. i \in Busy /\ job[i] = job'[i]
          BY <1>1, <4>1 DEF Busy
        <5> QED
          BY <3>1, <3>2, <3>4, <5>1 DEF Unrecorded, Handing
      <4>2. CASE i = j
        <5>1. job'[j] # None /\ job'[j].at \in {"fulfil", "claim", "apply"}
          BY <3>4, <4>2 DEF Busy
        <5>2. job[j].at \in OnOrder
          BY <1>1, <5>1, Stays DEF OnOrder
        <5>3. /\ job'[j].ord = job[j].ord
              /\ <<job[j].at, job'[j].at>> \in {<<"mark", "fulfil">>, <<"mark", "paid">>,
                    <<"paid", "record">>, <<"record", "fulfil">>, <<"claim", "apply">>}
          BY <5>1, <5>2, Follows
        <5>4. CASE job[j].at = "mark"
          <6>1. MarkPaid(j)
            BY <5>4 DEF Proceed, Recent, NoReserve, ReadCode, CheckCode, DropPending, WritePaid,
               RecordUse, Fulfil, AttachReceipt, ClaimReservation, ApplyReservation, CheckTests,
               AddTestClient, CreateTest, FlagTest, At, CreateOrder
          <6>2. ~(Status(j) \in PaidLike) => job'[j].at = "paid"
            BY <1>1, <6>1 DEF MarkPaid, Goto, TypeInv, Work, JobSet
          <6>3. orders[o].status \in PaidLike
            BY <3>4, <4>2, <5>1, <5>3, <6>2 DEF Status
          <6> QED
            BY <3>1, <3>2, <6>3 DEF Unrecorded
        <5>5. CASE job[j].at = "claim"
          BY <3>3, <3>4, <4>2, <5>3, <5>5
        <5>6. CASE job[j].at = "record"
          BY <2>2, <3>1, <3>4, <4>2, <5>3, <5>6
        <5> QED
          BY <5>1, <5>3, <5>4, <5>5, <5>6
      <4> QED
        BY <4>1, <4>2
    <3>5. CASE orders'[o].status \in PaidLike
      <4>1. CASE orders'[o] = orders[o]
        BY <3>1, <3>2, <3>5, <4>1 DEF Unrecorded
      <4>2. ASSUME o = job[j].ord, job[j].at \in Writing, orders'[o] # orders[o]
            PROVE  o \in Unrecorded
        <5>1. CASE job[j].at = "paid"
          <6>1. job'[j] # None /\ job'[j].at = "record" /\ job'[j].ord = o
            BY <4>2, <5>1, Follows DEF OnOrder
          <6> QED
            BY <3>1, <6>1 DEF Busy
        <5>2. CASE job[j].at = "attach"
          <6>1. AttachReceipt(j)
            BY <5>2 DEF Proceed, Recent, NoReserve, ReadCode, CheckCode, DropPending, WritePaid,
               RecordUse, Fulfil, MarkPaid, ClaimReservation, ApplyReservation, CheckTests,
               AddTestClient, CreateTest, FlagTest, At, CreateOrder
          <6>2. orders[o] \in OrderSet /\ orders \in [Numbers -> OrderSet]
            BY <3>1 DEF TypeInv, Data, Numbers
          <6>3. orders' = [orders EXCEPT ![o].status = "awaiting_review", ![o].receipt = TRUE]
            BY <4>2, <6>1 DEF AttachReceipt
          <6>4. orders'[o].status = "awaiting_review"
            BY <3>1, <6>2, <6>3 DEF OrderSet
          <6> QED
            BY <3>5, <6>4 DEF PaidLike
        <5> QED
          BY <3>3, <4>2, <5>1, <5>2 DEF Writing
      <4> QED
        BY <1>2, <3>1, <3>5, <4>1, <4>2 DEF PaidLike
    <3> QED
      BY <3>1, <3>4, <3>5
  <2>4. unnoted'.uses = unnoted.uses
    BY <1>1
  <2> QED
    BY <2>1, <2>3, <2>4, RecordKept
<1> QED
  BY <1>4, <1>5

LEMMA RecordInductive ==
  ASSUME TypeInv, TypeInv', CountInv, CountInv', RecordInv, [Next]_vars PROVE RecordInv'
<1>1. ASSUME NEW j \in Jobs, Ask(j) PROVE RecordInv'
  <2>1. PICK d : Opening(d) /\ Start(j, d)
    BY <1>1, Asked
  <2>2. /\ Busy' = Busy \cup {j} /\ j \notin Busy
        /\ \A i \in Jobs : job'[i] = IF i = j THEN d ELSE job[i]
        /\ UNCHANGED <<orders, used, unnoted>>
    BY <2>1, Started DEF Opening
  <2>3. d.at \in {"fulfil", "claim", "apply"} => orders[d.ord].status \in PaidLike
    <3> SUFFICES ASSUME d.at \in {"fulfil", "claim", "apply"}
                 PROVE  orders[d.ord].status \in PaidLike
      OBVIOUS
    <3>1. d.kind \in {"pay", "approve", "receipt", "tick"}
      BY <2>1 DEF Opening, Ready, JobSet, Kinds, Creations, Creating
    <3> QED
      BY <2>1, <3>1 DEF Opening, PaidLike
  <2>4. \A i \in Busy : i # j /\ i \in Busy' /\ job'[i] = job[i]
    BY <2>2 DEF Busy
  <2>5. Unrecorded' \subseteq Unrecorded
    BY <2>2, <2>3, <2>4 DEF Unrecorded, Handing, Numbers
  <2> QED
    BY <2>2, <2>5, RecordKept
<1>2. ASSUME NEW j \in Jobs, CreateOrder(j) PROVE RecordInv'
  <2> DEFINE m == Len(orders) + 1
  <2>0. PICK n : n = m
    OBVIOUS
  <2>1. /\ j \in Busy /\ job[j].at = "create" /\ Numbers' = Numbers \cup {n} /\ n \notin Numbers
        /\ \A o \in Numbers : orders'[o] = orders[o]
        /\ orders'[n].status = "pending_payment"
        /\ \A i \in Jobs : job'[i] = IF i = j THEN None ELSE job[i]
    BY <1>2, <2>0, Created
  <2> HIDE DEF m
  <2>2. UNCHANGED <<used, unnoted>>
    BY <1>2 DEF CreateOrder
  <2>3. \A i \in Busy : job[i].at \in OnOrder => job[i].ord \in Numbers
    BY DEF TypeInv, Work, Ready
  <2>4. \A i \in Busy' : i # j /\ i \in Busy /\ job'[i] = job[i]
    BY <2>1 DEF Busy
  <2>5. \A i \in Busy : i # j => i \in Busy'
    BY <2>1 DEF Busy
  <2>6. ASSUME NEW o \in Unrecorded' PROVE o \in Unrecorded
    <3>1. /\ o \in Numbers' /\ orders'[o].code
          /\ \A i \in Busy' : ~(job'[i].at = "record" /\ job'[i].ord = o)
          /\ \/ orders'[o].status \in PaidLike
             \/ \E i \in Busy' : job'[i].at \in {"fulfil", "claim", "apply"} /\ job'[i].ord = o
      BY DEF Unrecorded, Handing
    <3>2. o \in Numbers
      BY <2>1, <2>3, <2>4, <3>1 DEF PaidLike, OnOrder
    <3>3. ~Handing(o, {"record"})
      BY <2>1, <2>4, <2>5, <3>1 DEF Handing
    <3> QED
      BY <2>1, <2>4, <3>1, <3>2, <3>3 DEF Unrecorded, Handing
  <2> QED
    BY <2>2, <2>6, RecordKept
<1>3. CASE Restart \/ \E j \in Jobs : Fails(j)
  <2>1. PICK S : Loses(S)
    BY <1>3, Lost
  <2> DEFINE A == {i \in S : job[i].at \in {"record"}}
             G == {o \in Numbers : \E i \in A : job[i].ord = o}
  <2>2. /\ UNCHANGED <<orders, used>> /\ S \subseteq Busy
        /\ \A i \in Jobs : job'[i] = IF i \in S THEN None ELSE job[i]
    BY <2>1 DEF Loses, tables
  <2>3. /\ unnoted'.uses = unnoted.uses + Cardinality(A) /\ Cardinality(A) \in Nat
    BY <2>1, Unnotes
  <2>4. IsFiniteSet(A)
    BY <2>2, BusyFinite, Within
  <2>5. IsFiniteSet(G) /\ Cardinality(G) <= Cardinality(A) /\ Cardinality(G) \in Nat
    <3> DEFINE g == [i \in A |-> job[i].ord]
    <3>1. \A o \in G : \E i \in A : g[i] = o
      OBVIOUS
    <3> HIDE DEF A, G, g
    <3> QED
      BY <2>4, <3>1, ImageSize
  <2>6. Unrecorded' \subseteq Unrecorded \cup G
    <3>1. Numbers' = Numbers /\ \A i \in Busy' : i \in Busy /\ job'[i] = job[i]
      BY <2>2 DEF Numbers, Busy
    <3>2. \A i \in Busy : i \notin S => i \in Busy' /\ job'[i] = job[i]
      BY <2>2 DEF Busy
    <3> QED
      BY <2>2, <3>1, <3>2 DEF Unrecorded, Handing
  <2> HIDE DEF A, G
  <2>7. /\ Cardinality(Unrecorded') <= Cardinality(Unrecorded) + Cardinality(G)
        /\ Cardinality(Unrecorded') \in Nat
    BY <2>5, <2>6, OnceSizes, Covered
  <2>8. used' = used
    BY <2>2
  <2>9. used = 0 => Cardinality(Unrecorded') <= unnoted'.uses
    <3> SUFFICES ASSUME used = 0 PROVE Cardinality(Unrecorded') <= unnoted'.uses
      OBVIOUS
    <3>1. Cardinality(Unrecorded) <= unnoted.uses
      BY DEF RecordInv
    <3> QED
      BY <2>3, <2>5, <2>7, <3>1, OnceSizes
  <2> QED
    BY <2>8, <2>9 DEF RecordInv
<1>4. CASE Meanwhile
  <2>1. /\ Wanes({}) /\ UNCHANGED <<job, history>>
        /\ \A o \in Numbers : orders'[o].status = orders[o].status \/ orders'[o].status \in Gone
    BY <1>4, WanesMeanwhile
  <2>2. Busy' = Busy /\ job' = job
    BY <2>1 DEF Busy
  <2>3. Unrecorded' \subseteq Unrecorded
    BY <2>1, <2>2 DEF Wanes, Unrecorded, Handing, Gone, PaidLike
  <2>4. UNCHANGED <<used, unnoted>>
    BY <1>4, <2>1 DEF Meanwhile, history
  <2> QED
    BY <2>3, <2>4, RecordKept
<1>5. CASE UNCHANGED vars
  <2>1. UNCHANGED <<orders, job, used, unnoted>>
    BY <1>5 DEF vars, history
  <2>2. Unrecorded' \subseteq Unrecorded
    BY <2>1 DEF Unrecorded, Handing, Busy, Numbers
  <2> QED
    BY <2>1, <2>2, RecordKept
<1> QED
  BY <1>1, <1>2, <1>3, <1>4, <1>5, RecordProceed DEF Next

\* No order of the user is made, paid or changed other than to be gone.
Rests(u) == \A o \in Numbers' : orders'[o].user = u =>
  /\ o \in Numbers /\ orders[o].user = u /\ orders'[o].code = orders[o].code
  /\ orders'[o].status = orders[o].status \/ orders'[o].status \in Gone

LEMMA RestsClear ==
  ASSUME NEW u, Rests(u)
  PROVE  /\ Settled(u)' \subseteq Settled(u) /\ OwnUsed(u)' \subseteq OwnUsed(u)
         /\ Unpaid(u)' \subseteq Unpaid(u)
BY DEF Rests, Settled, OwnUsed, Unpaid, Gone, PaidLike

LEMMA CheckedKept ==
  ASSUME TypeInv, TypeInv', CountInv, CountInv', NEW j, NEW u, job[j].user = u, Checked(j),
         job'[j] = job[j], Rests(u), unnoted.uses <= unnoted'.uses
  PROVE  Checked(j)'
<1>1. job'[j].user = u
  OBVIOUS
<1>2. Cardinality(Settled(u)') <= Cardinality(Settled(u)) /\ Cardinality(Settled(u)') \in Nat
  BY RestsClear, OnceSizes, Within
<1>3. Cardinality(Settled(u)) <= unnoted.uses => Cardinality(Settled(u)') <= unnoted'.uses
  <2>1. Cardinality(Settled(u)) \in Nat /\ unnoted.uses \in Nat
    BY OnceSizes
  <2>2. unnoted'.uses \in Nat
    BY DEF CountInv
  <2> QED
    BY <1>2, <2>1, <2>2
<1> QED
  BY <1>1, <1>3, RestsClear DEF Checked

(* A request that is the only one of its user is not disturbed by others.  *)
LEMMA Bystander ==
  ASSUME TypeInv, TypeInv', CountInv, CountInv', Orderly, Alone, [Next]_vars,
         NEW j \in Lonely', j \in Busy, ~Proceed(j), NEW u, u = job[j].user
  PROVE  /\ j \in Lonely /\ job'[j] = job[j] /\ Rests(u)
         /\ unnoted.uses <= unnoted'.uses
<1>0. unnoted.uses \in Nat /\ j \in Jobs /\ j \in Busy' /\ j \notin overlapped'
  BY DEF CountInv, Lonely, Busy
<1>1. ASSUME UNCHANGED orders PROVE Rests(u)
  BY <1>1 DEF Rests, Numbers
<1>2. ASSUME NEW i \in Jobs, Ask(i)
      PROVE  /\ j \in Lonely /\ job'[j] = job[j] /\ Rests(u) /\ unnoted.uses <= unnoted'.uses
  <2>1. PICK d : Opening(d) /\ Start(i, d)
    BY <1>2, Asked
  <2>2. /\ i \notin Busy /\ UNCHANGED <<orders, unnoted>>
        /\ \A k \in Jobs : job'[k] = IF k = i THEN d ELSE job[k]
    BY <2>1, Started DEF Opening
  <2>3. j \notin overlapped
    BY <1>0, <2>1, <2>2 DEF Start
  <2> QED
    BY <1>0, <1>1, <2>2, <2>3 DEF Lonely
<1>3. ASSUME NEW i \in Jobs, Proceed(i)
      PROVE  /\ j \in Lonely /\ job'[j] = job[j] /\ Rests(u) /\ unnoted.uses <= unnoted'.uses
  <2>1. /\ i # j /\ i \in Busy /\ job'[j] = job[j] /\ j \in Lonely /\ UNCHANGED unnoted
        /\ job[i] \in JobSet /\ Ready(job[i])
    BY <1>0, <1>3, Walks DEF Lonely
  <2>2. job[i].user # u
    BY <2>1 DEF Alone
  <2>3. CASE CreateOrder(i)
    <3> DEFINE m == Len(orders) + 1
    <3>0. PICK n : n = m
      OBVIOUS
    <3>1. /\ Numbers' = Numbers \cup {n} /\ \A o \in Numbers : orders'[o] = orders[o]
          /\ orders'[n].user = job[i].user
      BY <2>3, <3>0, Created
    <3> HIDE DEF m
    <3> QED
      BY <1>0, <2>1, <2>2, <3>1 DEF Rests
  <2>4. CASE ~CreateOrder(i)
    <3>1. /\ Amends
          /\ \A o \in Numbers :
               \/ orders'[o] = orders[o]
               \/ /\ job[i].at = "drop" /\ orders'[o].status = "cancelled"
                  /\ orders[o].status = "pending_payment"
               \/ o = job[i].ord /\ job[i].at \in Writing
      BY <1>3, <2>4, Written
    <3>2. \A o \in Numbers : o = job[i].ord /\ job[i].at \in Writing => orders[o].user # u
      BY <2>1, <2>2 DEF Orderly, Writing, OnOrder
    <3>3. /\ Numbers' = Numbers
          /\ \A o \in Numbers : /\ orders'[o].user = orders[o].user
                                /\ orders'[o].code = orders[o].code
      BY <3>1, ClosesFields
    <3> QED
      BY <1>0, <2>1, <3>1, <3>2, <3>3 DEF Rests, Gone
  <2> QED
    BY <2>3, <2>4
<1>4. CASE Restart \/ \E i \in Jobs : Fails(i)
  <2>1. PICK S : Loses(S)
    BY <1>4, Lost
  <2>2. /\ UNCHANGED <<orders, overlapped>>
        /\ \A i \in Jobs : job'[i] = IF i \in S THEN None ELSE job[i]
    BY <2>1 DEF Loses, tables
  <2>3. unnoted.uses <= unnoted'.uses
    <3> DEFINE A == {i \in S : job[i].at \in {"record"}}
    <3>1. unnoted'.uses = unnoted.uses + Cardinality(A) /\ Cardinality(A) \in Nat
      BY <2>1, Unnotes
    <3> HIDE DEF A
    <3> QED
      BY <1>0, <3>1
  <2>4. job'[j] = job[j] /\ j \in Lonely
    BY <1>0, <2>2 DEF Busy, Lonely
  <2> QED
    BY <1>1, <2>2, <2>3, <2>4
<1>5. CASE Meanwhile
  <2>1. /\ Wanes({}) /\ UNCHANGED <<job, history>>
        /\ \A o \in Numbers : orders'[o].status = orders[o].status \/ orders'[o].status \in Gone
    BY <1>5, WanesMeanwhile
  <2> QED
    BY <1>0, <2>1 DEF Wanes, Rests, history, Lonely
<1>6. CASE UNCHANGED vars
  BY <1>0, <1>1, <1>6 DEF vars, history, Lonely
<1> QED
  BY <1>2, <1>3, <1>4, <1>5, <1>6 DEF Next

(* Its own steps: what it reads and decides on is so.                      *)
LEMMA CheckProceed ==
  ASSUME TypeInv, TypeInv', CountInv, CountInv', Orderly, Alone, RecordInv, MaxUses = 1,
         NEW j \in Lonely', Proceed(j), job'[j].code, job[j].code => Checked(j)
  PROVE  Checked(j)'
<1>1. /\ j \in Jobs /\ job'[j] # None /\ j \notin overlapped'
  BY DEF Lonely, Busy
<1>2. /\ j \in Busy /\ job[j] \in JobSet /\ Ready(job[j])
      /\ job'[j].user = job[j].user /\ job'[j].kind = job[j].kind
      /\ job'[j].code = job[j].code /\ UNCHANGED <<unnoted, overlapped>>
  BY <1>1, Walks
<1>3. PICK u : u = job[j].user
  OBVIOUS
<1>4. Checked(j) /\ j \in Lonely /\ job'[j].user = u
  BY <1>1, <1>2, <1>3 DEF Lonely
<1>5. CASE job'[j].at \notin {"own", "drop", "create"}
  BY <1>5 DEF Checked
<1>6. CASE job'[j].at \in {"own", "drop", "create"}
  <2>1. job[j].at \in Creating
    <3>1. job'[j].at \in Creating <=> job'[j].kind \in Creations
      BY <1>1 DEF TypeInv, Work, Ready, Busy
    <3> QED
      BY <1>2, <1>6, <3>1 DEF Ready, Creating
  <2>2. /\ ~CreateOrder(j)
        /\ <<job[j].at, job'[j].at>> \in {<<"recent", "row">>, <<"recent", "create">>,
             <<"open", "row">>, <<"open", "create">>, <<"row", "own">>,
             <<"own", "drop">>, <<"drop", "create">>}
    BY <1>1, <2>1, Prepares
  <2>3. job[j].at \notin {"recent", "open"}
    <3> SUFFICES ASSUME job[j].at \in {"recent", "open"} PROVE FALSE
      OBVIOUS
    <3>1. Recent(j) \/ NoReserve(j)
      BY DEF Proceed, ReadCode, CheckCode, DropPending, CreateOrder, MarkPaid, WritePaid,
         RecordUse, Fulfil, AttachReceipt, ClaimReservation, ApplyReservation, CheckTests,
         AddTestClient, CreateTest, FlagTest, At
    <3>2. Goto(j, "row") \/ Ends(j)
      BY <1>2, <3>1 DEF Recent, NoReserve, Priced
    <3>3. job'[j].at = "row"
      BY <1>1, <1>2, <3>2 DEF Goto, Ends, TypeInv, Work, JobSet
    <3> QED
      BY <1>6, <3>3
  <2>4. CASE job[j].at = "row"
    <3>1. ReadCode(j)
      BY <2>4 DEF Proceed, Recent, NoReserve, CheckCode, DropPending, CreateOrder, MarkPaid,
         WritePaid, RecordUse, Fulfil, AttachReceipt, ClaimReservation, ApplyReservation,
         CheckTests, AddTestClient, CreateTest, FlagTest, At
    <3>2. UNCHANGED orders /\ job'[j].at = "own"
      BY <2>2, <2>4, <3>1 DEF ReadCode, tables
    <3>3. job'[j].seen = used
      <4>1. /\ job[j] \in JobSet /\ DOMAIN job = Jobs
            /\ job' = [job EXCEPT ![j] = [job[j] EXCEPT !.at = "own", !.seen = used]]
        BY <1>2, <3>1 DEF ReadCode, TypeInv, Work
      <4>2. job'[j] = [job[j] EXCEPT !.at = "own", !.seen = used]
        BY <1>1, <4>1
      <4> QED
        BY <4>1, <4>2 DEF JobSet
    <3>4. ASSUME used = 0 PROVE Cardinality(Settled(u)') <= unnoted'.uses
      <4>1. Settled(u) \subseteq Unrecorded
        <5>1. \A o \in Settled(u) : ~Handing(o, {"record"})
          BY <1>3, <1>4, <2>4 DEF Settled, Handing, Orderly, OnOrder, Alone
        <5> QED
          BY <5>1 DEF Settled, Unrecorded
      <4>2. Cardinality(Settled(u)) <= Cardinality(Unrecorded)
        BY <4>1, OnceSizes, Within
      <4>3. Cardinality(Unrecorded) <= unnoted.uses
        BY <3>4 DEF RecordInv
      <4>4. Settled(u)' = Settled(u)
        BY <3>2 DEF Settled, Numbers
      <4> QED
        BY <1>2, <4>2, <4>3, <4>4, OnceSizes
    <3> QED
      BY <1>4, <3>2, <3>3, <3>4 DEF Checked
  <2>5. CASE job[j].at = "own"
    <3>1. CheckCode(j)
      BY <2>5 DEF Proceed, Recent, NoReserve, ReadCode, DropPending, CreateOrder, MarkPaid,
         WritePaid, RecordUse, Fulfil, AttachReceipt, ClaimReservation, ApplyReservation,
         CheckTests, AddTestClient, CreateTest, FlagTest, At
    <3>2. UNCHANGED orders /\ job'[j].at = "drop"
      BY <2>2, <2>5, <3>1 DEF CheckCode, tables
    <3>3. OwnUsed(u) = {} /\ ~(job[j].seen >= 1)
      <4>1. ~Ends(j)
        BY <1>1, <1>2 DEF Ends, TypeInv, Work
      <4> QED
        BY <1>3, <3>1, <4>1 DEF CheckCode
    <3>4. job[j].seen = 0
      BY <1>2, <3>3 DEF JobSet
    <3>5. Cardinality(Settled(u)) <= unnoted.uses
      BY <1>3, <1>4, <2>5, <3>4 DEF Checked
    <3>6. Settled(u)' = Settled(u) /\ OwnUsed(u)' = OwnUsed(u)
      BY <3>2 DEF Settled, OwnUsed, Numbers
    <3> QED
      BY <1>2, <1>4, <3>2, <3>3, <3>5, <3>6 DEF Checked
  <2>6. CASE job[j].at = "drop"
    <3>1. DropPending(j)
      BY <2>6 DEF Proceed, Recent, NoReserve, ReadCode, CheckCode, CreateOrder, MarkPaid,
         WritePaid, RecordUse, Fulfil, AttachReceipt, ClaimReservation, ApplyReservation,
         CheckTests, AddTestClient, CreateTest, FlagTest, At
    <3>2. orders' = Cancelled(Unpaid(u))
      BY <1>3, <3>1 DEF DropPending, Unpaid
    <3>3. \A o \in Numbers : /\ orders[o] \in OrderSet
                            /\ orders'[o] = IF o \in Unpaid(u)
                                 THEN [orders[o] EXCEPT !.status = "cancelled"] ELSE orders[o]
      BY <3>2 DEF Cancelled, TypeInv, Data, Numbers
    <3>4. Numbers' = Numbers
      BY <3>2 DEF Cancelled, Numbers
    <3>5. \A o \in Numbers :
            /\ orders'[o].user = orders[o].user /\ orders'[o].code = orders[o].code
            /\ orders'[o].status = IF o \in Unpaid(u) THEN "cancelled" ELSE orders[o].status
      BY <3>3 DEF OrderSet
    <3>6. Rests(u)
      BY <3>4, <3>5 DEF Rests, Gone
    <3>7. Unpaid(u)' = {}
      <4> SUFFICES ASSUME NEW o \in Unpaid(u)' PROVE FALSE
        OBVIOUS
      <4>1. /\ o \in Numbers /\ orders'[o].user = u /\ orders'[o].code
            /\ orders'[o].status = "pending_payment"
        BY <3>4 DEF Unpaid
      <4>2. o \notin Unpaid(u)
        BY <3>5, <4>1
      <4> QED
        BY <3>5, <4>1, <4>2 DEF Unpaid
    <3>8. /\ Cardinality(Settled(u)) <= unnoted.uses /\ OwnUsed(u) = {}
      BY <1>3, <1>4, <2>6 DEF Checked
    <3>9. /\ Settled(u)' \subseteq Settled(u) /\ OwnUsed(u)' = {}
      BY <3>6, <3>8, RestsClear
    <3>10. Cardinality(Settled(u)') <= Cardinality(Settled(u)) /\ Cardinality(Settled(u)') \in Nat
      BY <3>9, OnceSizes, Within
    <3>11. Cardinality(Settled(u)') <= unnoted'.uses
      BY <1>2, <3>8, <3>10, OnceSizes
    <3> QED
      BY <1>4, <3>7, <3>9, <3>11 DEF Checked
  <2> QED
    BY <2>2, <2>3, <2>4, <2>5, <2>6
<1> QED
  BY <1>5, <1>6

LEMMA CheckInductive ==
  ASSUME TypeInv, TypeInv', CountInv, CountInv', Orderly, Alone, RecordInv, MaxUses = 1,
         CheckInv, [Next]_vars
  PROVE  CheckInv'
<1> SUFFICES ASSUME NEW j \in Lonely', job'[j].code PROVE Checked(j)'
  BY DEF CheckInv
<1>0. j \in Jobs /\ j \in Busy' /\ j \notin overlapped'
  BY DEF Lonely, Busy
<1>1. CASE j \in Busy /\ Proceed(j)
  <2>1. j \in Lonely
    BY <1>0, <1>1, Walks DEF Lonely
  <2>2. job[j].code => Checked(j)
    BY <2>1 DEF CheckInv
  <2> QED
    BY <1>1, <2>2, CheckProceed
<1>2. CASE j \in Busy /\ ~Proceed(j)
  <2>1. PICK u : u = job[j].user
    OBVIOUS
  <2>2. j \in Lonely /\ job'[j] = job[j] /\ Rests(u) /\ unnoted.uses <= unnoted'.uses
    BY <1>2, <2>1, Bystander
  <2>3. Checked(j)
    BY <2>2 DEF CheckInv
  <2> QED
    BY <2>1, <2>2, <2>3, CheckedKept
<1>3. CASE j \notin Busy
  <2>1. ~Proceed(j)
    BY <1>0, <1>3, Walks
  <2>2. ~(Restart \/ \E i \in Jobs : Fails(i))
    <3>1. ASSUME NEW S, Loses(S) PROVE FALSE
      BY <1>0, <1>3, <3>1 DEF Loses, Busy
    <3> QED
      BY <3>1, Lost
  <2>3. job' # job
    BY <1>0, <1>3 DEF Busy
  <2>4. PICK i \in Jobs : Ask(i) \/ (Proceed(i) /\ i # j)
    BY <2>1, <2>2, <2>3 DEF Next, vars, Meanwhile
  <2>5. Ask(j)
    <3>1. CASE Proceed(i) /\ i # j
      BY <1>0, <1>3, <3>1, Walks DEF Busy
    <3>2. CASE Ask(i)
      <4>1. PICK d : Opening(d) /\ Start(i, d)
        BY <3>2, Asked
      <4>2. Busy' = Busy \cup {i}
        BY <4>1, Started DEF Opening
      <4> QED
        BY <1>0, <1>3, <3>2, <4>2
    <3> QED
      BY <2>4, <3>1, <3>2
  <2>6. PICK d : Opening(d) /\ Start(j, d)
    BY <1>0, <2>5, Asked
  <2>7. job'[j] = d
    BY <1>0, <2>6, Started DEF Opening
  <2>8. d.at \notin {"own", "drop", "create"}
    BY <2>6, <2>7 DEF Opening, JobSet, Kinds, Creations
  <2> QED
    BY <2>7, <2>8 DEF Checked
<1> QED
  BY <1>0, <1>1, <1>2, <1>3

\* The bound is kept when orders only go, or an order reopens.
LEMMA CodeStep ==
  ASSUME TypeInv, TypeInv', CountInv, CountInv', CodeInv, NEW X, IsFiniteSet(X), Wanes(X),
         reopened' >= reopened + Cardinality(X), unnoted.uses <= unnoted'.uses,
         raced' = raced
  PROVE  CodeInv'
<1> SUFFICES ASSUME NEW u \in Users
             PROVE  Cardinality(Coded(u)') <= 1 + raced'[u] + reopened' + unnoted'.uses
  BY DEF CodeInv
<1>1. Coded(u)' \subseteq Coded(u) \cup X
  BY DEF Wanes, Coded, Living
<1>2. IsFiniteSet(Coded(u))
  BY OnceSizes
<1>3. Cardinality(Coded(u)') <= Cardinality(Coded(u)) + Cardinality(X)
      /\ Cardinality(X) \in Nat /\ Cardinality(Coded(u)') \in Nat
      /\ Cardinality(Coded(u)) \in Nat
  BY <1>1, <1>2, Covered
<1>4. /\ reopened \in Nat /\ reopened' \in Nat /\ unnoted.uses \in Nat
      /\ unnoted'.uses \in Nat /\ raced[u] \in Nat
  BY DEF CountInv
<1>5. Cardinality(Coded(u)) <= 1 + raced[u] + reopened + unnoted.uses
  BY DEF CodeInv
<1>6. \A a, b, c, r, s, t, x, y \in Nat :
        a <= b + c /\ b <= 1 + r + s + x /\ t >= s + c /\ x <= y => a <= 1 + r + t + y
  OBVIOUS
<1>7. Cardinality(Coded(u)') <= 1 + raced[u] + reopened' + unnoted'.uses
  BY <1>3, <1>4, <1>5, <1>6
<1> QED
  BY <1>7

\* A new order: the user raced, or had nothing that counts.
LEMMA CodeCreate ==
  ASSUME TypeInv, TypeInv', CountInv, CountInv', Orderly, Alone, CheckInv, CodeInv,
         NEW j \in Jobs, CreateOrder(j)
  PROVE  CodeInv'
<1> DEFINE m == Len(orders) + 1
<1>0. PICK n : n = m
  OBVIOUS
<1>1. /\ j \in Busy /\ job[j].at = "create" /\ Numbers' = Numbers \cup {n} /\ n \notin Numbers
      /\ \A o \in Numbers : orders'[o] = orders[o]
      /\ orders'[n].user = job[j].user /\ orders'[n].code = job[j].code
      /\ \A i \in Jobs : job'[i] = IF i = j THEN None ELSE job[i]
  BY <1>0, Created
<1> HIDE DEF m
<1>2. /\ UNCHANGED <<reopened, unnoted>>
      /\ raced' = IF job[j].code /\ j \in overlapped
                 THEN [raced EXCEPT ![job[j].user] = raced[job[j].user] + 1] ELSE raced
  BY DEF CreateOrder
<1>3. \A i \in Busy : job[i].at \in OnOrder => job[i].ord \in Numbers
  BY DEF TypeInv, Work, Ready
<1>4. \A o \in Numbers : o \in Held' => o \in Held
  BY <1>1, <1>3 DEF Held, Holders, Holds, Busy
<1> SUFFICES ASSUME NEW u \in Users
             PROVE  Cardinality(Coded(u)') <= 1 + raced'[u] + reopened' + unnoted'.uses
  BY DEF CodeInv
<1>5. /\ reopened \in Nat /\ unnoted.uses \in Nat /\ raced[u] \in Nat /\ raced'[u] \in Nat
      /\ Cardinality(Coded(u)) \in Nat /\ IsFiniteSet(Coded(u))
      /\ Cardinality(Settled(u)) \in Nat /\ IsFiniteSet(Settled(u))
  <2>1. /\ Cardinality(Coded(u)) \in Nat /\ IsFiniteSet(Coded(u))
        /\ Cardinality(Settled(u)) \in Nat /\ IsFiniteSet(Settled(u))
    BY OnceSizes
  <2> QED
    BY <2>1 DEF CountInv
<1>6. Cardinality(Coded(u)) <= 1 + raced[u] + reopened + unnoted.uses
  BY DEF CodeInv
<1>7. Coded(u)' \subseteq Coded(u) \cup {n}
  BY <1>1, <1>4 DEF Coded, Living
<1>8. IsFiniteSet({n}) /\ Cardinality({n}) = 1
  BY FS_Singleton
<1>9. CASE ~(job[j].code /\ job[j].user = u)
  <2>1. Coded(u)' \subseteq Coded(u)
    BY <1>1, <1>7, <1>9 DEF Coded
  <2>2. Cardinality(Coded(u)') <= Cardinality(Coded(u)) /\ Cardinality(Coded(u)') \in Nat
    BY <1>5, <2>1, Within
  <2>3. raced'[u] = raced[u]
    BY <1>2, <1>9 DEF CountInv
  <2> QED
    BY <1>2, <1>5, <1>6, <2>2, <2>3
<1>10. CASE job[j].code /\ job[j].user = u /\ j \in overlapped
  <2>1. Cardinality(Coded(u)') <= Cardinality(Coded(u)) + 1 /\ Cardinality(Coded(u)') \in Nat
    BY <1>5, <1>7, <1>8, Covered
  <2>2. raced'[u] = raced[u] + 1
    BY <1>2, <1>10 DEF CountInv
  <2> QED
    BY <1>2, <1>5, <1>6, <2>1, <2>2
<1>11. CASE job[j].code /\ job[j].user = u /\ j \notin overlapped
  <2>1. Checked(j) /\ j \in Lonely
    BY <1>1, <1>11 DEF CheckInv, Lonely
  <2>2. /\ Cardinality(Settled(u)) <= unnoted.uses /\ OwnUsed(u) = {} /\ Unpaid(u) = {}
    BY <1>1, <1>11, <2>1 DEF Checked
  <2>3. Coded(u) \subseteq Settled(u)
    <3> SUFFICES ASSUME NEW o \in Coded(u) PROVE o \in Settled(u)
      OBVIOUS
    <3>1. /\ o \in Numbers /\ orders[o].user = u /\ orders[o].code
          /\ orders[o].status \notin Gone \/ o \in Held
      BY DEF Coded, Living
    <3>2. o \notin Held
      BY <1>1, <1>11, <2>1, <3>1 DEF Held, Holders, Holds, Orderly, Alone, OnOrder
    <3>3. orders[o] \in OrderSet
      BY <3>1 DEF TypeInv, Data, Numbers
    <3>4. orders[o].status \in Statuses
      BY <3>3 DEF OrderSet
    <3>5. orders[o].status = "reserved"
      BY <2>2, <3>1, <3>2, <3>4 DEF OwnUsed, Unpaid, Statuses, Gone
    <3> QED
      BY <3>1, <3>5 DEF Settled, PaidLike
  <2>4. Coded(u)' \subseteq Settled(u) \cup {n}
    BY <1>7, <2>3
  <2>5. Cardinality(Coded(u)') <= Cardinality(Settled(u)) + 1 /\ Cardinality(Coded(u)') \in Nat
    BY <1>5, <1>8, <2>4, Covered
  <2> QED
    BY <1>2, <1>5, <2>2, <2>5
<1> QED
  BY <1>9, <1>10, <1>11

LEMMA CodeInductive ==
  ASSUME TypeInv, TypeInv', CountInv, CountInv', Orderly, Alone, CheckInv, CodeInv, [Next]_vars
  PROVE  CodeInv'
<1>0. /\ reopened \in Nat /\ reopened >= reopened + Cardinality({}) /\ IsFiniteSet({})
      /\ unnoted.uses \in Nat /\ unnoted.uses <= unnoted.uses
  BY EmptySize DEF CountInv
<1>1. ASSUME NEW j \in Jobs, Ask(j) PROVE CodeInv'
  <2>1. PICK d : Opening(d) /\ Start(j, d)
    BY <1>1, Asked
  <2>2. UNCHANGED <<reopened, unnoted, raced>>
    BY <2>1, Started DEF Opening
  <2>3. Wanes({})
    BY <2>1, WanesStart
  <2> QED
    BY <1>0, <2>2, <2>3, CodeStep
<1>2. ASSUME NEW j \in Jobs, Proceed(j), ~CreateOrder(j) PROVE CodeInv'
  <2>1. UNCHANGED <<unnoted, raced>>
    BY <1>2 DEF Proceed, Recent, NoReserve, ReadCode, CheckCode, DropPending, CreateOrder,
       MarkPaid, WritePaid, RecordUse, Fulfil, AttachReceipt, ClaimReservation,
       ApplyReservation, CheckTests, AddTestClient, CreateTest, FlagTest, history
  <2>2. CASE Wanes({}) /\ reopened' = reopened
    BY <1>0, <2>1, <2>2, CodeStep
  <2>3. CASE Wanes({job[j].ord}) /\ reopened' = reopened + 1
    <3>1. IsFiniteSet({job[j].ord}) /\ Cardinality({job[j].ord}) = 1
      BY FS_Singleton
    <3>2. reopened' >= reopened + Cardinality({job[j].ord})
      BY <1>0, <2>3, <3>1
    <3> QED
      BY <1>0, <2>1, <2>3, <3>1, <3>2, CodeStep
  <2> QED
    BY <1>2, <2>2, <2>3, WanesProceed
<1>3. CASE Restart \/ \E j \in Jobs : Fails(j)
  <2>1. PICK S : Loses(S)
    BY <1>3, Lost
  <2>2. UNCHANGED <<reopened, raced>>
    BY <2>1 DEF Loses
  <2>3. unnoted.uses <= unnoted'.uses
    <3> DEFINE A == {i \in S : job[i].at \in {"record"}}
    <3>1. unnoted'.uses = unnoted.uses + Cardinality(A) /\ Cardinality(A) \in Nat
      BY <2>1, Unnotes
    <3> HIDE DEF A
    <3> QED
      BY <1>0, <3>1
  <2>4. Wanes({})
    BY <2>1, WanesLost
  <2> QED
    BY <1>0, <2>2, <2>3, <2>4, CodeStep
<1>4. CASE Meanwhile
  <2>1. Wanes({}) /\ UNCHANGED <<reopened, unnoted, raced>>
    BY <1>4, WanesMeanwhile DEF history
  <2> QED
    BY <1>0, <2>1, CodeStep
<1>5. CASE UNCHANGED vars
  <2>1. UNCHANGED <<orders, job, reopened, unnoted, raced>>
    BY <1>5 DEF vars, history
  <2>2. \A u \in Users : Coded(u)' = Coded(u)
    BY <2>1 DEF Coded, Living, Held, Holders, Holds, Busy, Numbers
  <2> QED
    BY <2>1, <2>2 DEF CodeInv
<1> QED
  BY <1>1, <1>2, <1>3, <1>4, <1>5, CodeCreate DEF Next, Proceed

LEMMA OnceInitial == Init => OnceInv
<1> SUFFICES ASSUME Init PROVE OnceInv
  OBVIOUS
<1>1. Numbers = {} /\ Busy = {}
  BY DEF Init, Numbers, Busy
<1>2. Unrecorded = {} /\ Lonely = {} /\ \A u \in Users : Coded(u) = {}
  BY <1>1 DEF Unrecorded, Lonely, Coded, Living
<1>3. Cardinality(Unrecorded) = 0 /\ \A u \in Users : Cardinality(Coded(u)) = 0
  BY <1>2, EmptySize
<1>4. RecordInv /\ CodeInv
  BY <1>3 DEF Init, RecordInv, CodeInv
<1> QED
  BY <1>2, <1>4 DEF OnceInv, Alone, CheckInv

LEMMA OnceInductive ==
  ASSUME TypeInv, TypeInv', CountInv, CountInv', Orderly, OnceInv, [Next]_vars PROVE OnceInv'
BY AloneInductive, RecordInductive, CheckInductive, CodeInductive DEF OnceInv

(* A one-time code serves a buyer once: more orders with it come only from *)
(* requests of his that overlapped, orders an administrator took back and  *)
(* uses that a failure left unrecorded.                                    *)
THEOREM CodeServesOnce == Spec => []CodeOncePerBuyer
<1>1. TypeInv /\ CountInv /\ OnceInv => CodeOncePerBuyer
  <2> SUFFICES ASSUME TypeInv, CountInv, OnceInv, MaxUses = 1, NEW u \in Users
               PROVE  Cardinality(Taken(u)) <= 1 + raced[u] + reopened + unnoted.uses
    BY DEF CodeOncePerBuyer
  <2>1. Taken(u) \subseteq Coded(u)
    BY DEF Taken, Coded, Living, Gone
  <2>2. IsFiniteSet(Coded(u)) /\ Cardinality(Coded(u)) \in Nat
        /\ unnoted.uses \in Nat /\ reopened \in Nat /\ raced[u] \in Nat
    BY OnceSizes
  <2>3. Cardinality(Taken(u)) <= Cardinality(Coded(u)) /\ Cardinality(Taken(u)) \in Nat
    BY <2>1, <2>2, Within
  <2>4. Cardinality(Coded(u)) <= 1 + raced[u] + reopened + unnoted.uses
    BY DEF OnceInv, CodeInv
  <2> QED
    BY <2>2, <2>3, <2>4
<1>2. TypeInv /\ CountInv /\ [Next]_vars => CountInv'
  BY CountInductive
<1>3. TypeInv /\ TypeInv' /\ CountInv /\ Orderly /\ [Next]_vars => Orderly'
  BY OrderlyInductive
<1>4. TypeInv /\ TypeInv' /\ CountInv /\ CountInv' /\ Orderly /\ OnceInv /\ [Next]_vars
        => OnceInv'
  BY OnceInductive
<1> QED
  BY Initial, Inductive, CountInitial, ReserveInitial, OnceInitial, <1>1, <1>2, <1>3, <1>4, PTL
  DEF Spec
=============================================================================
