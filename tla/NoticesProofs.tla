--------------------------- MODULE NoticesProofs ----------------------------
(* Theorems about the notification sweep, for any number of sweeps in      *)
(* flight, all spans of days and every choice of messages.                 *)
EXTENDS Notices, FiniteSetTheorems, TLAPS

\* A sweep closes a row only on its way to the farewell, and ends last.
Ordered(d) ==
  /\ d.at = "expire" => d.of = "deleted"
  /\ d.of = "end" => d.at = "last"
  /\ d.of = "start" => d.at = "sync"

Account ==
  /\ row \in Rows
  /\ client \in [exp : {-Month} \cup Days, on : BOOLEAN, low : BOOLEAN] \cup {NoClient}
  /\ log \subseteq Kinds \X Days
  /\ today \in 0 .. LastDay /\ enabled \in Settings
  /\ renewing \in BOOLEAN /\ raced \in BOOLEAN
  /\ crowded \in BOOLEAN /\ stale \in BOOLEAN

Flight ==
  /\ tick \in [Ticks -> Sweeps \cup {None}]
  /\ \A t \in Ticks : tick[t] # None => Ordered(tick[t])

TypeInv == Account /\ Flight

\* What a sweep holds of a row that counts its days is the row, unless a renewal
\* was in flight with a sweep; and it is due a farewell when it works on one.
Holds(d) ==
  /\ ~raced /\ ~d.s.waiting => ~row.waiting /\ row.ends = d.s.ends
  /\ d.of = "deleted" => Farewell(d.s)

Fresh ==
  /\ Running # {} /\ renewing => raced
  /\ \A t \in Ticks : tick[t] # None => Holds(tick[t])

-----------------------------------------------------------------------------
(* From one kind of message to the next the row read stays the same, and a *)
(* farewell is reached only when it is due.                                *)
LEMMA AfterSpec ==
  ASSUME NEW d \in Sweeps, d.of # "end"
  PROVE  /\ After(d) \in Sweeps /\ Ordered(After(d)) /\ After(d).s = d.s
         /\ After(d).of = "deleted" => Farewell(d.s)
         /\ After(d).at \in {"log", "ask", "last"}
<1>1. d.of \in Kinds \cup {"start"}
  BY DEF Sweeps
<1>2. /\ ToFarewell(d) \in Sweeps /\ Ordered(ToFarewell(d)) /\ ToFarewell(d).s = d.s
      /\ ToFarewell(d).of = "deleted" => Farewell(d.s)
      /\ ToFarewell(d).at \in {"log", "ask", "last"}
  BY DEF ToFarewell, Sweeps, Ordered, Kinds
<1>3. /\ ToTraffic(d) \in Sweeps /\ Ordered(ToTraffic(d)) /\ ToTraffic(d).s = d.s
      /\ ToTraffic(d).of = "deleted" => Farewell(d.s)
      /\ ToTraffic(d).at \in {"log", "ask", "last"}
  BY <1>2 DEF ToTraffic, Sweeps, Ordered, Kinds
<1>4. /\ ToLastWarning(d) \in Sweeps /\ Ordered(ToLastWarning(d)) /\ ToLastWarning(d).s = d.s
      /\ ToLastWarning(d).of = "deleted" => Farewell(d.s)
      /\ ToLastWarning(d).at \in {"log", "ask", "last"}
  BY <1>3 DEF ToLastWarning, Sweeps, Ordered, Kinds
<1>5. /\ ToWarning(d) \in Sweeps /\ Ordered(ToWarning(d)) /\ ToWarning(d).s = d.s
      /\ ToWarning(d).of = "deleted" => Farewell(d.s)
      /\ ToWarning(d).at \in {"log", "ask", "last"}
  BY <1>4 DEF ToWarning, Sweeps, Ordered, Kinds
<1>6. CASE d.of = "deleted"
  BY <1>6 DEF After, Sweeps, Ordered
<1> QED
  BY <1>1, <1>2, <1>3, <1>4, <1>5, <1>6 DEF After, Kinds

(* A sweep that moves leaves the others alone.                             *)
LEMMA FlightSteps ==
  ASSUME Flight, NEW t \in Ticks
  PROVE  /\ tick[t] # None => tick[t] \in Sweeps /\ Ordered(tick[t])
         /\ \A d \in Sweeps : Ordered(d) /\ tick' = [tick EXCEPT ![t] = d] => Flight'
         /\ tick' = [tick EXCEPT ![t] = None] => Flight'
<1>1. tick[t] # None => tick[t] \in Sweeps /\ Ordered(tick[t])
  BY DEF Flight
<1>2. \A d \in Sweeps : Ordered(d) /\ tick' = [tick EXCEPT ![t] = d] => Flight'
  BY DEF Flight
<1>3. tick' = [tick EXCEPT ![t] = None] => Flight'
  BY DEF Flight
<1> QED
  BY <1>1, <1>2, <1>3

(* What a step of a sweep makes of it.                                     *)
Passes(t, d) ==
  \/ d.at # "sync" /\ d.of # "end" /\ Skip(t)
  \/ d.of \in Kinds /\ \E at \in {"log", "send", "mark", "clear"} : Goto(t, at)
  \/ d.of = "deleted" /\ Goto(t, "expire")

LEMMA PassesSpec ==
  ASSUME Flight, NEW t \in Ticks, tick[t] # None, Passes(t, tick[t])
  PROVE  \E e \in Sweeps :
           /\ Ordered(e) /\ tick' = [tick EXCEPT ![t] = e] /\ e.s = tick[t].s
           /\ e.of = "deleted" => tick[t].of = "deleted" \/ Farewell(e.s)
<1>1. tick[t] \in Sweeps
  BY FlightSteps
<1>2. CASE tick[t].of # "end" /\ Skip(t)
  <2> DEFINE e == After(tick[t])
  <2>1. /\ e \in Sweeps /\ Ordered(e) /\ e.s = tick[t].s
        /\ e.of = "deleted" => Farewell(e.s)
    BY <1>1, <1>2, AfterSpec
  <2>2. tick' = [tick EXCEPT ![t] = e]
    BY <1>2 DEF Skip
  <2> QED
    BY <2>1, <2>2
<1>3. CASE tick[t].of \in Kinds /\ \E at \in {"log", "send", "mark", "clear"} : Goto(t, at)
  <2>1. PICK at \in {"log", "send", "mark", "clear"} : Goto(t, at)
    BY <1>3
  <2> DEFINE e == [tick[t] EXCEPT !.at = at]
  <2>2. e \in Sweeps /\ Ordered(e) /\ e.s = tick[t].s /\ e.of = tick[t].of
    BY <1>1, <1>3, <2>1 DEF Sweeps, Ordered, Kinds
  <2>3. tick' = [tick EXCEPT ![t] = e]
    BY <2>1 DEF Goto
  <2> QED
    BY <2>2, <2>3
<1>4. CASE tick[t].of = "deleted" /\ Goto(t, "expire")
  <2> DEFINE e == [tick[t] EXCEPT !.at = "expire"]
  <2>2. e \in Sweeps /\ Ordered(e) /\ e.s = tick[t].s /\ e.of = tick[t].of
    BY <1>1, <1>4 DEF Sweeps, Ordered
  <2>3. tick' = [tick EXCEPT ![t] = e]
    BY <1>4 DEF Goto
  <2> QED
    BY <2>2, <2>3
<1> QED
  BY <1>2, <1>3, <1>4 DEF Passes

\* A step of a sweep that leaves the end of the row, the day and the settings.
Quiet == /\ UNCHANGED <<today, enabled, crowded, renewing, raced>>
         /\ row'.ends = row.ends /\ row'.waiting = row.waiting

LEMMA PassesKeep ==
  ASSUME Flight, NEW t \in Ticks, tick[t] # None, Passes(t, tick[t]), Quiet
  PROVE  Flight' /\ (Fresh => Fresh')
<1>1. PICK e \in Sweeps :
        /\ Ordered(e) /\ tick' = [tick EXCEPT ![t] = e] /\ e.s = tick[t].s
        /\ e.of = "deleted" => tick[t].of = "deleted" \/ Farewell(e.s)
  BY PassesSpec
<1>2. Flight'
  BY <1>1, FlightSteps
<1>3. \A u \in Ticks : tick'[u] = IF u = t THEN e ELSE tick[u]
  BY <1>1 DEF Flight
<1>4. ASSUME Fresh PROVE Fresh'
  <2>1. Running # {}
    BY DEF Running
  <2>3. ASSUME NEW u \in Ticks, tick'[u] # None PROVE Holds(tick[u])'
    <3>1. CASE u = t
      BY <1>1, <1>3, <1>4, <3>1 DEF Fresh, Holds, Farewell, LongOver, Quiet
    <3>2. CASE u # t
      BY <1>3, <1>4, <2>3, <3>2 DEF Fresh, Holds, Farewell, LongOver, Quiet
    <3> QED
      BY <3>1, <3>2
  <2> QED
    BY <1>4, <2>1, <2>3 DEF Fresh, Quiet
<1> QED
  BY <1>2, <1>4

(* Every step of a sweep but the first, the read after it and the last     *)
(* is a pass in that sense.                                                *)
Passing(t) ==
  \/ Ask(t) \/ Unanswered(t) \/ Clear(t) \/ ClearFails(t) \/ LookUp(t) \/ Expire(t)
  \/ Send(t) \/ SendFails(t) \/ Mark(t) \/ MarkFails(t)

LEMMA PassingSpec ==
  ASSUME TypeInv, NEW t \in Ticks, Passing(t)
  PROVE  tick[t] # None /\ Passes(t, tick[t]) /\ Quiet /\ Account'
<1> USE DEF TypeInv
<1>1. /\ tick[t] # None /\ tick[t].at \in {"ask", "clear", "log", "expire", "send", "mark"}
      /\ tick[t].of \in Kinds
  <2>1. tick[t] # None /\ tick[t].at \in {"ask", "clear", "log", "expire", "send", "mark"}
    BY DEF Passing, Ask, Unanswered, Clear, ClearFails, LookUp, Expire, Send, SendFails, Mark, MarkFails, On
  <2> QED
    BY <2>1, FlightSteps DEF Sweeps, Ordered, Kinds
<1>2. CASE Ask(t) \/ Unanswered(t) \/ LookUp(t)
  <2>1. Passes(t, tick[t])
    BY <1>1, <1>2 DEF Kinds, Passes, Ask, Unanswered, LookUp, On
  <2>2. UNCHANGED <<row, client, log, today, enabled, crowded, renewing, stale, raced>>
    BY <1>2 DEF Ask, Unanswered, LookUp, history
  <2> QED
    BY <1>1, <2>1, <2>2 DEF Quiet, Account
<1>3. CASE Clear(t)
  <2>1. Passes(t, tick[t])
    BY <1>1, <1>3 DEF Kinds, Passes, Clear, On
  <2>2. /\ UNCHANGED <<row, client, today, enabled, crowded, renewing, raced>>
        /\ log' = log \ {Bucket(tick[t])} /\ stale' = FALSE
    BY <1>3 DEF Clear
  <2> QED
    BY <1>1, <2>1, <2>2 DEF Quiet, Account
<1>7. CASE ClearFails(t)
  <2>1. Passes(t, tick[t])
    BY <1>1, <1>7 DEF Kinds, Passes, ClearFails, On
  <2>2. /\ UNCHANGED <<row, client, log, today, enabled, crowded, renewing, raced>>
        /\ stale' = (stale \/ Bucket(tick[t]) \in log)
    BY <1>7 DEF ClearFails
  <2>3. stale' \in BOOLEAN
    BY <2>2
  <2> QED
    BY <1>1, <2>1, <2>2, <2>3 DEF Quiet, Account
<1>4. CASE Expire(t)
  <2>1. Passes(t, tick[t])
    BY <1>1, <1>4 DEF Kinds, Passes, Expire
  <2>2. /\ UNCHANGED <<client, log, today, enabled, crowded, renewing, stale, raced>>
        /\ row' = [row EXCEPT !.active = FALSE]
    BY <1>4 DEF Expire, history
  <2> QED
    BY <1>1, <2>1, <2>2 DEF Quiet, Account, Rows
<1>5. CASE Send(t) \/ SendFails(t) \/ MarkFails(t)
  <2>1. Passes(t, tick[t])
    BY <1>1, <1>5 DEF Kinds, Passes, Send, SendFails, MarkFails, On
  <2>2. UNCHANGED <<row, client, log, today, enabled, crowded, renewing, stale, raced>>
    BY <1>5 DEF Send, SendFails, MarkFails
  <2> QED
    BY <1>1, <2>1, <2>2 DEF Quiet, Account
<1>6. CASE Mark(t)
  <2>1. Passes(t, tick[t])
    BY <1>1, <1>6 DEF Kinds, Passes, Mark, On
  <2>2. /\ UNCHANGED <<row, client, today, enabled, crowded, renewing, stale, raced>>
        /\ log' = log \cup {Bucket(tick[t])}
    BY <1>6 DEF Mark, history
  <2>3. 0 \in Days
    BY DayAssumption, BoundAssumption DEF Days
  <2>4. Bucket(tick[t]) \in Kinds \X Days
    BY <1>1, <2>3, FlightSteps DEF Bucket, Sweeps, Rows, Kinds
  <2> QED
    BY <1>1, <2>1, <2>2, <2>4 DEF Quiet, Account
<1> QED
  BY <1>2, <1>3, <1>4, <1>5, <1>6, <1>7 DEF Passing

-----------------------------------------------------------------------------
LEMMA Initial == Init => TypeInv /\ Fresh
<1> SUFFICES ASSUME Init PROVE TypeInv /\ Fresh
  OBVIOUS
<1>1. Month \in Days /\ 0 \in 0 .. LastDay
  BY DayAssumption, BoundAssumption DEF Days
<1>2. Account
  BY <1>1 DEF Init, Account, Rows
<1>3. Flight /\ Fresh
  BY DEF Init, Flight, Fresh, Running
<1> QED
  BY <1>2, <1>3 DEF TypeInv

(* A sweep starts with the row as it is.                                   *)
LEMMA BeginKeeps ==
  ASSUME TypeInv, Fresh, NEW t \in Ticks, Begin(t)
  PROVE  TypeInv' /\ Fresh'
<1> DEFINE d == [s |-> row, of |-> "start", at |-> "sync"]
           e == First
<1>1. d \in Sweeps /\ Ordered(d) /\ d.of = "start" /\ d.s = row
  BY DEF TypeInv, Account, Sweeps, Ordered
<1>2. /\ e \in Sweeps /\ Ordered(e) /\ e.s = row
      /\ e.of = "deleted" => Farewell(row)
  <2>1. CASE crowded
    BY <1>1, <2>1 DEF First, Sweeps, Ordered
  <2>2. CASE ~crowded
    BY <1>1, <2>2, AfterSpec DEF First
  <2> QED
    BY <2>1, <2>2
<1>3. /\ tick' = [tick EXCEPT ![t] = e]
      /\ UNCHANGED <<row, client, log, today, enabled, crowded, renewing, stale>>
      /\ raced' = (raced \/ renewing)
  BY DEF Begin
<1> HIDE DEF e
<1>4. \A u \in Ticks : tick'[u] = IF u = t THEN e ELSE tick[u]
  BY <1>3 DEF TypeInv, Flight
<1>5. TypeInv'
  BY <1>2, <1>3, FlightSteps DEF TypeInv, Account
<1>6. ASSUME NEW u \in Ticks, tick'[u] # None PROVE Holds(tick[u])'
  <2>1. CASE u = t
    BY <1>2, <1>3, <1>4, <2>1 DEF Holds, Farewell, LongOver
  <2>2. CASE u # t
    BY <1>3, <1>4, <1>6, <2>2 DEF Fresh, Holds, Farewell, LongOver
  <2> QED
    BY <2>1, <2>2
<1>7. renewing' => raced'
  BY <1>3
<1> QED
  BY <1>5, <1>6, <1>7 DEF Fresh

(* The date of the first connection is copied into the row before the row  *)
(* is read again, so that the sweep goes on with what the row says.        *)
LEMMA SyncKeeps ==
  ASSUME TypeInv, Fresh, NEW t \in Ticks, Sync(t)
  PROVE  TypeInv' /\ Fresh'
<1> DEFINE d == [tick[t] EXCEPT !.s.ends = row'.ends, !.s.waiting = row'.waiting]
<1>1. /\ tick[t] # None /\ tick[t].at = "sync"
      /\ tick[t] \in Sweeps /\ Ordered(tick[t]) /\ tick[t].of # "end"
  BY FlightSteps DEF Sync, On, TypeInv, Ordered
<1>2. /\ row' \in Rows
      /\ row.waiting \/ row' = row
  <2>1. CASE row.waiting /\ client # NoClient /\ client.exp > 0
    <3>1. client.exp \in Days
      BY <2>1, DayAssumption DEF TypeInv, Account
    <3> QED
      BY <2>1, <3>1 DEF Sync, TypeInv, Account, Rows
  <2>2. CASE ~(row.waiting /\ client # NoClient /\ client.exp > 0)
    BY <2>2 DEF Sync, TypeInv, Account
  <2> QED
    BY <2>1, <2>2
<1>3. /\ d \in Sweeps /\ d.of # "end"
      /\ d.s.ends = row'.ends /\ d.s.waiting = row'.waiting
  BY <1>1, <1>2 DEF Sweeps, Rows
<1>4. /\ tick' = [tick EXCEPT ![t] = After(d)]
      /\ UNCHANGED <<client, log, today, enabled, crowded, renewing, stale, raced>>
  BY DEF Sync, history
<1>5. /\ After(d) \in Sweeps /\ Ordered(After(d)) /\ After(d).s = d.s
      /\ After(d).of = "deleted" => Farewell(d.s)
  BY <1>3, AfterSpec
<1>6. \A u \in Ticks : tick'[u] = IF u = t THEN After(d) ELSE tick[u]
  BY <1>4 DEF TypeInv, Flight
<1>7. TypeInv'
  BY <1>2, <1>4, <1>5, FlightSteps DEF TypeInv, Account
<1>8. ASSUME NEW u \in Ticks, tick'[u] # None PROVE Holds(tick[u])'
  <2>1. CASE u = t
    BY <1>3, <1>4, <1>5, <1>6, <2>1 DEF Holds, Farewell, LongOver
  <2>2. CASE u # t
    BY <1>2, <1>4, <1>6, <1>8, <2>2 DEF Fresh, Holds, Farewell, LongOver
  <2> QED
    BY <2>1, <2>2
<1>9. Running # {}
  BY <1>1 DEF Running
<1> QED
  BY <1>4, <1>7, <1>8, <1>9 DEF Fresh

LEMMA FinishKeeps ==
  ASSUME TypeInv, Fresh, NEW t \in Ticks, Finish(t)
  PROVE  TypeInv' /\ Fresh'
<1>1. /\ tick' = [tick EXCEPT ![t] = None]
      /\ UNCHANGED <<client, log, today, enabled, crowded, renewing, stale, raced>>
      /\ row' \in Rows /\ row'.ends = row.ends /\ row'.waiting = row.waiting
  BY DEF Finish, history, TypeInv, Account, Rows
<1>2. \A u \in Ticks : tick'[u] = IF u = t THEN None ELSE tick[u]
  BY <1>1 DEF TypeInv, Flight
<1>3. TypeInv'
  BY <1>1, FlightSteps DEF TypeInv, Account
<1>4. \A u \in Ticks : tick'[u] # None => Holds(tick[u])'
  BY <1>1, <1>2 DEF Fresh, Holds, Farewell, LongOver
<1>5. Running # {}
  BY DEF Finish, On, Running
<1> QED
  BY <1>1, <1>3, <1>4, <1>5 DEF Fresh

LEMMA OutsideKeeps ==
  ASSUME TypeInv, Fresh, RenewClient \/ RenewRow \/ PanelActs \/ Crowd \/ Day \/ Restart
  PROVE  TypeInv' /\ Fresh'
<1> USE DEF TypeInv
<1>1. CASE RenewClient
  <2>1. Account'
    BY <1>1 DEF RenewClient, Account
  <2>2. UNCHANGED <<row, today, enabled, tick>> /\ raced' = (raced \/ Running # {})
    BY <1>1 DEF RenewClient
  <2>3. Flight' /\ \A t \in Ticks : tick'[t] # None => Holds(tick[t])'
    BY <2>2 DEF Flight, Fresh, Holds, Farewell, LongOver
  <2> QED
    BY <2>1, <2>2, <2>3 DEF Fresh, Running
<1>2. CASE RenewRow
  <2>1. today + Month \in Days
    BY DayAssumption, BoundAssumption DEF Account, Days
  <2>2. Account'
    BY <1>2, <2>1 DEF RenewRow, Account, Rows, history
  <2>3. UNCHANGED <<today, enabled, tick, raced>> /\ renewing /\ renewing' = FALSE
    BY <1>2 DEF RenewRow, history
  <2>4. Flight' /\ \A t \in Ticks : tick'[t] # None => Holds(tick[t])'
    BY <2>3 DEF Flight, Fresh, Holds, Farewell, LongOver, Running
  <2> QED
    BY <2>2, <2>3, <2>4 DEF Fresh
<1>3. CASE PanelActs
  <2>1. client' \in [exp : {-Month} \cup Days, on : BOOLEAN, low : BOOLEAN] \cup {NoClient}
    <3>1. client \in [exp : {-Month} \cup Days, on : BOOLEAN, low : BOOLEAN]
      BY <1>3 DEF PanelActs, Account
    <3>2. client.exp < 0 => today - client.exp \in Days
      BY <3>1, DayAssumption, BoundAssumption DEF Account, Days
    <3> QED
      BY <1>3, <3>1, <3>2 DEF PanelActs
  <2>2. UNCHANGED <<row, log, today, enabled, crowded, tick, renewing, stale, raced>>
    BY <1>3 DEF PanelActs, history
  <2> QED
    BY <2>1, <2>2 DEF Account, Flight, Fresh, Holds, Farewell, LongOver, Running
<1>6. CASE Crowd
  <2>1. /\ UNCHANGED <<row, client, log, today, enabled, tick, renewing, stale, raced>>
        /\ crowded' \in BOOLEAN
    BY <1>6 DEF Crowd, history
  <2> QED
    BY <2>1 DEF Account, Flight, Fresh, Holds, Farewell, LongOver, Running
<1>4. CASE Day
  <2>1. today' \in 0 .. LastDay
    BY <1>4, BoundAssumption DEF Day, Account
  <2>2. UNCHANGED <<row, client, log, enabled, crowded, tick, renewing, stale, raced>> /\ Running = {}
    BY <1>4 DEF Day, history
  <2> QED
    BY <2>1, <2>2 DEF Account, Flight, Fresh, Running
<1>5. CASE Restart
  <2>1. /\ tick' = [t \in Ticks |-> None] /\ renewing' = FALSE
        /\ UNCHANGED <<row, client, log, today, enabled, crowded, stale, raced>>
    BY <1>5 DEF Restart
  <2> QED
    BY <2>1 DEF Account, Flight, Fresh
<1> QED
  BY <1>1, <1>2, <1>3, <1>4, <1>5, <1>6

LEMMA Inductive == TypeInv /\ Fresh /\ [Next]_vars => TypeInv' /\ Fresh'
<1> SUFFICES ASSUME TypeInv, Fresh, [Next]_vars PROVE TypeInv' /\ Fresh'
  OBVIOUS
<1>1. ASSUME NEW t \in Ticks, Passing(t) PROVE TypeInv' /\ Fresh'
  BY <1>1, PassingSpec, PassesKeep DEF TypeInv
<1>2. ASSUME NEW t \in Ticks, Begin(t) \/ Sync(t) \/ Finish(t) PROVE TypeInv' /\ Fresh'
  BY <1>2, BeginKeeps, SyncKeeps, FinishKeeps
<1>3. CASE RenewClient \/ RenewRow \/ PanelActs \/ Crowd \/ Day \/ Restart
  BY <1>3, OutsideKeeps
<1>4. CASE UNCHANGED vars
  <2>1. UNCHANGED <<row, client, log, today, enabled, crowded, tick, renewing, stale, raced>>
    BY <1>4 DEF vars, history
  <2> QED
    BY <2>1 DEF TypeInv, Account, Flight, Fresh, Holds, Farewell, LongOver, Running
<1> QED
  BY <1>1, <1>2, <1>3, <1>4 DEF Next, Proceed, Fails, Passing

(* The variables keep their types: among others, a sweep closes a row only *)
(* on its way to the farewell.                                             *)
THEOREM TypeCorrect == Spec => []TypeOK
<1>1. TypeInv => TypeOK
  <2> SUFFICES ASSUME TypeInv PROVE TypeOK
    OBVIOUS
  <2>1. client \in [exp : Int, on : BOOLEAN, low : BOOLEAN] \cup {NoClient}
    BY DayAssumption, BoundAssumption DEF TypeInv, Account, Days
  <2>2. \A t \in Running : tick[t] \in Sweeps /\ Ordered(tick[t])
    BY DEF Running, TypeInv, Flight
  <2> QED
    BY <2>1, <2>2 DEF TypeInv, Account, TypeOK, Sweeps, Ordered
<1> QED
  BY Initial, Inductive, <1>1, PTL DEF Spec

(* A row with days to run is closed by a sweep only when a renewal and a   *)
(* sweep were in flight together, for any number of sweeps.                *)
THEOREM RenewalsSurvive == Spec => RenewalSurvives
<1>1. Spec => [](TypeInv /\ Fresh)
  BY Initial, Inductive, PTL DEF Spec
<1>2. ASSUME TypeInv, Fresh, [Next]_vars
      PROVE  [row.active /\ ~row'.active /\ row.ends > today => raced]_vars
  <2> SUFFICES ASSUME row.active, ~row'.active, row.ends > today PROVE raced
    OBVIOUS
  <2>1. row.ends \in Nat /\ today \in Nat
    BY <1>2, DayAssumption, BoundAssumption DEF TypeInv, Account, Rows, Days
  <2>2. ASSUME NEW t \in Ticks, Expire(t) PROVE raced
    <3>1. tick[t] \in Sweeps /\ tick[t].of = "deleted" /\ Holds(tick[t])
      BY <1>2, <2>2, FlightSteps DEF Expire, On, TypeInv, Ordered, Fresh
    <3>2. ~tick[t].s.waiting /\ LongOver(tick[t].s) /\ tick[t].s.ends \in Nat
      BY <3>1, DayAssumption, BoundAssumption DEF Holds, Farewell, Sweeps, Rows, Days
    <3>3. tick[t].s.ends < today
      BY <2>1, <3>2, DayAssumption DEF LongOver
    <3> QED
      BY <2>1, <3>1, <3>2, <3>3 DEF Holds
  <2>3. ASSUME NEW t \in Ticks, Finish(t) PROVE FALSE
    BY <2>1, <2>3, DayAssumption DEF Finish
  <2>4. ASSUME NEW t \in Ticks, Sync(t) PROVE FALSE
    BY <1>2, <2>4 DEF Sync, TypeInv, Account, Rows
  <2>5. CASE RenewRow
    BY <2>5 DEF RenewRow
  <2>6. row' # row
    OBVIOUS
  <2> QED
    BY <1>2, <2>2, <2>3, <2>4, <2>5, <2>6
    DEF vars, Next, Proceed, Fails, Begin, Ask, Unanswered, Clear, ClearFails, LookUp, Send,
        SendFails, Mark, MarkFails, RenewClient, PanelActs, Crowd, Day, Restart
<1> QED
  BY <1>1, <1>2, PTL DEF Spec, RenewalSurvives

-----------------------------------------------------------------------------
(* No message is told more often than sweeps overlapped or messages went   *)
(* unlogged.  The sweeps that have looked in the log and are about to send *)
(* count as having sent; those that have sent and are about to log are all *)
(* that a message outside the log may have been told for.                  *)

Pending(m) == {t \in Running : tick[t].at \in {"send", "expire"} /\ Message(tick[t]) = m}
Marking(m) == {t \in Running : tick[t].at = "mark" /\ Message(tick[t]) = m}

Numbers == missed \in Nat /\ peak \in Nat /\ told \in [Messages -> Nat]

Bounded(m) ==
  /\ m \notin log => told[m] <= missed + Cardinality(Marking(m))
  /\ told[m] + Cardinality(Pending(m)) <= peak + missed

Counted ==
  /\ Numbers
  /\ Cardinality(Running) <= peak
  /\ \A m \in Messages : Bounded(m)

(* The sweeps counted for a message are among those in flight, and none is *)
(* counted twice.                                                          *)
LEMMA Counts ==
  ASSUME NEW m
  PROVE  /\ IsFiniteSet(Running) /\ IsFiniteSet(Pending(m)) /\ IsFiniteSet(Marking(m))
         /\ Cardinality(Running) \in Nat /\ Cardinality(Pending(m)) \in Nat
         /\ Cardinality(Marking(m)) \in Nat
         /\ Pending(m) \subseteq Running /\ Marking(m) \subseteq Running
         /\ Cardinality(Pending(m)) + Cardinality(Marking(m)) <= Cardinality(Running)
         /\ \A t \in Running : tick[t].at = "log" =>
              Cardinality(Pending(m)) + Cardinality(Marking(m)) + 1 <= Cardinality(Running)
<1>1. IsFiniteSet(Ticks)
  <2>1. MaxTicks \in Int /\ 1 \in Int
    BY BoundAssumption
  <2>2. IsFiniteSet(1 .. MaxTicks)
    BY <2>1, FS_Interval
  <2> QED
    BY <2>2 DEF Ticks
<1>2. IsFiniteSet(Running)
  BY <1>1, FS_Subset DEF Running
<1>3. Pending(m) \subseteq Running /\ Marking(m) \subseteq Running
  BY DEF Pending, Marking
<1>4. IsFiniteSet(Pending(m)) /\ IsFiniteSet(Marking(m))
  BY <1>2, <1>3, FS_Subset
<1>5. /\ Cardinality(Running) \in Nat /\ Cardinality(Pending(m)) \in Nat
      /\ Cardinality(Marking(m)) \in Nat
  BY <1>2, <1>4, FS_CardinalityType
<1> DEFINE both == Pending(m) \cup Marking(m)
<1>6. /\ Pending(m) \cap Marking(m) = {}
      /\ both \subseteq Running
  BY DEF Pending, Marking
<1>7. /\ IsFiniteSet(both)
      /\ Cardinality(both) = Cardinality(Pending(m)) + Cardinality(Marking(m))
  BY <1>4, <1>5, <1>6, FS_Union, FS_EmptySet
<1>8. Cardinality(both) <= Cardinality(Running)
  BY <1>2, <1>6, FS_Subset
<1>9. ASSUME NEW t \in Running, tick[t].at = "log"
      PROVE  Cardinality(both) + 1 <= Cardinality(Running)
  <2>1. t \notin both /\ both \cup {t} \subseteq Running
    BY <1>6, <1>9 DEF Pending, Marking
  <2>2. Cardinality(both \cup {t}) = Cardinality(both) + 1
    BY <1>7, <2>1, FS_AddElement
  <2> QED
    BY <1>2, <2>1, <2>2, FS_Subset
<1> QED
  BY <1>2, <1>3, <1>4, <1>5, <1>7, <1>8, <1>9

(* What a move of one sweep makes of the counts.                           *)
Moves(t, e) == tick[t] # None /\ e \in Sweeps /\ tick' = [tick EXCEPT ![t] = e]

LEMMA CountsMove ==
  ASSUME Flight, NEW t \in Ticks, NEW e, Moves(t, e), NEW m
  PROVE  /\ Running' = Running
         /\ Pending(m)' = (Pending(m) \ {t}) \cup
              {u \in {t} : e.at \in {"send", "expire"} /\ Message(e) = m}
         /\ Marking(m)' = (Marking(m) \ {t}) \cup
              {u \in {t} : e.at = "mark" /\ Message(e) = m}
<1>1. \A u \in Ticks : tick'[u] = IF u = t THEN e ELSE tick[u]
  BY DEF Moves, Flight
<1>2. e # None /\ tick[t] # None
  BY NoneAssumption DEF Moves
<1>3. Running' = Running
  BY <1>1, <1>2 DEF Running
<1>4. ASSUME NEW u \in Ticks
      PROVE  Message(tick[u])' = IF u = t THEN Message(e) ELSE Message(tick[u])
  BY <1>1 DEF Message
<1>5. Pending(m)' = (Pending(m) \ {t}) \cup
        {u \in {t} : e.at \in {"send", "expire"} /\ Message(e) = m}
  BY <1>1, <1>2, <1>3, <1>4 DEF Pending, Running
<1>6. Marking(m)' = (Marking(m) \ {t}) \cup
        {u \in {t} : e.at = "mark" /\ Message(e) = m}
  BY <1>1, <1>2, <1>3, <1>4 DEF Marking, Running
<1> QED
  BY <1>3, <1>5, <1>6

(* What is due has a message.                                              *)
LEMMA MessageType ==
  ASSUME NEW d \in Sweeps, d.of \in Kinds
  PROVE  Message(d) \in Messages
BY DEF Message, Messages, Sweeps, Rows, Kinds

(* A sweep that goes on from where it counted for nothing to where it      *)
(* counts for nothing.                                                     *)
LEMMA IdleKeeps ==
  ASSUME Flight, Counted, NEW t \in Ticks, NEW e, Moves(t, e),
         tick[t].at \notin {"send", "expire", "mark"}, e.at \notin {"send", "expire", "mark"},
         UNCHANGED <<log, told, missed, peak>>
  PROVE  Counted'
<1>1. \A m : Running' = Running /\ Pending(m)' = Pending(m) /\ Marking(m)' = Marking(m)
  <2> SUFFICES ASSUME NEW m
               PROVE Running' = Running /\ Pending(m)' = Pending(m) /\ Marking(m)' = Marking(m)
    OBVIOUS
  <2>1. t \notin Pending(m) /\ t \notin Marking(m)
    BY DEF Pending, Marking
  <2> QED
    BY <2>1, CountsMove
<1> QED
  BY <1>1 DEF Counted, Numbers, Bounded

LEMMA LookUpCounts ==
  ASSUME Flight, Counted, NEW t \in Ticks, LookUp(t), tick[t].of \in Kinds
  PROVE  Counted'
<1>1. tick[t] \in Sweeps /\ tick[t].at = "log" /\ tick[t] # None /\ t \in Running
  BY FlightSteps DEF LookUp, On, Running
<1>2. UNCHANGED <<log, told, missed, peak>>
  BY DEF LookUp, history
<1>3. CASE Bucket(tick[t]) \in log
  <2> DEFINE e == After(tick[t])
  <2>1. Moves(t, e) /\ e.at \notin {"send", "expire", "mark"}
    BY <1>1, <1>3, AfterSpec DEF LookUp, Skip, Moves, Kinds
  <2> QED
    BY <1>1, <1>2, <2>1, IdleKeeps
<1>4. CASE Bucket(tick[t]) \notin log
  <2> DEFINE at == IF tick[t].of = "deleted" THEN "expire" ELSE "send"
             e == [tick[t] EXCEPT !.at = at]
             n == Message(tick[t])
  <2>1. Moves(t, e) /\ e.at = at /\ Message(e) = n
    BY <1>1, <1>4 DEF LookUp, Goto, Moves, Sweeps, Message
  <2>2. n \notin log
    BY <1>4 DEF Message, Bucket
  <2> HIDE DEF e, n
  <2>3. ASSUME NEW m \in Messages PROVE Bounded(m)'
    <3>1. t \notin Pending(m) /\ t \notin Marking(m)
      BY <1>1 DEF Pending, Marking
    <3>2. Marking(m)' = Marking(m)
      BY <2>1, <3>1, CountsMove
    <3>3. CASE m # n
      <4>1. Pending(m)' = Pending(m)
        BY <2>1, <3>1, <3>3, CountsMove
      <4> QED
        BY <1>2, <3>2, <4>1 DEF Counted, Bounded
    <3>4. CASE m = n
      <4>1. Pending(m)' = Pending(m) \cup {t}
        BY <2>1, <3>1, <3>4, CountsMove
      <4>2. Cardinality(Pending(m)') = Cardinality(Pending(m)) + 1
        BY <3>1, <4>1, Counts, FS_AddElement
      <4>3. told[m] <= missed + Cardinality(Marking(m))
        BY <2>2, <3>4 DEF Counted, Bounded
      <4>4. Cardinality(Pending(m)) + Cardinality(Marking(m)) + 1 <= peak
        BY <1>1, Counts DEF Counted, Numbers
      <4> QED
        BY <1>2, <3>2, <4>2, <4>3, <4>4, Counts DEF Counted, Numbers, Bounded
    <3> QED
      BY <3>3, <3>4
  <2>4. Running' = Running
    BY <2>1, CountsMove
  <2> QED
    BY <1>2, <2>3, <2>4 DEF Counted, Numbers
<1> QED
  BY <1>3, <1>4

LEMMA ExpireCounts ==
  ASSUME Flight, Counted, NEW t \in Ticks, Expire(t)
  PROVE  Counted'
<1> DEFINE e == [tick[t] EXCEPT !.at = "send"]
<1>1. tick[t] \in Sweeps /\ tick[t].at = "expire" /\ tick[t] # None /\ t \in Running
  BY FlightSteps DEF Expire, On, Running
<1>2. Moves(t, e) /\ e.at = "send" /\ Message(e) = Message(tick[t])
  BY <1>1 DEF Expire, Goto, Moves, Sweeps, Message
<1> HIDE DEF e
<1>3. ASSUME NEW m PROVE Pending(m)' = Pending(m) /\ Marking(m)' = Marking(m)
  <2>1. t \notin Marking(m) /\ (t \in Pending(m) <=> Message(tick[t]) = m)
    BY <1>1 DEF Pending, Marking
  <2> QED
    BY <1>2, <2>1, CountsMove
<1>4. Running' = Running
  BY <1>2, CountsMove
<1>5. UNCHANGED <<log, told, missed, peak>>
  BY DEF Expire, history
<1> QED
  BY <1>3, <1>4, <1>5 DEF Counted, Numbers, Bounded

(* A sweep that leaves the point of sending, for the log or for good.      *)
LEMMA SendCounts ==
  ASSUME Flight, Counted, NEW t \in Ticks, Send(t) \/ SendFails(t), tick[t].of \in Kinds
  PROVE  Counted'
<1> DEFINE n == Message(tick[t])
           e == IF Send(t) THEN [tick[t] EXCEPT !.at = "mark"] ELSE After(tick[t])
<1>1. tick[t] \in Sweeps /\ tick[t].at = "send" /\ tick[t] # None /\ t \in Running
  BY FlightSteps DEF Send, SendFails, On, Running
<1>2. n \in Messages
  BY <1>1, MessageType
<1>3. /\ Moves(t, e) /\ e.at \notin {"send", "expire"}
      /\ Send(t) => e.at = "mark" /\ Message(e) = n
      /\ ~Send(t) => e.at # "mark"
  <2>1. CASE Send(t)
    BY <1>1, <2>1 DEF Send, Goto, Moves, Sweeps, Message
  <2>2. CASE ~Send(t)
    BY <1>1, <2>2, AfterSpec DEF SendFails, Skip, Moves, Kinds
  <2> QED
    BY <2>1, <2>2
<1>4. /\ log' = log /\ peak' = peak
      /\ \/ Send(t) /\ told' = [told EXCEPT ![n] = @ + 1] /\ missed' = missed
         \/ ~Send(t) /\ told' = [told EXCEPT ![n] = @ + 1] /\ missed' = missed + 1
         \/ ~Send(t) /\ UNCHANGED <<told, missed>>
  BY DEF Send, SendFails, Tell
<1> HIDE DEF e, n
<1>5. /\ Numbers' /\ missed' >= missed
      /\ \A m \in Messages : m # n => told'[m] = told[m]
  BY <1>2, <1>4 DEF Counted, Numbers
<1>6. ASSUME NEW m \in Messages PROVE Bounded(m)'
  <2>1. t \notin Marking(m)
    BY <1>1 DEF Marking
  <2>2. CASE m # n
    <3>1. t \notin Pending(m)
      BY <2>2 DEF Pending, n
    <3>2. Pending(m)' = Pending(m) /\ Marking(m)' = Marking(m)
      BY <1>3, <2>1, <2>2, <3>1, CountsMove
    <3> QED
      BY <1>4, <1>5, <2>2, <3>2, Counts DEF Counted, Numbers, Bounded
  <2>3. CASE m = n
    <3>1. t \in Pending(m)
      BY <1>1, <2>3 DEF Pending, n
    <3>2. Pending(m)' = Pending(m) \ {t}
      BY <1>3, CountsMove
    <3>3. Cardinality(Pending(m)') = Cardinality(Pending(m)) - 1
      BY <3>1, <3>2, Counts, FS_RemoveElement
    <3>4. CASE Send(t)
      <4>1. Marking(m)' = Marking(m) \cup {t}
        BY <1>3, <2>1, <2>3, <3>4, CountsMove
      <4>2. Cardinality(Marking(m)') = Cardinality(Marking(m)) + 1
        BY <2>1, <4>1, Counts, FS_AddElement
      <4>3. told'[m] = told[m] + 1 /\ missed' = missed
        BY <1>2, <1>4, <2>3, <3>4 DEF Counted, Numbers
      <4> QED
        BY <1>4, <3>3, <4>2, <4>3, Counts DEF Counted, Numbers, Bounded
    <3>5. CASE ~Send(t)
      <4>1. Marking(m)' = Marking(m)
        BY <1>3, <2>1, <3>5, CountsMove
      <4>2. \/ told'[m] = told[m] + 1 /\ missed' = missed + 1
            \/ told'[m] = told[m] /\ missed' = missed
        BY <1>2, <1>4, <2>3, <3>5 DEF Counted, Numbers
      <4> QED
        BY <1>4, <3>3, <4>1, <4>2, Counts DEF Counted, Numbers, Bounded
    <3> QED
      BY <3>4, <3>5
  <2> QED
    BY <2>2, <2>3
<1>7. Running' = Running
  BY <1>3, CountsMove
<1> QED
  BY <1>4, <1>5, <1>6, <1>7 DEF Counted

(* A sweep that leaves the log, with its entry or without.                 *)
LEMMA MarkCounts ==
  ASSUME Flight, Counted, NEW t \in Ticks, Mark(t) \/ MarkFails(t), tick[t].of \in Kinds
  PROVE  Counted'
<1> DEFINE n == Message(tick[t])
           e == After(tick[t])
<1>1. tick[t] \in Sweeps /\ tick[t].at = "mark" /\ tick[t] # None /\ t \in Running
  BY FlightSteps DEF Mark, MarkFails, On, Running
<1>2. Moves(t, e) /\ e.at \notin {"send", "expire", "mark"}
  BY <1>1, AfterSpec DEF Mark, MarkFails, Skip, Moves, Kinds
<1>3. /\ told' = told /\ peak' = peak
      /\ \/ log' = log \cup {n} /\ missed' = missed
         \/ log' = log /\ missed' = missed + 1
  BY DEF Mark, MarkFails, history, Bucket, Message
<1> HIDE DEF e, n
<1>4. Numbers' /\ missed' >= missed
  BY <1>3 DEF Counted, Numbers
<1>5. ASSUME NEW m \in Messages PROVE Bounded(m)'
  <2>1. t \notin Pending(m)
    BY <1>1 DEF Pending
  <2>2. Pending(m)' = Pending(m)
    BY <1>2, <2>1, CountsMove
  <2>3. CASE m # n
    <3>1. t \notin Marking(m)
      BY <2>3 DEF Marking, n
    <3>2. Marking(m)' = Marking(m)
      BY <1>2, <3>1, CountsMove
    <3>3. m \notin log' => m \notin log
      BY <1>3
    <3> QED
      BY <1>3, <1>4, <2>2, <3>2, <3>3, Counts DEF Counted, Numbers, Bounded
  <2>4. CASE m = n
    <3>1. Marking(m)' = Marking(m) \ {t}
      BY <1>2, CountsMove
    <3>2. /\ Cardinality(Marking(m)') \in Nat
          /\ Cardinality(Marking(m)') >= Cardinality(Marking(m)) - 1
      <4>1. IsFiniteSet(Marking(m)) /\ Cardinality(Marking(m)) \in Nat
        BY Counts
      <4>2. t \in Marking(m)
        BY <1>1, <2>4 DEF Marking, n
      <4>3. /\ IsFiniteSet(Marking(m)')
            /\ Cardinality(Marking(m)') = Cardinality(Marking(m)) - 1
        BY <3>1, <4>1, <4>2, FS_RemoveElement
      <4> QED
        BY <4>1, <4>3, FS_CardinalityType
    <3>3. m \notin log' => m \notin log /\ missed' = missed + 1
      BY <1>3, <2>4
    <3> QED
      BY <1>3, <1>4, <2>2, <3>2, <3>3, Counts DEF Counted, Numbers, Bounded
  <2> QED
    BY <2>3, <2>4
<1>6. Running' = Running
  BY <1>2, CountsMove
<1> QED
  BY <1>3, <1>4, <1>5, <1>6 DEF Counted

(* The episode is over: its count starts again, also if its entry stays.   *)
LEMMA ClearCounts ==
  ASSUME Flight, Counted, NEW t \in Ticks, Clear(t) \/ ClearFails(t), tick[t].of \in Kinds
  PROVE  Counted'
<1> DEFINE n == Message(tick[t])
           e == After(tick[t])
<1>1. tick[t] \in Sweeps /\ tick[t].at = "clear" /\ tick[t] # None
  BY FlightSteps DEF Clear, ClearFails, On
<1>2. Moves(t, e) /\ e.at \notin {"send", "expire", "mark"}
  BY <1>1, AfterSpec DEF Clear, ClearFails, Skip, Moves, Kinds
<1>3. /\ n \in Messages
      /\ log' = log \ {n} \/ log' = log
      /\ told' = [told EXCEPT ![n] = 0] /\ UNCHANGED <<missed, peak>>
  BY <1>1, MessageType DEF Clear, ClearFails, Bucket, Message
<1> HIDE DEF e, n
<1>4. Numbers'
  BY <1>3 DEF Counted, Numbers
<1>5. ASSUME NEW m \in Messages PROVE Bounded(m)'
  <2>1. Pending(m)' = Pending(m) /\ Marking(m)' = Marking(m)
    <3>1. t \notin Pending(m) /\ t \notin Marking(m)
      BY <1>1 DEF Pending, Marking
    <3> QED
      BY <1>2, <3>1, CountsMove
  <2>2. CASE m # n
    BY <1>3, <2>1, <2>2 DEF Counted, Numbers, Bounded
  <2>3. CASE m = n
    <3>1. told'[m] = 0
      BY <1>3, <2>3 DEF Counted, Numbers
    <3>2. Cardinality(Pending(m)) <= peak
      BY Counts DEF Counted, Numbers
    <3> QED
      BY <1>3, <2>1, <3>1, <3>2, Counts DEF Counted, Numbers, Bounded
  <2> QED
    BY <2>2, <2>3
<1>6. Running' = Running
  BY <1>2, CountsMove
<1> QED
  BY <1>3, <1>4, <1>5, <1>6 DEF Counted

(* A sweep starts by reading: it has nothing to send yet.                  *)
LEMMA BeginCounts ==
  ASSUME Account, Flight, Counted, NEW t \in Ticks, Begin(t)
  PROVE  Counted'
<1> DEFINE d == [s |-> row, of |-> "start", at |-> "sync"]
           e == First
<1>1. d \in Sweeps /\ d.of = "start" /\ d.at = "sync"
  BY DEF Account, Sweeps
<1>2. e \in Sweeps /\ e.at \notin {"send", "expire", "mark"}
  <2>1. CASE crowded
    BY <1>1, <2>1 DEF First, Sweeps
  <2>2. CASE ~crowded
    BY <1>1, <2>2, AfterSpec DEF First
  <2> QED
    BY <2>1, <2>2
<1>3. /\ tick' = [tick EXCEPT ![t] = e] /\ tick[t] = None
      /\ UNCHANGED <<log, told, missed>>
      /\ peak' = IF Cardinality(Running) < peak THEN peak ELSE Cardinality(Running) + 1
  BY DEF Begin
<1> HIDE DEF e
<1>4. \A u \in Ticks : tick'[u] = IF u = t THEN e ELSE tick[u]
  BY <1>3 DEF Flight
<1>5. e # None
  BY <1>2, NoneAssumption
<1>6. t \notin Running /\ Running' = Running \cup {t}
  BY <1>3, <1>4, <1>5 DEF Running
<1>7. Cardinality(Running') = Cardinality(Running) + 1
  <2>1. IsFiniteSet(Running)
    BY Counts
  <2> QED
    BY <1>6, <2>1, FS_AddElement
<1>8. peak' \in Nat /\ peak' >= peak /\ Cardinality(Running') <= peak'
  BY <1>3, <1>7, Counts DEF Counted, Numbers
<1>9. ASSUME NEW m \in Messages PROVE Bounded(m)'
  <2>1. \A u \in Running : Message(tick[u])' = Message(tick[u])
    BY <1>4, <1>6 DEF Running, Message
  <2>2. Pending(m)' = Pending(m) /\ Marking(m)' = Marking(m)
    BY <1>2, <1>4, <1>6, <2>1 DEF Pending, Marking, Running
  <2> QED
    BY <1>3, <1>8, <2>2, Counts DEF Counted, Numbers, Bounded
<1> QED
  BY <1>3, <1>8, <1>9 DEF Counted, Numbers

(* What ends a sweep that counts for nothing, or all of them: those that   *)
(* had sent and not logged count as unlogged.                              *)
LEMMA EndCounts ==
  ASSUME Flight, Counted, (\E t \in Ticks : Finish(t)) \/ Restart
  PROVE  Counted'
<1>1. CASE \E t \in Ticks : Finish(t)
  <2>1. PICK t \in Ticks : Finish(t)
    BY <1>1
  <2>2. /\ tick' = [tick EXCEPT ![t] = None] /\ tick[t].at = "last"
        /\ UNCHANGED <<log, told, missed, peak>>
    BY <2>1 DEF Finish, On, history
  <2>3. \A u \in Ticks : tick'[u] = IF u = t THEN None ELSE tick[u]
    BY <2>2 DEF Flight
  <2>4. Running' = Running \ {t}
    BY <2>3 DEF Running
  <2>5. ASSUME NEW m PROVE Pending(m)' = Pending(m) /\ Marking(m)' = Marking(m)
    <3>1. \A u \in Running' : Message(tick[u])' = Message(tick[u])
      BY <2>3, <2>4 DEF Running, Message
    <3> QED
      BY <2>2, <2>3, <2>4, <3>1 DEF Pending, Marking, Running
  <2>6. Cardinality(Running') <= peak
    <3>1. IsFiniteSet(Running) /\ Cardinality(Running) \in Nat
      BY Counts
    <3>2. Running' \subseteq Running
      BY <2>4
    <3>3. Cardinality(Running') <= Cardinality(Running) /\ IsFiniteSet(Running')
      BY <3>1, <3>2, FS_Subset
    <3>4. Cardinality(Running') \in Nat
      BY <3>3, FS_CardinalityType
    <3> QED
      BY <3>1, <3>3, <3>4 DEF Counted, Numbers
  <2> QED
    BY <2>2, <2>5, <2>6 DEF Counted, Numbers, Bounded
<1>2. CASE Restart
  <2> DEFINE lost == {t \in Running : tick[t].at = "mark"}
  <2>1. /\ tick' = [t \in Ticks |-> None] /\ missed' = missed + Cardinality(lost)
        /\ UNCHANGED <<log, told, peak>>
    BY <1>2 DEF Restart
  <2>2. IsFiniteSet(lost) /\ Cardinality(lost) \in Nat
    BY Counts, FS_Subset, FS_CardinalityType
  <2>3. Running' = {}
    BY <2>1 DEF Running
  <2>4. ASSUME NEW m \in Messages PROVE Bounded(m)'
    <3>1. Pending(m)' = {} /\ Marking(m)' = {}
      BY <2>3 DEF Pending, Marking
    <3>2. Cardinality(Pending(m)') = 0 /\ Cardinality(Marking(m)') = 0
      BY <3>1, FS_EmptySet
    <3>3. Cardinality(Marking(m)) <= Cardinality(lost)
      <4>1. Marking(m) \subseteq lost
        BY DEF Marking
      <4> QED
        BY <2>2, <4>1, FS_Subset
    <3> QED
      BY <2>1, <2>2, <3>2, <3>3, Counts DEF Counted, Numbers, Bounded
  <2>5. Cardinality(Running') = 0
    BY <2>3, FS_EmptySet
  <2> QED
    BY <2>1, <2>2, <2>4, <2>5 DEF Counted, Numbers
<1> QED
  BY <1>1, <1>2

LEMMA CountedInitially == Init => Counted
<1> SUFFICES ASSUME Init PROVE Counted
  OBVIOUS
<1>1. Running = {}
  BY DEF Init, Running
<1>2. \A m : Pending(m) = {} /\ Marking(m) = {}
  BY <1>1 DEF Pending, Marking
<1> QED
  BY <1>1, <1>2, FS_EmptySet DEF Init, Counted, Numbers, Bounded

LEMMA CountedInductive == TypeInv /\ Counted /\ [Next]_vars => Counted'
<1> SUFFICES ASSUME TypeInv, Counted, [Next]_vars PROVE Counted'
  OBVIOUS
<1>1. ASSUME NEW t \in Ticks,
             Ask(t) \/ Unanswered(t) \/ Clear(t) \/ ClearFails(t) \/ LookUp(t) \/ Expire(t)
               \/ Send(t) \/ SendFails(t) \/ Mark(t) \/ MarkFails(t)
      PROVE  tick[t] \in Sweeps /\ tick[t] # None /\ tick[t].of \in Kinds
  <2>1. tick[t] # None /\ tick[t].at \notin {"sync", "last"}
    BY <1>1 DEF Ask, Unanswered, Clear, ClearFails, LookUp, Expire, Send, SendFails, Mark, MarkFails, On
  <2>2. tick[t] \in Sweeps /\ Ordered(tick[t])
    BY <2>1, FlightSteps DEF TypeInv
  <2> QED
    BY <2>1, <2>2 DEF Ordered, Sweeps
<1>2. ASSUME NEW t \in Ticks, Ask(t) \/ Unanswered(t) PROVE Counted'
  <2> DEFINE e(at) == [tick[t] EXCEPT !.at = at]
  <2>1. /\ tick[t].at = "ask" /\ UNCHANGED <<log, told, missed, peak>>
        /\ Skip(t) \/ Goto(t, "log") \/ Goto(t, "clear")
    BY <1>2 DEF Ask, Unanswered, On, history
  <2>2. CASE Skip(t)
    <3>1. Moves(t, After(tick[t])) /\ After(tick[t]).at \notin {"send", "expire", "mark"}
      BY <1>1, <1>2, <2>2, AfterSpec DEF Skip, Moves, Kinds
    <3> QED
      BY <2>1, <3>1, IdleKeeps DEF TypeInv
  <2>3. ASSUME NEW at \in {"log", "clear"}, Goto(t, at) PROVE Counted'
    <3>1. Moves(t, e(at)) /\ e(at).at = at
      BY <1>1, <1>2, <2>3 DEF Goto, Moves, Sweeps
    <3> HIDE DEF e
    <3> QED
      BY <2>1, <3>1, IdleKeeps DEF TypeInv
  <2> QED
    BY <2>1, <2>2, <2>3
<1>3. ASSUME NEW t \in Ticks, Sync(t) PROVE Counted'
  <2> DEFINE d == [tick[t] EXCEPT !.s.ends = row'.ends, !.s.waiting = row'.waiting]
  <2>1. /\ tick[t] # None /\ tick[t].at = "sync"
        /\ tick[t] \in Sweeps /\ Ordered(tick[t])
    BY <1>3, FlightSteps DEF Sync, On, TypeInv
  <2>2. row' \in Rows
    <3>1. row.waiting /\ client # NoClient /\ client.exp > 0 => client.exp \in Days
      BY DayAssumption DEF TypeInv, Account
    <3> QED
      BY <1>3, <3>1 DEF Sync, TypeInv, Account, Rows
  <2>3. d \in Sweeps /\ d.of # "end"
    BY <2>1, <2>2 DEF Sweeps, Rows, Ordered
  <2>4. Moves(t, After(d)) /\ After(d).at \notin {"send", "expire", "mark"}
    BY <1>3, <2>1, <2>3, AfterSpec DEF Sync, Moves
  <2>5. UNCHANGED <<log, told, missed, peak>>
    BY <1>3 DEF Sync, history
  <2> QED
    BY <2>1, <2>4, <2>5, IdleKeeps DEF TypeInv
<1>4. ASSUME NEW t \in Ticks,
             Clear(t) \/ ClearFails(t) \/ LookUp(t) \/ Expire(t) \/ Send(t) \/ SendFails(t)
               \/ Mark(t) \/ MarkFails(t)
      PROVE  Counted'
  BY <1>1, <1>4, LookUpCounts, ExpireCounts, SendCounts, MarkCounts, ClearCounts DEF TypeInv
<1>5. ASSUME NEW t \in Ticks, Begin(t) \/ Finish(t) PROVE Counted'
  BY <1>5, BeginCounts, EndCounts DEF TypeInv
<1>6. CASE Restart
  BY <1>6, EndCounts DEF TypeInv
<1>7. CASE RenewClient \/ RenewRow \/ PanelActs \/ Crowd \/ Day \/ UNCHANGED vars
  <2>1. UNCHANGED <<log, tick, told, missed, peak>>
    BY <1>7 DEF RenewClient, RenewRow, PanelActs, Crowd, Day, vars, history
  <2>2. \A m : Running' = Running /\ Pending(m)' = Pending(m) /\ Marking(m)' = Marking(m)
    BY <2>1 DEF Running, Pending, Marking, Message
  <2> QED
    BY <2>1, <2>2 DEF Counted, Numbers, Bounded
<1> QED
  BY <1>2, <1>3, <1>4, <1>5, <1>6, <1>7 DEF Next, Proceed, Fails

(* No message is told more often than sweeps were in flight together and   *)
(* messages went out unlogged, for any number of sweeps.                   *)
THEOREM ToldAtMost == Spec => []ToldOnce
<1>1. TypeInv /\ Counted => ToldOnce
  BY Counts DEF Counted, Numbers, Bounded, ToldOnce
<1> QED
  BY Initial, Inductive, CountedInitially, CountedInductive, <1>1, PTL DEF Spec
=============================================================================
