-------------------------- MODULE SettlementProofs --------------------------
(* Theorems about buying on negative credit, for any accounts, prices,     *)
(* limit, grace period and number of requests in flight.                   *)
EXTENDS Settlement, TLAPS

Values ==
  /\ balance \in Int /\ now \in Nat /\ requests \in Nat /\ faults \in Nat
  /\ excuse \in {"none", "bare", "late", "failed"} /\ astray \in SUBSET Accounts

Flags ==
  /\ unsettled \in [Accounts -> BOOLEAN]
  /\ deadline \in [Accounts -> Nat \cup {NoDeadline}]
  /\ held \in [Accounts -> BOOLEAN]

State == active \in [Accounts -> BOOLEAN] /\ enabled \in [Accounts -> BOOLEAN]

Handling ==
  /\ pc \in [Handlers -> Labels]
  /\ on \in [Handlers -> Accounts \cup {NoAccount}]
  /\ row \in [Handlers -> Rows]
  /\ turnOn \in [Handlers -> BOOLEAN]
  /\ \A h \in Handlers : pc[h] \notin {"idle", "clear"} => on[h] \in Accounts

Timer ==
  /\ cron \in {"idle", "panel", "row", "hold"}
  /\ due \in SUBSET Accounts
  /\ target \in Accounts \cup {NoAccount}
  /\ cron \in {"row", "hold"} => target \in Accounts

TypeInv == Values /\ Flags /\ State /\ Handling /\ Timer

\* Flags follow the balance but between the movement of money and the write that
\* is due to it; a request that still has to write is the one that answers for it.
Settled ==
  balance >= 0 /\ (\A h \in Handlers : pc[h] # "clear") =>
    \A s \in Accounts : unsettled[s] => s \in astray

Indebted ==
  balance < 0 /\ excuse = "none" /\ (\A h \in Handlers : pc[h] \notin Buying) =>
    \E s \in Accounts : unsettled[s]

AccountInv == Settled /\ Indebted

-----------------------------------------------------------------------------
(* The ways a request moves.                                               *)
LEMMA FinishType == ASSUME Handling, NEW h \in Handlers, Finish(h) PROVE Handling'
<1>1. EmptyRow \in Rows /\ "idle" \in Labels
  BY DEF EmptyRow, Rows, Labels
<1> QED
  BY <1>1 DEF Handling, Finish

LEMMA GotoType ==
  ASSUME Handling, NEW h \in Handlers, NEW at \in Labels, Goto(h, at),
         on[h] \in Accounts, row' \in [Handlers -> Rows], turnOn' \in [Handlers -> BOOLEAN]
  PROVE  Handling'
BY DEF Handling, Goto

LEMMA EnterType ==
  ASSUME Handling, Values, NEW h \in Handlers, NEW s \in Accounts, NEW at \in Labels,
         Enter(h, s, at), row' \in [Handlers -> Rows], UNCHANGED turnOn
  PROVE  Handling' /\ requests' \in Nat
<1>1. pc' = [pc EXCEPT ![h] = at] /\ on' = [on EXCEPT ![h] = s]
      /\ requests' = requests + 1
  BY DEF Enter, Arrive
<1>2. Handling'
  BY <1>1 DEF Handling
<1> QED
  BY <1>1, <1>2 DEF Values

LEMMA TypeInitial == Init => TypeInv
<1> SUFFICES ASSUME Init PROVE TypeInv
  OBVIOUS
<1>1. EmptyRow \in Rows /\ "idle" \in Labels
  BY DEF EmptyRow, Rows, Labels
<1>2. Values
  <2>1. balance = 0 /\ now = 0 /\ requests = 0 /\ faults = 0
    BY DEF Init
  <2>2. excuse = "none" /\ astray = {}
    BY DEF Init
  <2> QED
    BY <2>1, <2>2 DEF Values
<1>6. Timer
  BY DEF Init, Timer
<1>5. State
  BY DEF Init, State
<1>4. Flags
  BY DEF Init, Flags
<1>3. Handling
  BY <1>1 DEF Init, Handling
<1> QED
  BY <1>2, <1>3, <1>4, <1>5, <1>6 DEF TypeInv

LEMMA StartType == ASSUME TypeInv, NEW h \in Handlers, Start(h) PROVE TypeInv'
<1> USE DEF TypeInv
<1>1. CASE TopUp(h) \/ Deduct(h)
  <2>1. PICK amount \in Int : Adjust(h, amount)
    BY <1>1, SumsAssumption DEF TopUp, Deduct
  <2>2. Values'
    BY <2>1 DEF Adjust, Arrive, Bare, Values
  <2>3. Handling'
    BY <2>1 DEF Adjust, Handling, Labels
  <2> QED
    BY <2>1, <2>2, <2>3 DEF Adjust, Flags, State, Timer, flags, state, timer
<1>2. ASSUME NEW s \in Accounts, Buy(h, s) PROVE TypeInv'
  <2>1. PICK price \in Sums, at \in {"buyPanel", "balance"} :
          /\ Enter(h, s, at) /\ Keep /\ balance' = balance - price
          /\ excuse' = IF balance >= 0 THEN "none" ELSE excuse
          /\ UNCHANGED <<flags, state, timer, astray, now, faults>>
    BY <1>2 DEF Buy
  <2>2. Handling' /\ requests' \in Nat
    BY <2>1, EnterType DEF Keep, Labels, Handling
  <2>3. Values'
    BY <2>1, <2>2, SumsAssumption DEF Values
  <2> QED
    BY <2>1, <2>2, <2>3 DEF Flags, State, Timer, flags, state, timer
<1>5. CASE BuyByHand(h)
  <2>1. PICK price \in Sums :
          /\ Arrive(h) /\ balance' = balance - price /\ excuse' = Bare
          /\ UNCHANGED <<handling, flags, state, timer, astray, now, faults>>
    BY <1>5 DEF BuyByHand
  <2>2. Values'
    BY <2>1, SumsAssumption DEF Arrive, Bare, Values
  <2> QED
    BY <2>1, <2>2 DEF Handling, Flags, State, Timer, handling, flags, state, timer
<1>3. ASSUME NEW s \in Accounts, RenewByCard(h, s) PROVE TypeInv'
  <2>1. Handling' /\ requests' \in Nat
    BY <1>3, EnterType DEF RenewByCard, Keep, Labels, Handling
  <2> QED
    BY <1>3, <2>1 DEF RenewByCard, Values, Flags, State, Timer, flags, state, timer
<1>4. ASSUME NEW s \in Accounts, Toggle(h, s) PROVE TypeInv'
  <2>1. [unsettled |-> unsettled[s], held |-> held[s], deadline |-> deadline[s]] \in Rows
    BY DEF Rows, Flags
  <2>2. Handling' /\ requests' \in Nat
    BY <1>4, <2>1, EnterType DEF Toggle, Labels, Handling
  <2> QED
    BY <1>4, <2>2 DEF Toggle, Values, Flags, State, Timer, flags, state, timer
<1> QED
  BY <1>1, <1>2, <1>3, <1>4, <1>5 DEF Start

LEMMA ProceedType ==
  ASSUME TypeInv, NEW h \in Handlers, Proceed(h) \/ RequestFails(h) PROVE TypeInv'
<1> USE DEF TypeInv
<1>1. pc[h] \notin {"idle", "clear"} => on[h] \in Accounts
  BY DEF Handling
<1>2. CASE RenewClient(h) \/ SwitchClient(h)
  <2>1. on[h] \in Accounts /\ \E at \in Labels : Goto(h, at) /\ Keep
    BY <1>1, <1>2 DEF RenewClient, SwitchClient, Labels
  <2>2. Handling'
    BY <2>1, GotoType DEF Keep, Handling
  <2>3. State'
    BY <1>2 DEF RenewClient, SwitchClient, State, Handling
  <2> QED
    BY <1>2, <2>2, <2>3
    DEF RenewClient, SwitchClient, Values, Flags, Timer, flags, timer, history
<1>3. CASE RenewRow(h) \/ SwitchRow(h)
  <2>1. Handling'
    BY <1>1, <1>3, FinishType, GotoType DEF RenewRow, SwitchRow, Keep, Labels, Handling
  <2>2. State'
    BY <1>3 DEF RenewRow, SwitchRow, State, Handling
  <2> QED
    BY <1>3, <2>1, <2>2 DEF RenewRow, SwitchRow, Values, Flags, Timer, flags, timer, history
<1>4. CASE ReadBalance(h) \/ CheckMayEnable(h)
  <2>1. Handling'
    BY <1>1, <1>4, FinishType, GotoType
    DEF ReadBalance, CheckMayEnable, Keep, Labels, Handling
  <2> QED
    BY <1>4, <2>1
    DEF ReadBalance, CheckMayEnable, Values, Flags, State, Timer, flags, state, timer, history
<1>5. CASE ReadClient(h)
  <2>1. Handling'
    BY <1>1, <1>5, GotoType DEF ReadClient, Labels, Handling
  <2> QED
    BY <1>5, <2>1 DEF ReadClient, Values, Flags, State, Timer, flags, state, timer, history
<1>6. CASE Mark(h) \/ Clear(h)
  <2>1. Handling'
    BY <1>6, FinishType DEF Mark, Clear
  <2>2. CASE Mark(h)
    <3>1. now + Grace \in Nat /\ on[h] \in Accounts
      BY <1>1, <2>2, TimeAssumption DEF Mark, Values
    <3>2. Values'
      BY <2>2, <3>1 DEF Mark, Values
    <3> QED
      BY <2>1, <2>2, <3>1, <3>2 DEF Mark, Flags, State, Timer, state, timer
  <2>3. CASE Clear(h)
    <3>1. unsettled' \in [Accounts -> BOOLEAN] /\ held' \in [Accounts -> BOOLEAN]
      BY <2>3 DEF Clear
    <3>2. deadline' \in [Accounts -> Nat \cup {NoDeadline}]
      BY <2>3 DEF Clear, Flags
    <3>3. Values'
      BY <2>3 DEF Clear, Values
    <3> QED
      BY <2>1, <2>3, <3>1, <3>2, <3>3 DEF Clear, Flags, State, Timer, state, timer
  <2> QED
    BY <1>6, <2>2, <2>3
<1>7. CASE RequestFails(h)
  <2>1. Handling'
    BY <1>7, FinishType DEF RequestFails
  <2>2. Values'
    BY <1>7 DEF RequestFails, Abandons, Values
  <2> QED
    BY <1>7, <2>1, <2>2 DEF RequestFails, Flags, State, Timer, flags, state, timer
<1> QED
  BY <1>2, <1>3, <1>4, <1>5, <1>6, <1>7 DEF Proceed

LEMMA TimerType ==
  ASSUME TypeInv, Cron \/ (\E s \in Accounts : DisableFails(s)) \/ Crash \/ Tick
  PROVE  TypeInv'
<1> USE DEF TypeInv
<1>1. CASE FindDue
  BY <1>1 DEF FindDue, Values, Flags, State, Handling, Timer, flags, state, handling, history
<1>2. ASSUME NEW s \in Accounts, DisableClient(s) PROVE TypeInv'
  <2>1. State' /\ Timer'
    BY <1>2 DEF DisableClient, State, Timer
  <2> QED
    BY <1>2, <2>1 DEF DisableClient, Values, Flags, Handling, flags, handling, history
<1>3. CASE DisableRow
  <2>1. State' /\ Timer'
    BY <1>3 DEF DisableRow, State, Timer
  <2> QED
    BY <1>3, <2>1 DEF DisableRow, Values, Flags, Handling, flags, handling, history
<1>4. CASE Hold
  <2>1. State' /\ Timer' /\ Flags'
    BY <1>4 DEF Hold, NextDue, State, Timer, Flags
  <2> QED
    BY <1>4, <2>1 DEF Hold, Values, Handling, handling, history
<1>5. ASSUME NEW s \in Accounts, DisableFails(s) PROVE TypeInv'
  <2>1. Timer'
    BY <1>5 DEF DisableFails, NextDue, Timer
  <2> QED
    BY <1>5, <2>1 DEF DisableFails, Values, Flags, State, Handling, flags, state, handling
<1>6. CASE Crash
  <2>1. EmptyRow \in Rows /\ "idle" \in Labels
    BY DEF EmptyRow, Rows, Labels
  <2>2. Handling' /\ Timer'
    BY <1>6, <2>1 DEF Crash, Handling, Timer
  <2>3. Values'
    BY <1>6 DEF Crash, Abandons, Values
  <2> QED
    BY <1>6, <2>2, <2>3 DEF Crash, Flags, State, flags, state
<1>7. CASE Tick
  BY <1>7 DEF Tick, Values, Flags, State, Handling, Timer, flags, state, handling, timer
<1> QED
  BY <1>1, <1>2, <1>3, <1>4, <1>5, <1>6, <1>7 DEF Cron

LEMMA TypeInductive == TypeInv /\ [Next]_vars => TypeInv'
<1> SUFFICES ASSUME TypeInv, [Next]_vars PROVE TypeInv'
  OBVIOUS
<1>1. CASE UNCHANGED vars
  BY <1>1 DEF vars, flags, state, handling, timer, history,
              TypeInv, Values, Flags, State, Handling, Timer
<1> QED
  BY <1>1, StartType, ProceedType, TimerType DEF Next

-----------------------------------------------------------------------------
(* Debt and flags.                                                         *)

\* A request that stands still through a step answers for what it did before.
LEMMA StartAccounts ==
  ASSUME TypeInv, AccountInv, NEW h \in Handlers, Start(h) PROVE AccountInv'
<1> USE DEF TypeInv, AccountInv, Settled, Indebted
<1>1. balance \in Int /\ pc[h] = "idle" /\ pc \in [Handlers -> Labels]
  BY DEF Start, TopUp, Deduct, Adjust, BuyByHand, Buy, RenewByCard, Toggle, Enter, Arrive,
         Values, Handling
<1>2. UNCHANGED <<unsettled, astray>>
  BY DEF Start, TopUp, Deduct, Adjust, BuyByHand, Buy, RenewByCard, Toggle, flags
<1>3. \A at : pc' = [pc EXCEPT ![h] = at] =>
        \A k \in Handlers : pc'[k] = IF k = h THEN at ELSE pc[k]
  BY <1>1
<1>4. CASE TopUp(h) \/ Deduct(h)
  <2>1. PICK amount \in Int : Adjust(h, amount)
    BY <1>4, SumsAssumption DEF TopUp, Deduct
  <2>2. /\ balance' = balance + amount
        /\ pc' = [pc EXCEPT ![h] = IF balance' >= 0 THEN "clear" ELSE "idle"]
        /\ excuse' = IF balance >= 0 /\ balance' < 0 THEN "bare" ELSE excuse
    BY <2>1 DEF Adjust, Bare
  <2> QED
    BY <1>1, <1>2, <1>3, <2>2 DEF Buying
<1>5. ASSUME NEW s \in Accounts, Buy(h, s) PROVE AccountInv'
  <2>1. PICK price \in Sums, at \in {"buyPanel", "balance"} :
          /\ balance' = balance - price /\ Enter(h, s, at)
    BY <1>5 DEF Buy
  <2>2. pc'[h] \in Buying
    BY <1>1, <2>1 DEF Enter, Buying
  <2>3. \A k \in Handlers : pc[k] = "clear" => pc'[k] = "clear"
    BY <1>1, <2>1 DEF Enter
  <2> QED
    BY <1>1, <1>2, <2>1, <2>2, <2>3, SumsAssumption
<1>6. CASE BuyByHand(h)
  <2>1. PICK price \in Sums :
          /\ balance' = balance - price /\ pc' = pc
          /\ excuse' = IF balance >= 0 /\ balance' < 0 THEN "bare" ELSE excuse
    BY <1>6 DEF BuyByHand, Bare, handling
  <2> QED
    BY <1>1, <1>2, <2>1, SumsAssumption
<1>7. ASSUME NEW s \in Accounts, RenewByCard(h, s) \/ Toggle(h, s) PROVE AccountInv'
  <2>1. /\ UNCHANGED <<balance, excuse>>
        /\ \E at \in {"cardPanel", "client"} : pc' = [pc EXCEPT ![h] = at]
    BY <1>7 DEF RenewByCard, Toggle, Enter
  <2> QED
    BY <1>1, <1>2, <1>3, <2>1 DEF Buying
<1> QED
  BY <1>4, <1>5, <1>6, <1>7 DEF Start

LEMMA ProceedAccounts ==
  ASSUME TypeInv, AccountInv, NEW h \in Handlers, Proceed(h) PROVE AccountInv'
<1> USE DEF TypeInv, AccountInv, Settled, Indebted
<1>1. /\ balance' = balance /\ balance \in Int /\ pc \in [Handlers -> Labels]
      /\ pc[h] # "idle"
  BY DEF Proceed, RenewClient, RenewRow, ReadBalance, Mark, Clear, ReadClient,
         CheckMayEnable, SwitchClient, SwitchRow, history, Values, Handling
<1>2. \A at : pc' = [pc EXCEPT ![h] = at] =>
        \A k \in Handlers : pc'[k] = IF k = h THEN at ELSE pc[k]
  BY <1>1
<1>3. CASE Mark(h)
  <2>1. on[h] \in Accounts /\ unsettled' = [unsettled EXCEPT ![on[h]] = TRUE]
    BY <1>3 DEF Mark, Handling
  <2>2. unsettled'[on[h]]
    BY <2>1 DEF Flags
  <2>3. pc[h] = "mark" /\ pc' = [pc EXCEPT ![h] = "idle"]
    BY <1>3 DEF Mark, Finish
  <2>4. \A k \in Handlers : pc[k] = "clear" => pc'[k] = "clear"
    BY <1>2, <2>3
  <2>5. balance >= 0 => astray' = astray \cup {on[h]}
    BY <1>1, <1>3 DEF Mark
  <2>6. \A s \in Accounts : unsettled'[s] => unsettled[s] \/ s = on[h]
    BY <2>1 DEF Flags
  <2> QED
    BY <1>1, <2>1, <2>2, <2>4, <2>5, <2>6
<1>4. CASE Clear(h)
  <2>1. /\ \A s \in Accounts : ~unsettled'[s]
        /\ excuse' = IF balance < 0 THEN "late" ELSE excuse
    BY <1>4 DEF Clear
  <2> QED
    BY <1>1, <2>1
<1>5. CASE ReadBalance(h)
  <2>1. /\ pc[h] = "balance"
        /\ pc' = [pc EXCEPT ![h] = IF balance < 0 THEN "mark" ELSE "idle"]
        /\ UNCHANGED <<unsettled, excuse, astray>>
    BY <1>5 DEF ReadBalance, Goto, Finish, flags, history
  <2> QED
    BY <1>1, <1>2, <2>1 DEF Buying
<1>6. CASE RenewClient(h) \/ RenewRow(h)
  <2>1. /\ UNCHANGED <<unsettled, excuse, astray>>
        /\ pc[h] \in {"buyPanel", "buyRow", "cardPanel", "cardRow"}
        /\ \E at \in (IF pc[h] \in Buying THEN {"buyRow", "balance"} ELSE {"cardRow", "idle"}) :
              pc' = [pc EXCEPT ![h] = at]
    BY <1>6 DEF RenewClient, RenewRow, Goto, Finish, flags, history, Buying
  <2> QED
    BY <1>1, <1>2, <2>1 DEF Buying
<1>7. CASE ReadClient(h) \/ CheckMayEnable(h) \/ SwitchClient(h) \/ SwitchRow(h)
  <2>1. /\ UNCHANGED <<unsettled, excuse, astray>>
        /\ pc[h] \in {"client", "check", "switch", "switchRow"}
        /\ \E at \in {"check", "switch", "switchRow", "idle"} : pc' = [pc EXCEPT ![h] = at]
    BY <1>7 DEF ReadClient, CheckMayEnable, SwitchClient, SwitchRow, Goto, Finish, flags,
               history
  <2> QED
    BY <1>1, <1>2, <2>1 DEF Buying
<1> QED
  BY <1>3, <1>4, <1>5, <1>6, <1>7 DEF Proceed

LEMMA AbandonAccounts ==
  ASSUME TypeInv, AccountInv, (\E h \in Handlers : RequestFails(h)) \/ Crash
  PROVE  AccountInv'
<1> USE DEF TypeInv, AccountInv, Settled, Indebted
<1>1. PICK H \in SUBSET Handlers :
        /\ Abandons(H)
        /\ \A k \in Handlers : pc'[k] = IF k \in H THEN "idle" ELSE pc[k]
  <2>1. ASSUME NEW h \in Handlers, RequestFails(h) PROVE Abandons({h})
                /\ \A k \in Handlers : pc'[k] = IF k \in {h} THEN "idle" ELSE pc[k]
    BY <2>1 DEF RequestFails, Finish, Handling
  <2>2. ASSUME Crash PROVE Abandons(Handlers) /\ \A k \in Handlers : pc'[k] = "idle"
    BY <2>2 DEF Crash
  <2> QED
    BY <2>1, <2>2
<1>2. UNCHANGED <<balance, unsettled>> /\ balance \in Int
  BY DEF RequestFails, Crash, flags, Values
<1>3. Settled'
  <2> SUFFICES ASSUME balance >= 0, \A h \in Handlers : pc'[h] # "clear",
                      NEW s \in Accounts, unsettled[s]
               PROVE  s \in astray'
    BY <1>2
  <2>1. CASE \E h \in H : pc[h] = "clear"
    BY <1>1, <2>1 DEF Abandons
  <2>2. CASE ~\E h \in H : pc[h] = "clear"
    BY <1>1, <2>2 DEF Abandons
  <2> QED
    BY <2>1, <2>2
<1>4. Indebted'
  <2> SUFFICES ASSUME balance < 0, excuse' = "none",
                      \A h \in Handlers : pc'[h] \notin Buying
               PROVE  \E s \in Accounts : unsettled[s]
    BY <1>2
  <2>1. ~(\E h \in H : pc[h] \in Buying) /\ excuse = "none"
    BY <1>1 DEF Abandons
  <2> QED
    BY <1>1, <2>1
<1> QED
  BY <1>3, <1>4

LEMMA AccountsKept == ASSUME TypeInv, AccountInv, [Next]_vars PROVE AccountInv'
<1>1. CASE Cron \/ (\E s \in Accounts : DisableFails(s)) \/ Tick \/ UNCHANGED vars
  <2>1. UNCHANGED <<pc, excuse, astray, balance, unsettled>>
    BY <1>1 DEF Cron, FindDue, DisableClient, DisableRow, Hold, DisableFails, Tick, vars,
                flags, handling, history
  <2> QED
    BY <2>1 DEF AccountInv, Settled, Indebted
<1> QED
  BY <1>1, StartAccounts, ProceedAccounts, AbandonAccounts DEF Next

LEMMA Safe == Spec => [](TypeInv /\ AccountInv)
<1>1. Init => AccountInv
  BY DEF Init, AccountInv, Settled, Indebted
<1>2. TypeInv /\ AccountInv /\ [Next]_vars => AccountInv'
  BY AccountsKept
<1> QED
  BY TypeInitial, TypeInductive, <1>1, <1>2, PTL DEF Spec

(* The variables keep their types: a request and the tick always have the  *)
(* account they work on.                                                   *)
THEOREM TypeCorrect == Spec => []TypeOK
<1>1. TypeInv => TypeOK
  BY DEF TypeInv, Values, Flags, State, Handling, Timer, TypeOK
<1> QED
  BY Safe, <1>1, PTL

(* Of a user who owes nothing no account stays flagged, for any accounts,  *)
(* sums and number of racing requests and faults, but one flagged after    *)
(* its debt was settled or whose clearing failed.                          *)
THEOREM SettledIsCleared == Spec => []SettledCleared
<1>1. TypeInv /\ AccountInv => SettledCleared
  BY DEF AccountInv, Settled, SettledCleared, AtRest
<1> QED
  BY Safe, <1>1, PTL

(* Whoever owes has a flagged account, for any accounts, sums and number   *)
(* of racing requests and faults, but for the three named excuses.         *)
THEOREM DebtIsFlagged == Spec => []DebtFlagged
<1>1. TypeInv /\ AccountInv => DebtFlagged
  BY DEF AccountInv, Indebted, DebtFlagged, AtRest, Buying
<1> QED
  BY Safe, <1>1, PTL
=============================================================================
