------------------------------ MODULE Notices -------------------------------
(***************************************************************************)
(* The notification sweep, for one account: warnings before and after the  *)
(* end and of low volume, the farewell, and the expiry of rows long over.  *)
(* Every sweep works on a row it read at its start, asks the panel, looks  *)
(* in the log whether a message went out, sends it and logs it, with an    *)
(* await between any two; setInterval may start the next sweep meanwhile,  *)
(* and a renewal may pass through.  Time counts days: none passes while    *)
(* calls are in flight.                                                    *)
(***************************************************************************)
EXTENDS Integers, FiniteSets

CONSTANTS
  MaxTicks,       \* bound: sweeps in flight at the same time
  Settings,       \* sets of the kinds of messages that may be switched on
  Month,          \* days of a package
  Near,           \* cfg.expiryDays.hours
  Grace,          \* cfg.preDelete.hours
  Final,          \* 2 * MS_DAY
  Gone,           \* 7 * MS_DAY
  LastDay,        \* bound: days
  MaxRenewals,    \* bound: renewals
  MaxUpsets,      \* bound: failed calls, restarts, changes made on the panel
  NoClient,       \* the panel has no such client
  None

ASSUME DayAssumption ==
  /\ {Month, Near, Grace, Final, Gone} \subseteq Nat \ {0} /\ Final < Gone
ASSUME SettingAssumption ==
  Settings \subseteq SUBSET {"expiryDays", "preDelete", "traffic", "deleted"} \ {{}}
ASSUME BoundAssumption == {MaxTicks, LastDay, MaxRenewals, MaxUpsets} \subseteq Nat

VARIABLES
  row,        \* the Subscription: end, not yet connected, active
  client,     \* the panel's client: expiry, enable, volume low
  log,        \* NotificationLog
  today,
  enabled,    \* getNotifConfig: the kinds switched on
  crowded,    \* 500 other active rows end before this one
  tick,       \* what each sweep has read and stands at
  renewing,   \* a renewal has written the client and not yet the row
  renewals, upsets,
  told,       \* history: messages that reached the user; of low volume, since
              \* a sweep saw it recovered
  missed,     \* history: messages that went out and were not logged
  stale,      \* history: the entry of an episode that is over was not cleared
  peak,       \* history: most sweeps in flight at once
  raced       \* history: a renewal and a sweep were in flight together

history == <<told, missed, stale, peak, raced>>
vars == <<row, client, log, today, enabled, crowded, tick, renewing, renewals, upsets,
          history>>

Kinds == {"expiryDays", "preDelete", "traffic", "deleted"}
Days == 0 .. LastDay + Month
Messages == (Kinds \ {"traffic"}) \X Days \cup {<<"traffic", 0>>}
Rows == [ends : Days, waiting : BOOLEAN, active : BOOLEAN]
Sweeps == [s : Rows, of : Kinds \cup {"start", "end"},
           at : {"sync", "log", "send", "mark", "ask", "clear", "expire", "last"}]

ASSUME NoneAssumption == None \notin Sweeps

Ticks == 1 .. MaxTicks
Running == {t \in Ticks : tick[t] # None}

TypeOK ==
  /\ row \in Rows
  /\ client \in [exp : Int, on : BOOLEAN, low : BOOLEAN] \cup {NoClient}
  /\ log \subseteq Kinds \X Days
  /\ today \in 0 .. LastDay /\ enabled \in Settings
  /\ \A t \in Running : tick[t] \in Sweeps
  /\ \A t \in Running : tick[t].at = "expire" => tick[t].of = "deleted"
  /\ renewing \in BOOLEAN /\ raced \in BOOLEAN
  /\ crowded \in BOOLEAN /\ stale \in BOOLEAN

\* Bought today: the clock starts at the first connection.
Init ==
  /\ row = [ends |-> Month, waiting |-> TRUE, active |-> TRUE]
  /\ client = [exp |-> -Month, on |-> TRUE, low |-> FALSE]
  /\ log = {} /\ today = 0 /\ enabled \in Settings /\ crowded = FALSE
  /\ tick = [t \in Ticks |-> None]
  /\ renewing = FALSE /\ renewals = 0 /\ upsets = 0
  /\ told = [m \in Messages |-> 0]
  /\ missed = 0 /\ stale = FALSE /\ peak = 0 /\ raced = FALSE

Upset == upsets < MaxUpsets /\ upsets' = upsets + 1

-----------------------------------------------------------------------------
(* The sweep.                                                              *)

LongOver(s) == today > s.ends + Grace \/ today > s.ends + Final

FarewellEvenBefore(s) == "deleted" \in enabled /\ ~s.waiting

\* What the row read before makes due, or worth a question to the panel.
Farewell(s) == "deleted" \in enabled /\ ~s.waiting /\ LongOver(s)
Warning(s) ==
  "expiryDays" \in enabled /\ ~s.waiting /\ s.ends > today /\ s.ends - today <= Near
LastWarning(s) ==
  "preDelete" \in enabled /\ ~s.waiting /\ today >= s.ends /\ today - s.ends <= Grace

\* From one kind of message to the next: what is not due takes no await.
ToFarewell(d) ==
  IF Farewell(d.s) THEN [d EXCEPT !.of = "deleted", !.at = "ask"]
                   ELSE [d EXCEPT !.of = "end", !.at = "last"]
ToTraffic(d) ==
  IF "traffic" \in enabled THEN [d EXCEPT !.of = "traffic", !.at = "ask"] ELSE ToFarewell(d)
ToLastWarning(d) ==
  IF LastWarning(d.s) THEN [d EXCEPT !.of = "preDelete", !.at = "log"] ELSE ToTraffic(d)
ToWarning(d) ==
  IF Warning(d.s) THEN [d EXCEPT !.of = "expiryDays", !.at = "log"] ELSE ToLastWarning(d)
After(d) ==
  CASE d.of = "start" -> ToWarning(d)
    [] d.of = "expiryDays" -> ToLastWarning(d)
    [] d.of = "preDelete" -> ToTraffic(d)
    [] d.of = "traffic" -> ToFarewell(d)
    [] d.of = "deleted" -> [d EXCEPT !.of = "end", !.at = "last"]

On(t, at) == tick[t] # None /\ tick[t].at = at
Goto(t, at) == tick' = [tick EXCEPT ![t].at = at]
Skip(t) == tick' = [tick EXCEPT ![t] = After(@)]

\* What a sweep does first with this row; all rows get the last update.
First ==
  LET d == [s |-> row, of |-> "start", at |-> "sync"]
  IN IF crowded THEN [d EXCEPT !.of = "end", !.at = "last"]
     ELSE IF row.waiting THEN d ELSE After(d)

\* The active rows are read, five hundred at most, those that end first.
Begin(t) ==
  /\ tick[t] = None /\ (\A u \in Ticks : u < t => tick[u] # None)
  /\ row.active
  /\ tick' = [tick EXCEPT ![t] = First]
  /\ peak' = IF Cardinality(Running) < peak THEN peak ELSE Cardinality(Running) + 1
  /\ raced' = (raced \/ renewing)
  /\ UNCHANGED <<row, client, log, today, enabled, crowded, renewing, renewals, upsets,
                 told, missed, stale>>

\* syncSubscriptionExpiryFromPanel for a row read as not yet connected, which is
\* read again afterwards; its three calls are one step.
Sync(t) ==
  /\ On(t, "sync")
  /\ row' = IF row.waiting /\ client # NoClient /\ client.exp > 0
            THEN [row EXCEPT !.ends = client.exp, !.waiting = FALSE] ELSE row
  /\ tick' = [tick EXCEPT ![t] =
       After([@ EXCEPT !.s.ends = row'.ends, !.s.waiting = row'.waiting])]
  /\ UNCHANGED <<client, log, today, enabled, crowded, renewing, renewals, upsets, history>>

Missing == client = NoClient \/ ~client.on

\* getClientTraffic: nothing of a missing client, else low volume or enough.
\* getClient: missing or off, or in use.
Ask(t) ==
  /\ On(t, "ask")
  /\ \/ tick[t].of = "traffic" /\ client = NoClient /\ Skip(t)
     \/ /\ tick[t].of = "traffic" /\ client # NoClient
        /\ Goto(t, IF client.low THEN "log" ELSE "clear")
     \/ tick[t].of = "deleted" /\ Missing = TRUE /\ Goto(t, "log")
     \/ tick[t].of = "deleted" /\ Missing = FALSE /\ Skip(t)
  /\ UNCHANGED <<row, client, log, today, enabled, crowded, renewing, renewals, upsets,
                 history>>

\* The panel does not answer: no news of the volume, and a client taken as missing.
Unanswered(t) ==
  /\ On(t, "ask") /\ Upset
  /\ IF tick[t].of = "deleted" THEN Goto(t, "log") ELSE Skip(t)
  /\ UNCHANGED <<row, client, log, today, enabled, crowded, renewing, renewals, history>>

BucketOfDay(d) == IF d.of = "traffic" THEN <<"traffic", today>> ELSE <<d.of, d.s.ends>>

\* One entry per end, and one for an episode of low volume.
Bucket(d) == IF d.of = "traffic" THEN <<"traffic", 0>> ELSE <<d.of, d.s.ends>>

Message(d) == IF d.of = "traffic" THEN <<"traffic", 0>> ELSE <<d.of, d.s.ends>>

ClearNothing(t) ==
  /\ On(t, "clear")
  /\ told' = [told EXCEPT ![Message(tick[t])] = 0]
  /\ Skip(t)
  /\ UNCHANGED <<row, client, log, today, enabled, crowded, renewing, renewals, upsets,
                 missed, stale, peak, raced>>

\* clearSent.
Clear(t) ==
  /\ On(t, "clear")
  /\ log' = log \ {Bucket(tick[t])} /\ stale' = FALSE
  /\ told' = [told EXCEPT ![Message(tick[t])] = 0]
  /\ Skip(t)
  /\ UNCHANGED <<row, client, today, enabled, crowded, renewing, renewals, upsets,
                 missed, peak, raced>>

\* Its failure is swallowed, and the entry stays.
ClearFails(t) ==
  /\ On(t, "clear") /\ Upset
  /\ stale' = (stale \/ Bucket(tick[t]) \in log)
  /\ told' = [told EXCEPT ![Message(tick[t])] = 0]
  /\ Skip(t)
  /\ UNCHANGED <<row, client, log, today, enabled, crowded, renewing, renewals, missed,
                 peak, raced>>

LookUpAndClose(t) ==
  /\ On(t, "log")
  /\ IF Bucket(tick[t]) \in log THEN Skip(t) ELSE Goto(t, "expire")
  /\ UNCHANGED <<row, client, log, today, enabled, crowded, renewing, renewals, upsets,
                 history>>

\* alreadySent.
LookUp(t) ==
  /\ On(t, "log")
  /\ IF Bucket(tick[t]) \in log THEN Skip(t)
     ELSE Goto(t, IF tick[t].of = "deleted" THEN "expire" ELSE "send")
  /\ UNCHANGED <<row, client, log, today, enabled, crowded, renewing, renewals, upsets,
                 history>>

\* The row is closed before the farewell, whatever it says by now.
Expire(t) ==
  /\ On(t, "expire")
  /\ row' = [row EXCEPT !.active = FALSE]
  /\ Goto(t, "send")
  /\ UNCHANGED <<client, log, today, enabled, crowded, renewing, renewals, upsets, history>>

Tell(t) == told' = [told EXCEPT ![Message(tick[t])] = @ + 1]

\* sendUser.
Send(t) ==
  /\ On(t, "send")
  /\ Tell(t) /\ Goto(t, "mark")
  /\ UNCHANGED <<row, client, log, today, enabled, crowded, renewing, renewals, upsets,
                 missed, stale, peak, raced>>

\* Telegram refuses, or its answer is lost: nothing is logged.
SendFails(t) ==
  /\ On(t, "send") /\ Upset
  /\ \/ UNCHANGED <<told, missed>>
     \/ Tell(t) /\ missed' = missed + 1
  /\ Skip(t)
  /\ UNCHANGED <<row, client, log, today, enabled, crowded, renewing, renewals, stale,
                 peak, raced>>

\* markSent; its failure is swallowed.
Mark(t) ==
  /\ On(t, "mark")
  /\ log' = log \cup {Bucket(tick[t])}
  /\ Skip(t)
  /\ UNCHANGED <<row, client, today, enabled, crowded, renewing, renewals, upsets, history>>

MarkFails(t) ==
  /\ On(t, "mark") /\ Upset
  /\ missed' = missed + 1
  /\ Skip(t)
  /\ UNCHANGED <<row, client, log, today, enabled, crowded, renewing, renewals, told,
                 stale, peak, raced>>

\* The last update: rows whose end is long past, connected or not.
Finish(t) ==
  /\ On(t, "last")
  /\ row' = IF row.ends < today - Gone THEN [row EXCEPT !.active = FALSE] ELSE row
  /\ tick' = [tick EXCEPT ![t] = None]
  /\ UNCHANGED <<client, log, today, enabled, crowded, renewing, renewals, upsets, history>>

-----------------------------------------------------------------------------
(* What else happens to the account.                                       *)

\* renewSubscription.
RenewClient ==
  /\ ~renewing /\ client # NoClient /\ renewals < MaxRenewals
  /\ client' = [exp |-> -Month, on |-> TRUE, low |-> FALSE]
  /\ renewing' = TRUE /\ renewals' = renewals + 1
  /\ raced' = (raced \/ Running # {})
  /\ UNCHANGED <<row, log, today, enabled, crowded, tick, upsets, told, missed, stale,
                 peak>>

RenewRow ==
  /\ renewing
  /\ row' = [ends |-> today + Month, waiting |-> TRUE, active |-> TRUE]
  /\ renewing' = FALSE
  /\ UNCHANGED <<client, log, today, enabled, crowded, tick, renewals, upsets, history>>

\* The panel dates a client at its first connection, uses up its volume and
\* switches it off at its end; volume is bought, and the panel is tidied.
\* The volume moves only where a sweep looks at it.
PanelActs ==
  /\ client # NoClient
  /\ \/ /\ client.exp < 0 /\ client.on
        /\ client' = [client EXCEPT !.exp = today - client.exp] /\ UNCHANGED upsets
     \/ /\ "traffic" \in enabled /\ ~client.low
        /\ client' = [client EXCEPT !.low = TRUE] /\ UNCHANGED upsets
     \/ client.low /\ client' = [client EXCEPT !.low = FALSE] /\ Upset
     \/ /\ client.on /\ client.exp > 0 /\ client.exp <= today
        /\ client' = [client EXCEPT !.on = FALSE] /\ UNCHANGED upsets
     \/ client.on /\ client' = [client EXCEPT !.on = FALSE] /\ Upset
     \/ client' = NoClient /\ Upset
  /\ UNCHANGED <<row, log, today, enabled, crowded, tick, renewing, renewals, history>>

\* Other accounts are bought and end.
Crowd ==
  /\ crowded' = ~crowded
  /\ IF crowded THEN UNCHANGED upsets ELSE Upset
  /\ UNCHANGED <<row, client, log, today, enabled, tick, renewing, renewals, history>>

Day ==
  /\ today < LastDay /\ Running = {} /\ ~renewing
  /\ today' = today + 1
  /\ UNCHANGED <<row, client, log, enabled, crowded, tick, renewing, renewals, upsets,
                 history>>

Restart ==
  /\ Running # {} /\ Upset
  /\ tick' = [t \in Ticks |-> None] /\ renewing' = FALSE
  /\ missed' = missed + Cardinality({t \in Running : tick[t].at = "mark"})
  /\ UNCHANGED <<row, client, log, today, enabled, crowded, renewals, told, stale, peak,
                 raced>>

Proceed(t) ==
  \/ Sync(t) \/ Ask(t) \/ Clear(t) \/ LookUp(t) \/ Expire(t) \/ Send(t) \/ Mark(t)
  \/ Finish(t)

Fails(t) == Unanswered(t) \/ ClearFails(t) \/ SendFails(t) \/ MarkFails(t)

Next ==
  \/ \E t \in Ticks : Begin(t) \/ Proceed(t) \/ Fails(t)
  \/ RenewClient \/ RenewRow \/ PanelActs \/ Crowd \/ Day \/ Restart

Spec == Init /\ [][Next]_vars

\* setInterval starts a sweep every twenty minutes, and its calls return.
FairSpec == Spec /\ \A t \in Ticks : WF_vars(Begin(t)) /\ WF_vars(Proceed(t))

-----------------------------------------------------------------------------
(* Properties.                                                             *)

(***************************************************************************)
(* "One warning per low traffic episode - not per UTC calendar day"        *)
(* (notifications.ts:168), and one message per end of the others: a user   *)
(* is told again only when sweeps overlapped or a message went unlogged.   *)
(***************************************************************************)
ToldOnce == \A m \in Messages : told[m] <= peak + missed

(***************************************************************************)
(* The sweep closes rows it read earlier, without looking again (line      *)
(* 216): a row with days to run is closed only when a renewal and a sweep  *)
(* were in flight together.                                                *)
(***************************************************************************)
RenewalSurvives == [][row.active /\ ~row'.active /\ row.ends > today => raced]_vars

(***************************************************************************)
(* Low volume is told in the end, whichever calls fail, unless it          *)
(* recovers, the account is closed or deleted or always one of too many,   *)
(* or the log still says it was told of an episode that is over: because   *)
(* overlapping sweeps logged a message after one of them saw the volume    *)
(* recovered, or because clearing the entry failed (notifications.ts:33).  *)
(***************************************************************************)
LowTold ==
  "traffic" \in enabled /\ client # NoClient /\ client.low /\ row.active
    ~> \/ told[<<"traffic", 0>>] > 0 \/ peak > 1 \/ stale \/ []crowded
       \/ client = NoClient \/ ~client.low \/ ~row.active

-----------------------------------------------------------------------------
(* What a comment of the code says, and the code does not do.              *)

(***************************************************************************)
(* "panel expiry is 'start after first connect'" (schema.prisma:371): what *)
(* was bought and not used yet does not end.  The last update of the sweep *)
(* goes by the end the row was given for display at the purchase.          *)
(***************************************************************************)
UnusedKept ==
  [][\A t \in Ticks : Finish(t) /\ row.active /\ ~row'.active =>
       ~row.waiting \/ client = NoClient]_vars
=============================================================================
