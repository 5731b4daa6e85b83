------------------------------- MODULE Mirror -------------------------------
(***************************************************************************)
(* One sold account, kept twice: as a client of a 3x-ui panel and as a     *)
(* Subscription row of the bot.  Every operation on it reads the row,      *)
(* reads the client, writes the whole client back and then some fields of  *)
(* the row, with an await between any two of these; a cron copies the      *)
(* panel's fields into the row every ten minutes.  A panel expiry is a     *)
(* date (positive), a duration that starts at the first connection         *)
(* (negative) or 0, never.  Time counts days: a request takes seconds, so  *)
(* no day passes during one.                                               *)
(***************************************************************************)
EXTENDS Integers

CONSTANTS
  MaxJobs,        \* bound: requests in flight at the same time
  Requests,       \* what may be asked of the account
  Month, Year,    \* days of a package, and of what never expires
  Today,          \* the first day, late enough for every date to be positive
  Mirrors,        \* Subscription.panelExpiryTime of the row at the start
  Volumes,        \* volumes an administrator may set on the panel itself
  MaxRequests,    \* bound: requests
  MaxUpsets,      \* bound: failed calls, restarts, changes made on the panel, days
  NoClient,       \* the panel has no such client
  NoMirror,       \* Subscription.panelExpiryTime is null (an old row)
  NoRequest

Operations == {"addGb", "addDays", "edit", "renew", "toggle", "rotate",
               "refresh", "connect", "update", "bulkGb", "bulkDays", "bulkClear"}

\* Only bulk changes take volume or days away.
ASSUME RequestAssumption ==
  /\ Requests \subseteq [op : Operations, gb : Int, days : Int, on : BOOLEAN]
  /\ \A r \in Requests : /\ r.op # "bulkGb" => r.gb \in Nat
                         /\ r.op # "bulkDays" => r.days \in Nat
ASSUME TimeAssumption ==
  {Month, Year, Today} \subseteq Nat \ {0} /\ Volumes \subseteq Nat
ASSUME MirrorAssumption == Mirrors \subseteq {-Month, NoMirror}
ASSUME BoundAssumption ==
  MaxJobs \in Nat \ {0} /\ MaxRequests \in Nat /\ MaxUpsets \in Nat
ASSUME NoneAssumption ==
  /\ NoMirror \notin Int /\ NoRequest \notin Requests
  /\ NoClient \notin [gb : Nat, exp : Int, enable : BOOLEAN]

\* A request takes the first free slot.
Jobs == 1 .. MaxJobs

VARIABLES
  client,     \* the panel's client: volume (0: unlimited), expiry, enable
  row,        \* the Subscription: trafficGb, expiry fields, status
  now,        \* today
  job,        \* what each request stands at, asks, and has read
  cron,       \* what the reconcile tick stands at, has listed and has read
  retry,      \* failed purchases of volume, to be approved again
  requests, upsets,  \* bounded counters
  calm,       \* history: the last request began alone, with both in agreement
  sold,       \* history: volume that calls have put on top of the package
  top,        \* history: largest volume a package or an administrator set
  torn,       \* history: a purchase reached the panel and not the row
  off         \* history: the client was off or missing during this tick

history == <<calm, sold, top, torn>>
counters == <<requests, upsets>>
vars == <<client, row, now, job, cron, retry, counters, history, off>>

Clients == [gb : Nat, exp : Int, enable : BOOLEAN]
Expiries == [ends : Int, onConnect : BOOLEAN, mirror : Int \cup {NoMirror}]
Rows == [gb : Nat, exp : Expiries, status : {"active", "disabled", "expired"}]

Larger(a, b) == IF a < b THEN b ELSE a

\* Requests that read the row after the client, or only for its id.
Later == {"bulkGb", "bulkDays", "bulkClear", "update"}
Unread == [gb |-> 0, status |-> "active",
           exp |-> [ends |-> 0, onConnect |-> FALSE, mirror |-> NoMirror]]

Resting == job = [j \in Jobs |-> NoRequest]
AtRest == Resting /\ cron = NoRequest

TypeOK ==
  /\ client \in Clients \cup {NoClient}
  /\ row \in Rows
  /\ now \in Nat /\ retry \in Nat
  /\ \A j \in Jobs : job[j] # NoRequest =>
       job[j] \in [at : {"get", "find", "put", "save"}, req : Requests,
                   s : Rows, c : Clients \cup {NoClient}]
  /\ cron # NoRequest =>
       cron \in [at : {"rows", "apply", "confirm", "save"}, s : Rows,
                 c : Clients \cup {NoClient}]
  /\ requests \in Nat /\ upsets \in Nat
  /\ calm \in BOOLEAN /\ torn \in BOOLEAN /\ off \in BOOLEAN
  /\ sold \in Nat /\ top \in Nat

-----------------------------------------------------------------------------
(* Expiry on the panel and in the row (panel-expiry.ts).                   *)

\* expiryFromPanel, applyPanelExpiryToBotData.
FromPanel(e) ==
  [ends |-> IF e < 0 THEN now - e ELSE IF e > 0 THEN e ELSE now + Year,
   onConnect |-> e < 0,
   mirror |-> e]

Distance(a, b) == IF a < b THEN b - a ELSE a - b

\* panelExpiryDiffersFromBot.
Differs(e, x) ==
  IF x.mirror # NoMirror THEN x.mirror # e
  ELSE \/ e > 0 /\ (x.onConnect \/ e # x.ends)
       \/ e < 0 /\ (~x.onConnect \/ Distance(-e, Larger(0, x.ends - now)) > 2)

ForPanelUnchecked(x) ==
  IF x.mirror # 0 THEN x.mirror
  ELSE IF x.onConnect THEN -Larger(1, x.ends - now)
  ELSE x.ends

\* expiryTimeForPanel.
ForPanel(x) ==
  IF x.mirror \notin {NoMirror, 0} THEN x.mirror
  ELSE IF x.onConnect THEN -Larger(1, x.ends - now)
  ELSE x.ends

ExtendedFromToday(x, days) ==
  [ends |-> now + days, onConnect |-> x.onConnect,
   mirror |-> IF x.onConnect THEN -days ELSE now + days]

Dated(e) == [ends |-> e, onConnect |-> FALSE, mirror |-> e]

\* Days are added from today on, and taken from the end; a moment ago is today.
Moved(e, days) == (IF days < 0 THEN e ELSE Larger(now, e)) + days

\* extendBotExpiry, and for days that are added computeExtendedExpiry.
Extended(x, days) ==
  LET left == Larger(0, x.ends - now) + days
  IN IF ~x.onConnect THEN Dated(Moved(x.ends, days))
     ELSE IF left <= 0 THEN Dated(now)
     ELSE [ends |-> now + left, onConnect |-> TRUE, mirror |-> -left]

\* extendPanelExpiry.
PanelExtended(e, days) ==
  IF e > 0 THEN Moved(e, days) ELSE IF days <= e THEN now ELSE e - days

\* firstConnectExpiryMs and the placeholder renewSubscription stores with it.
Renewed == [ends |-> now + Month, onConnect |-> TRUE, mirror |-> -Month]

-----------------------------------------------------------------------------
(* What each operation writes: the client from the row s and the client c  *)
(* it read, then fields of the row.                                        *)

AddGb(r, s, c) ==
  [c EXCEPT !.gb = s.gb + r.gb, !.enable = TRUE, !.exp = ForPanel(s.exp)]

AddDays(r, s, c) == [c EXCEPT !.exp = Extended(s.exp, r.days).mirror, !.enable = TRUE]

Edit(r, s, c) == [c EXCEPT !.exp = now + Month, !.gb = r.gb, !.enable = TRUE]

Renew(r, s, c) == [c EXCEPT !.exp = -Month, !.gb = r.gb, !.enable = TRUE]

ToggleOff(r, s, c) == [c EXCEPT !.enable = FALSE]
Toggle(r, s, c) == [c EXCEPT !.enable = ~c.enable]

\* rotateUuid, rotateSubId: a new key in the client read before.
Rotate(r, s, c) == c

\* updateConfig with a volume, a date and the switch.
Update(r, s, c) == [c EXCEPT !.gb = r.gb, !.exp = now + r.days, !.enable = r.on]

\* adjustOne: from the panel's own values.
BulkGb(r, s, c) == [c EXCEPT !.gb = c.gb + r.gb]

BulkDays(r, s, c) == [c EXCEPT !.exp = PanelExtended(c.exp, r.days)]

BulkClear(r, s, c) == [c EXCEPT !.exp = 0]

\* What adjustOne leaves alone: no volume or end, or less than 1 GB to be left.
Skipped(r, c) ==
  IF r.op = "bulkGb" THEN c.gb = 0 \/ c.gb + r.gb < 1 ELSE c.exp = 0

Put(r, s, c) ==
  CASE r.op = "addGb" -> AddGb(r, s, c)
    [] r.op = "addDays" -> AddDays(r, s, c)
    [] r.op = "edit" -> Edit(r, s, c)
    [] r.op = "renew" -> Renew(r, s, c)
    [] r.op = "toggle" -> Toggle(r, s, c)
    [] r.op = "rotate" -> Rotate(r, s, c)
    [] r.op = "update" -> Update(r, s, c)
    [] r.op = "bulkGb" -> BulkGb(r, s, c)
    [] r.op = "bulkDays" -> BulkDays(r, s, c)
    [] r.op = "bulkClear" -> BulkClear(r, s, c)

CopiedLimitsOnly(c, s, aged) ==
  LET differs == Differs(c.exp, s.exp)
  IN [gb |-> IF c.gb \in {0, s.gb} THEN row.gb ELSE c.gb,
      exp |-> IF differs THEN FromPanel(c.exp) ELSE row.exp,
      status |-> IF ~c.enable THEN "disabled" ELSE "active"]

\* Copying a client into a row read before: a field is written only where the
\* two differed.  aged: a past date makes an active row expired.
Copied(c, s, aged) ==
  LET differs == Differs(c.exp, s.exp)
      ends == IF differs /\ aged THEN FromPanel(c.exp).ends ELSE s.exp.ends
      status == IF ~c.enable /\ s.status = "active" THEN "disabled"
                ELSE IF c.enable /\ s.status = "disabled" /\ ends > now THEN "active"
                ELSE s.status
      last == IF aged /\ status = "active" /\ ends <= now THEN "expired" ELSE status
  IN [gb |-> IF c.gb = s.gb THEN row.gb ELSE c.gb,
      exp |-> IF differs THEN FromPanel(c.exp) ELSE row.exp,
      status |-> IF last = s.status THEN row.status ELSE last]

\* syncSubscriptionExpiryFromPanel, for a row read as not yet connected.
Connected(c, s) ==
  IF ~s.exp.onConnect \/ c.exp = 0 THEN row
  ELSE IF c.exp > 0 THEN [row EXCEPT !.exp = Dated(c.exp)]
  ELSE [row EXCEPT !.exp.mirror = c.exp]

SaveGbIncrement(r, s) == [row EXCEPT !.gb = row.gb + r.gb, !.status = "active"]
SaveGb(r, s) == [row EXCEPT !.gb = s.gb + r.gb, !.status = "active"]

Save(r, s, c) ==
  CASE r.op = "addGb" -> SaveGb(r, s)
    [] r.op = "addDays" -> [row EXCEPT !.exp = Extended(s.exp, r.days), !.status = "active"]
    [] r.op = "edit" ->
         [row EXCEPT !.gb = r.gb, !.exp = Dated(now + Month), !.status = "active"]
    [] r.op = "renew" ->
         [row EXCEPT !.gb = IF r.gb = 0 THEN s.gb ELSE r.gb, !.exp = Renewed,
                     !.status = "active"]
    [] r.op = "toggle" ->
         [row EXCEPT !.status = IF c.enable THEN "disabled" ELSE "active"]
    [] r.op = "rotate" -> row
    [] r.op = "refresh" -> Copied(c, s, TRUE)
    [] r.op = "connect" -> Connected(c, s)
    [] r.op = "update" ->
         [row EXCEPT !.gb = r.gb, !.exp = Dated(now + r.days),
                     !.status = IF r.on THEN "active" ELSE "disabled"]
    [] r.op = "bulkGb" -> [row EXCEPT !.gb = c.gb + r.gb]
    [] r.op = "bulkDays" -> [row EXCEPT !.exp = Extended(s.exp, r.days), !.status = "active"]
    [] r.op = "bulkClear" -> [row EXCEPT !.exp = FromPanel(0), !.status = "active"]

-----------------------------------------------------------------------------
(* A request, await by await.                                              *)

\* The row and the client tell the same story.
Alike(s, c) ==
  /\ s.gb = c.gb
  /\ ~Differs(c.exp, s.exp)
  /\ s.status = "active" => c.enable
  /\ c.enable => s.status = "active" \/ s.exp.ends <= now
Agree == client # NoClient /\ Alike(row, client)

Upset == upsets < MaxUpsets /\ upsets' = upsets + 1

\* Volume that a request puts on top of the package, and volumes it sets.
Adds(d) == IF d.req.op \in {"addGb", "bulkGb"} THEN Larger(0, d.req.gb) ELSE 0
Sets(r) == IF r.op \in {"edit", "renew", "update"} THEN r.gb ELSE 0

Begin(j, r) ==
  /\ job[j] = NoRequest /\ \A i \in Jobs : i < j => job[i] # NoRequest
  /\ requests < MaxRequests
  /\ r.op = "addGb" => row.gb # 0
  /\ requests' = requests + 1
  /\ job' = [job EXCEPT ![j] = [at |-> "get", req |-> r, c |-> NoClient,
                               s |-> IF r.op \in Later THEN Unread ELSE row]]
  /\ calm' = (AtRest /\ Agree)
  /\ top' = Larger(top, Sets(r))
  /\ UNCHANGED <<client, row, now, cron, upsets, sold, torn, off>>

\* A purchase, or an administrator, asks.
Ask(j, r) ==
  /\ Begin(j, r)
  /\ UNCHANGED retry

\* A failed purchase of volume is approved again.
Again(j, r) ==
  /\ retry > 0
  /\ r.op = "addGb"
  /\ Begin(j, r)
  /\ retry' = retry - 1

Forward(j, at) == job' = [job EXCEPT ![j].at = at]

\* The handler ends; provisionOrder's catch block restores a purchase's status.
Give(j) == job' = [job EXCEPT ![j] = NoRequest]
Fails(j) == Give(j) /\ retry' = retry + (IF job[j].req.op = "addGb" THEN 1 ELSE 0)

\* xui.getClient.  updateConfig goes on without a client.
Get(j) ==
  /\ job[j] # NoRequest /\ job[j].at = "get"
  /\ LET op == job[j].req.op IN
     \/ /\ client # NoClient
        /\ job' = [job EXCEPT ![j].c = client,
                     ![j].at = CASE op \in {"refresh", "connect"} -> "save"
                                 [] op \in Later \ {"update"} -> "find"
                                 [] OTHER -> "put"]
        /\ UNCHANGED retry
     \/ client = NoClient /\ op = "update" /\ Forward(j, "save") /\ UNCHANGED retry
     \/ client = NoClient /\ op # "update" /\ Fails(j)
  /\ UNCHANGED <<client, row, now, cron, counters, history, off>>

\* adjustOne reads the row after the client.
Find(j) ==
  /\ job[j] # NoRequest /\ job[j].at = "find"
  /\ IF Skipped(job[j].req, job[j].c) THEN Give(j)
     ELSE job' = [job EXCEPT ![j].s = row, ![j].at = "put"]
  /\ UNCHANGED <<client, row, now, cron, retry, counters, history, off>>

\* xui.updateClient replaces the client.
PutClient(j) ==
  /\ job[j] # NoRequest /\ job[j].at = "put"
  /\ client # NoClient
  /\ client' = Put(job[j].req, job[j].s, job[j].c)
  /\ Forward(j, "save")
  /\ sold' = sold + Adds(job[j])
  /\ off' = (off \/ ~client'.enable)
  /\ UNCHANGED <<row, now, cron, retry, counters, calm, top, torn>>

\* prisma.subscription.update.
SaveRow(j) ==
  /\ job[j] # NoRequest /\ job[j].at = "save"
  /\ row' = Save(job[j].req, job[j].s, job[j].c)
  /\ Give(j)
  /\ UNCHANGED <<client, now, cron, retry, counters, history, off>>

\* The panel does not answer, or has no such client any more.
Refused(j) ==
  /\ job[j] # NoRequest /\ job[j].at \in {"get", "put"}
  /\ \/ client = NoClient /\ job[j].at = "put" /\ UNCHANGED upsets
     \/ Upset
  /\ IF job[j].req.op = "update" THEN Forward(j, "save") /\ UNCHANGED retry ELSE Fails(j)
  /\ calm' = FALSE
  /\ UNCHANGED <<client, row, now, cron, requests, sold, top, torn, off>>

\* The panel has changed the client and its answer is lost.
AnswerLost(j) ==
  /\ job[j] # NoRequest /\ job[j].at = "put"
  /\ client # NoClient
  /\ Upset
  /\ client' = Put(job[j].req, job[j].s, job[j].c)
  /\ IF job[j].req.op = "update" THEN Forward(j, "save") /\ UNCHANGED retry ELSE Fails(j)
  /\ calm' = FALSE
  /\ torn' = (torn \/ Adds(job[j]) > 0)
  /\ off' = (off \/ ~client'.enable)
  /\ UNCHANGED <<row, now, cron, requests, sold, top>>

\* The database refuses the update of the row.
SaveFails(j) ==
  /\ job[j] # NoRequest /\ job[j].at = "save"
  /\ Upset
  /\ Fails(j)
  /\ calm' = FALSE
  /\ torn' = (torn \/ Adds(job[j]) > 0)
  /\ UNCHANGED <<client, row, now, cron, requests, sold, top, off>>

\* The process restarts: requests and tick are gone.
Restart ==
  /\ ~AtRest
  /\ Upset
  /\ job' = [j \in Jobs |-> NoRequest]
  /\ cron' = NoRequest
  /\ calm' = FALSE
  /\ torn' = (torn \/ \E j \in Jobs : job[j] # NoRequest /\ job[j].at = "save")
  /\ UNCHANGED <<client, row, now, retry, requests, sold, top, off>>

-----------------------------------------------------------------------------
(* reconcileSubscriptionsFromPanel, for this account among others.         *)

\* listDetailedPanelClients.  A panel that does not answer is skipped: then the
\* account is not in the list, although others are.
ListClients ==
  /\ cron = NoRequest
  /\ \/ cron' = [at |-> "rows", c |-> client, s |-> Unread] /\ UNCHANGED upsets
     \/ /\ client # NoClient
        /\ Upset
        /\ cron' = [at |-> "rows", c |-> NoClient, s |-> Unread]
  /\ off' = IF client = NoClient THEN TRUE ELSE ~client.enable
  /\ calm' = FALSE
  /\ UNCHANGED <<client, row, now, job, retry, requests, sold, top, torn>>

\* findMany: active and disabled rows only.
ReadRows ==
  /\ cron # NoRequest /\ cron.at = "rows"
  /\ cron' = IF row.status = "expired" THEN NoRequest
             ELSE [cron EXCEPT !.s = row,
                               !.at = IF cron.c = NoClient THEN "confirm" ELSE "apply"]
  /\ UNCHANGED <<client, row, now, job, retry, counters, history, off>>

ApplyListed ==
  /\ cron # NoRequest /\ cron.at = "apply"
  /\ row' = Copied(cron.c, cron.s, TRUE)
  /\ cron' = NoRequest
  /\ UNCHANGED <<client, now, job, retry, counters, history, off>>

ConfirmUnasked ==
  /\ cron # NoRequest /\ cron.at = "confirm"
  /\ row' = IF cron.s.status = "active" THEN [row EXCEPT !.status = "disabled"] ELSE row
  /\ cron' = NoRequest
  /\ UNCHANGED <<client, now, job, retry, counters, history, off>>

\* Missing from the list: the account's own panel is asked.  No such client is
\* answered with an empty object, or with an error that leaves the row alone.
Confirm ==
  /\ cron # NoRequest /\ cron.at = "confirm"
  /\ \/ cron' = [cron EXCEPT !.c = client, !.at = "save"] /\ UNCHANGED upsets
     \/ /\ IF client = NoClient THEN UNCHANGED upsets ELSE Upset
        /\ cron' = NoRequest
  /\ UNCHANGED <<client, row, now, job, retry, requests, history, off>>

SaveConfirmed ==
  /\ cron # NoRequest /\ cron.at = "save"
  /\ row' = IF cron.c # NoClient THEN Copied(cron.c, cron.s, FALSE)
            ELSE IF cron.s.status = "active" THEN [row EXCEPT !.status = "disabled"] ELSE row
  /\ cron' = NoRequest
  /\ UNCHANGED <<client, now, job, retry, counters, history, off>>

Reconcile == ListClients \/ ReadRows \/ ApplyListed \/ Confirm \/ SaveConfirmed

-----------------------------------------------------------------------------
(* The panel itself, and time.                                             *)

Elsewhere ==
  /\ client # NoClient
  /\ Upset
  /\ calm' = FALSE
  /\ UNCHANGED <<row, now, job, cron, retry, requests, sold, torn>>

\* The user connects for the first time: the duration becomes a date.
Connect ==
  /\ Elsewhere
  /\ client.exp < 0
  /\ client' = [client EXCEPT !.exp = now - @]
  /\ UNCHANGED <<top, off>>

\* An administrator works on the panel's own page, or the panel switches a used
\* up client off.
PanelEdit ==
  /\ Elsewhere
  /\ \/ \E v \in Volumes : client' = [client EXCEPT !.gb = v] /\ top' = Larger(top, v)
     \/ client' = [client EXCEPT !.enable = ~@] /\ UNCHANGED top
     \/ client' = NoClient /\ UNCHANGED top
  /\ off' = (off \/ IF client' = NoClient THEN TRUE ELSE ~client'.enable)

Tick ==
  /\ AtRest
  /\ Upset
  /\ now' = now + 1
  /\ calm' = FALSE
  /\ UNCHANGED <<client, row, job, cron, retry, requests, sold, top, torn, off>>

\* createOnePanelClient's row and client; rows older than the mirror have none.
Init ==
  /\ now = Today
  /\ client = [gb |-> 1, exp |-> -Month, enable |-> TRUE]
  /\ \E m \in Mirrors :
       row = [gb |-> 1, status |-> "active",
              exp |-> [ends |-> now + Month, onConnect |-> TRUE, mirror |-> m]]
  /\ job = [j \in Jobs |-> NoRequest] /\ cron = NoRequest
  /\ retry = 0 /\ requests = 0 /\ upsets = 0
  /\ calm = TRUE /\ sold = 0 /\ top = 1 /\ torn = FALSE /\ off = FALSE

Next ==
  \/ \E j \in Jobs :
       \/ \E r \in Requests : Ask(j, r) \/ Again(j, r)
       \/ Get(j) \/ Find(j) \/ PutClient(j) \/ SaveRow(j)
       \/ Refused(j) \/ AnswerLost(j) \/ SaveFails(j)
  \/ Reconcile
  \/ Restart
  \/ Connect
  \/ PanelEdit
  \/ Tick

Spec == Init /\ [][Next]_vars

\* setInterval starts a tick every ten minutes, and a tick that was started ends.
\* Of the requests nothing is assumed.
FairSpec == Spec /\ WF_vars(Reconcile)

-----------------------------------------------------------------------------
(* Properties.                                                             *)

\* Days the user still has by a panel expiry.
Left(e) == IF e < 0 THEN -e ELSE IF e = 0 THEN Year ELSE Larger(0, e - now)

\* The row's end and flag are what the panel's expiry means today.  They fall
\* behind as days pass before the first connection, and after races.
Timely(s, c) ==
  s.exp.ends = FromPanel(c.exp).ends /\ s.exp.onConnect = FromPanel(c.exp).onConnect

\* Requests that work on a row that is not timely, or after which row and panel
\* differ although nothing went wrong: renewal to an unlimited volume keeps the
\* row's number; adding volume dates a client that never expired; bulk changes
\* mark the row active and leave the panel's switch.
Uneven(r, s, c) ==
  \/ r.op \in {"bulkDays", "connect"} /\ ~Timely(s, c)
  \/ r.op = "renew" /\ r.gb = 0
  \/ r.op = "addGb" /\ c.exp = 0
  \/ r.op \in {"bulkDays", "bulkClear"} /\ c.exp # 0 /\ ~c.enable

(***************************************************************************)
(* Every request writes the same to both sides: one that ran alone from    *)
(* agreement and met no fault ends in agreement (sub-addons.ts:144-229,    *)
(* provision.ts:637-830, subscription-lifecycle.ts:10-58, updateConfig,    *)
(* bulk-adjust.ts:207-300), except where Uneven says otherwise.            *)
(***************************************************************************)
AloneAgrees == [][
  \A j \in Jobs : SaveRow(j) /\ calm /\ ~Uneven(job[j].req, row, job[j].c) => Agree']_vars

\* What the buyer or the administrator was promised, on the panel.
Delivered(r, c) ==
  CASE r.op = "addGb" -> /\ client.gb = c.gb + r.gb
                         /\ Timely(row, c) => Left(client.exp) = Left(c.exp)
    [] r.op = "addDays" -> /\ client.gb = c.gb
                           /\ Timely(row, c) => Left(client.exp) = Left(c.exp) + r.days
    [] r.op = "bulkGb" -> client.gb = c.gb + r.gb /\ client.exp = c.exp
    [] OTHER -> TRUE

(***************************************************************************)
(* Volume and days that were paid for are added to what the panel granted, *)
(* and the other of the two is left alone (applyAddGb and applyAddDays     *)
(* compute both from the row, not from the panel): for a request that ran  *)
(* alone from agreement, the days on a row whose end is up to date.        *)
(***************************************************************************)
PurchaseDelivered == [][
  \A j \in Jobs : SaveRow(j) /\ calm => Delivered(job[j].req, job[j].c)]_vars

(***************************************************************************)
(* No volume is made from nothing: whatever requests, ticks, failures and  *)
(* retries interleave, the panel grants at most the largest package plus   *)
(* what calls were sent to add to it, each counted once - unless a call    *)
(* reached the panel and its row was never written, when a tick copies the *)
(* sum and a retry adds it again.                                          *)
(***************************************************************************)
VolumeSold == client # NoClient /\ ~torn => client.gb <= top + sold

(***************************************************************************)
(* "avoid false disable if another panel was unreachable"                  *)
(* (admin-configs.ts:1533): the tick takes a row off only when the client  *)
(* was off or missing at some moment of the tick.                          *)
(***************************************************************************)
ReconcileSpares == [][
  Reconcile /\ row.status = "active" /\ row'.status = "disabled" => off]_vars

(***************************************************************************)
(* The cron heals every disagreement: when nobody works on the account any *)
(* more, the row follows the panel for good, except a row that is already  *)
(* expired, which the tick never reads again, and a client that is gone.   *)
(***************************************************************************)
Settles == <>[](Agree \/ row.status = "expired" \/ client = NoClient)
=============================================================================
