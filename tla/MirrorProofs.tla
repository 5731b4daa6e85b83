---------------------------- MODULE MirrorProofs ----------------------------
(* Theorems about an account kept twice, for every set of requests, any    *)
(* number of them in flight, and all durations and volumes.                *)
EXTENDS Mirror, TLAPS

JobSet == [at : {"get", "find", "put", "save"}, req : Requests,
           s : Rows, c : Clients \cup {NoClient}]

Bulk == {"bulkGb", "bulkDays", "bulkClear"}

\* What a request has in its hands when it is about to write.
Ready(d) ==
  /\ d.at \in {"find", "put"} => d.c \in Clients /\ d.req.op \notin {"refresh", "connect"}
  /\ d.at = "save" => d.c \in Clients \/ d.req.op = "update"
  /\ d.at \in {"put", "save"} /\ d.req.op \in Bulk => ~Skipped(d.req, d.c)

Data ==
  /\ client \in Clients \cup {NoClient} /\ row \in Rows
  /\ now \in Nat /\ retry \in Nat /\ requests \in Nat /\ upsets \in Nat
  /\ calm \in BOOLEAN /\ torn \in BOOLEAN /\ off \in BOOLEAN
  /\ sold \in Nat /\ top \in Nat

Work ==
  /\ job \in [Jobs -> JobSet \cup {NoRequest}]
  /\ \A j \in Jobs : job[j] # NoRequest => Ready(job[j])

TickInv == cron # NoRequest =>
  /\ cron \in [at : {"rows", "apply", "confirm", "save"}, s : Rows,
                c : Clients \cup {NoClient}]
  /\ cron.at = "apply" => cron.c \in Clients

TypeInv == Data /\ Work /\ TickInv

-----------------------------------------------------------------------------
(* The arithmetic of expiries stays within the fields of a row.            *)
LEMMA ExpiryType ==
  ASSUME now \in Nat
  PROVE  /\ \A e \in Int : FromPanel(e) \in Expiries
         /\ \A x \in Expiries : ForPanel(x) \in Int
         /\ \A x \in Expiries, n \in Int : Extended(x, n) \in Expiries
         /\ \A x \in Expiries, n \in Int : Extended(x, n).mirror \in Int
         /\ \A e \in Int, n \in Int : PanelExtended(e, n) \in Int
         /\ Renewed \in Expiries
         /\ \A e \in Int : Dated(e) \in Expiries
<1>1. \A e \in Int : FromPanel(e) \in Expiries
  BY TimeAssumption DEF FromPanel, Expiries
<1>2. \A x \in Expiries : ForPanel(x) \in Int
  BY DEF ForPanel, Larger, Expiries
<1>3. \A x \in Expiries, n \in Int : Extended(x, n) \in Expiries /\ Extended(x, n).mirror \in Int
  BY DEF Extended, Moved, Dated, Larger, Expiries
<1>4. \A e \in Int, n \in Int : PanelExtended(e, n) \in Int
  BY DEF PanelExtended, Moved, Larger
<1>5. Renewed \in Expiries /\ \A e \in Int : Dated(e) \in Expiries
  BY TimeAssumption DEF Renewed, Dated, Expiries
<1> QED
  BY <1>1, <1>2, <1>3, <1>4, <1>5

LEMMA RequestFields ==
  ASSUME NEW r \in Requests
  PROVE  /\ r.op \in Operations /\ r.gb \in Int /\ r.days \in Int /\ r.on \in BOOLEAN
         /\ r.op # "bulkGb" => r.gb \in Nat
         /\ r.op # "bulkDays" => r.days \in Nat
BY RequestAssumption

(* Whatever an operation sends to the panel is a client.                   *)
LEMMA PutType ==
  ASSUME now \in Nat, NEW r \in Requests, NEW s \in Rows, NEW c \in Clients,
         r.op \notin {"refresh", "connect"}, r.op \in Bulk => ~Skipped(r, c)
  PROVE  Put(r, s, c) \in Clients
<1>1. /\ r.op \in Operations /\ r.gb \in Int /\ r.days \in Int /\ r.on \in BOOLEAN
      /\ r.op # "bulkGb" => r.gb \in Nat
      /\ r.op # "bulkDays" => r.days \in Nat
  BY RequestFields
<1>2. s.gb \in Nat /\ s.exp \in Expiries /\ c.gb \in Nat /\ c.exp \in Int /\ c.enable \in BOOLEAN
  BY DEF Rows, Clients
<1>3. /\ \A g \in Nat : [c EXCEPT !.gb = g] \in Clients
      /\ \A e \in Int : [c EXCEPT !.exp = e] \in Clients
      /\ \A b \in BOOLEAN : [c EXCEPT !.enable = b] \in Clients
      /\ \A e \in Int, b \in BOOLEAN : [c EXCEPT !.exp = e, !.enable = b] \in Clients
      /\ \A g \in Nat, e \in Int, b \in BOOLEAN :
           /\ [c EXCEPT !.gb = g, !.enable = b, !.exp = e] \in Clients
           /\ [c EXCEPT !.exp = e, !.gb = g, !.enable = b] \in Clients
           /\ [c EXCEPT !.gb = g, !.exp = e, !.enable = b] \in Clients
  BY DEF Clients
<1>4. r.op # "bulkGb" => AddGb(r, s, c) \in Clients
  <2>1. ForPanel(s.exp) \in Int
    BY <1>2, ExpiryType
  <2>2. r.op # "bulkGb" => s.gb + r.gb \in Nat
    BY <1>1, <1>2
  <2> QED
    BY <1>3, <2>1, <2>2 DEF AddGb
<1>5. AddDays(r, s, c) \in Clients
  <2>1. Extended(s.exp, r.days).mirror \in Int
    BY <1>1, <1>2, ExpiryType
  <2> QED
    BY <1>3, <2>1 DEF AddDays
<1>6. r.op # "bulkGb" => Edit(r, s, c) \in Clients /\ Renew(r, s, c) \in Clients
  <2>1. now + Month \in Int /\ -Month \in Int
    BY TimeAssumption
  <2> QED
    BY <1>1, <1>3, <2>1 DEF Edit, Renew
<1>7. Toggle(r, s, c) \in Clients /\ Rotate(r, s, c) \in Clients
  BY <1>2, <1>3 DEF Toggle, Rotate
<1>8. r.op # "bulkGb" => Update(r, s, c) \in Clients
  <2>1. now + r.days \in Int
    BY <1>1
  <2> QED
    BY <1>1, <1>3, <2>1 DEF Update
<1>9. r.op = "bulkGb" => BulkGb(r, s, c) \in Clients
  <2>1. r.op = "bulkGb" => c.gb + r.gb \in Nat
    BY <1>1, <1>2 DEF Bulk, Skipped
  <2> QED
    BY <1>3, <2>1 DEF BulkGb
<1>10. BulkDays(r, s, c) \in Clients
  <2>1. PanelExtended(c.exp, r.days) \in Int
    BY <1>1, <1>2, ExpiryType
  <2> QED
    BY <1>3, <2>1 DEF BulkDays
<1>11. BulkClear(r, s, c) \in Clients
  <2>1. [c EXCEPT !.exp = 0] \in Clients
    BY <1>2 DEF Clients
  <2> QED
    BY <2>1 DEF BulkClear
<1> QED
  BY <1>1, <1>4, <1>5, <1>6, <1>7, <1>8, <1>9, <1>10, <1>11 DEF Put, Operations

(* A client copied into a row, and whatever an operation saves, is a row.  *)
LEMMA CopiedType ==
  ASSUME now \in Nat, row \in Rows, NEW s \in Rows, NEW c \in Clients, NEW aged \in BOOLEAN
  PROVE  Copied(c, s, aged) \in Rows
<1>1. /\ s.gb \in Nat /\ c.gb \in Nat /\ row.gb \in Nat /\ c.exp \in Int
      /\ row.exp \in Expiries
      /\ s.status \in {"active", "disabled", "expired"}
      /\ row.status \in {"active", "disabled", "expired"}
  BY DEF Rows, Clients
<1>2. FromPanel(c.exp) \in Expiries
  BY <1>1, ExpiryType
<1>3. Copied(c, s, aged).status \in {"active", "disabled", "expired"}
  BY <1>1 DEF Copied
<1>4. Copied(c, s, aged).gb \in Nat /\ Copied(c, s, aged).exp \in Expiries
  BY <1>1, <1>2 DEF Copied
<1>5. Copied(c, s, aged) = [gb |-> Copied(c, s, aged).gb, exp |-> Copied(c, s, aged).exp,
                            status |-> Copied(c, s, aged).status]
  BY DEF Copied
<1> QED
  BY <1>3, <1>4, <1>5 DEF Rows

LEMMA SaveType ==
  ASSUME now \in Nat, row \in Rows, NEW r \in Requests, NEW s \in Rows, NEW c,
         c \in Clients \/ r.op = "update", r.op \in Bulk => ~Skipped(r, c)
  PROVE  Save(r, s, c) \in Rows
<1>1. /\ r.op \in Operations /\ r.gb \in Int /\ r.days \in Int /\ r.on \in BOOLEAN
      /\ r.op # "bulkGb" => r.gb \in Nat
      /\ r.op # "bulkDays" => r.days \in Nat
  BY RequestFields
<1>2. /\ s.gb \in Nat /\ s.exp \in Expiries /\ row.gb \in Nat /\ row.exp \in Expiries
      /\ row.status \in {"active", "disabled", "expired"}
  BY DEF Rows
<1>3. CASE r.op = "update"
  <2>1. Dated(now + r.days) \in Expiries
    <3>1. now + r.days \in Int
      BY <1>1
    <3> QED
      BY <3>1, ExpiryType
  <2> QED
    BY <1>1, <1>3, <2>1 DEF Save, Rows
<1>4. CASE r.op = "refresh"
  BY <1>4, CopiedType DEF Save
<1>5. ASSUME c \in Clients, r.op = "connect" PROVE Save(r, s, c) \in Rows
  <2>1. c.exp \in Int /\ Dated(c.exp) \in Expiries
    BY <1>5, ExpiryType DEF Clients
  <2>2. Connected(c, s) \in Rows
    BY <2>1, <1>2 DEF Connected, Rows, Expiries
  <2> QED
    BY <1>5, <2>2 DEF Save
<1>6. /\ \A g \in Nat : [row EXCEPT !.gb = g] \in Rows
      /\ \A st \in {"active", "disabled"} : [row EXCEPT !.status = st] \in Rows
      /\ \A g \in Nat, st \in {"active", "disabled"} :
           [row EXCEPT !.gb = g, !.status = st] \in Rows
      /\ \A e \in Expiries, st \in {"active", "disabled"} :
           [row EXCEPT !.exp = e, !.status = st] \in Rows
      /\ \A g \in Nat, e \in Expiries, st \in {"active", "disabled"} :
           [row EXCEPT !.gb = g, !.exp = e, !.status = st] \in Rows
  BY DEF Rows
<1>7. CASE r.op \in {"addGb", "toggle", "rotate"}
  <2>1. s.gb + r.gb \in Nat
    BY <1>1, <1>2, <1>7
  <2> QED
    BY <1>6, <1>7, <2>1 DEF Save, SaveGb
<1>8. CASE r.op = "bulkGb"
  <2>1. c.gb + r.gb \in Nat
    BY <1>1, <1>8 DEF Clients, Bulk, Skipped
  <2> QED
    BY <1>1, <1>6, <1>8, <2>1 DEF Save
<1>9. CASE r.op = "edit"
  <2>1. Dated(now + Month) \in Expiries
    BY TimeAssumption, ExpiryType
  <2> QED
    BY <1>1, <1>6, <1>9, <2>1 DEF Save
<1>10. CASE r.op \in {"addDays", "bulkDays"}
  <2>1. Extended(s.exp, r.days) \in Expiries
    BY <1>1, <1>2, ExpiryType
  <2> QED
    BY <1>6, <1>10, <2>1 DEF Save
<1>11. CASE r.op = "renew"
  <2>1. Renewed \in Expiries
    BY ExpiryType
  <2> QED
    BY <1>1, <1>2, <1>6, <1>11, <2>1 DEF Save
<1>12. CASE r.op = "bulkClear"
  <2>1. FromPanel(0) \in Expiries
    BY ExpiryType
  <2> QED
    BY <1>6, <1>12, <2>1 DEF Save
<1> QED
  BY <1>1, <1>3, <1>4, <1>5, <1>7, <1>8, <1>9, <1>10, <1>11, <1>12 DEF Operations

-----------------------------------------------------------------------------
(* A request that ends, or comes one step further, leaves the others alone.*)
LEMMA WorkSteps ==
  ASSUME Work, NEW j \in Jobs
  PROVE  /\ Give(j) => Work'
         /\ \A d \in JobSet : Ready(d) /\ job' = [job EXCEPT ![j] = d] => Work'
         /\ job[j] # NoRequest => job[j] \in JobSet /\ Ready(job[j])
<1>1. Give(j) => Work'
  BY DEF Work, Give
<1>2. \A d \in JobSet : Ready(d) /\ job' = [job EXCEPT ![j] = d] => Work'
  BY DEF Work
<1>3. job[j] # NoRequest => job[j] \in JobSet /\ Ready(job[j])
  BY DEF Work
<1> QED
  BY <1>1, <1>2, <1>3

LEMMA ForwardSteps ==
  ASSUME Work, NEW j \in Jobs, job[j] # NoRequest, Forward(j, "save"),
         (job[j].c \in Clients /\ job[j].at = "put") \/ job[j].req.op = "update"
  PROVE  Work'
<1> DEFINE d == [job[j] EXCEPT !.at = "save"]
<1>1. job[j] \in JobSet
  BY WorkSteps
<1>2. d \in JobSet /\ Ready(d)
  BY <1>1, WorkSteps DEF JobSet, Ready, Bulk, Skipped
<1>3. job' = [job EXCEPT ![j] = d]
  BY DEF Forward
<1> QED
  BY <1>2, <1>3, WorkSteps

LEMMA UpsetType == ASSUME Data, Upset PROVE upsets' \in Nat
BY DEF Data, Upset

LEMMA TypeInitial == Init => TypeInv
<1> SUFFICES ASSUME Init PROVE TypeInv
  OBVIOUS
<1>1. client \in Clients
  BY TimeAssumption DEF Init, Clients
<1>2. row \in Rows
  BY TimeAssumption, MirrorAssumption DEF Init, Rows, Expiries
<1> QED
  BY <1>1, <1>2, TimeAssumption DEF Init, TypeInv, Data, Work, TickInv

LEMMA TypeInductive == TypeInv /\ [Next]_vars => TypeInv'
<1> SUFFICES ASSUME TypeInv, [Next]_vars PROVE TypeInv'
  OBVIOUS
<1> USE DEF TypeInv
<1>1. ASSUME NEW j \in Jobs, NEW r \in Requests, Ask(j, r) \/ Again(j, r)
      PROVE  TypeInv'
  <2>1. Begin(j, r)
    BY <1>1 DEF Ask, Again
  <2>2. Larger(top, Sets(r)) \in Nat
    BY RequestFields DEF Sets, Larger, Data
  <2>3. Data'
    <3>1. retry' \in Nat
      BY <1>1 DEF Ask, Again, Data
    <3> QED
      BY <2>1, <2>2, <3>1 DEF Begin, Data, counters
  <2>4. Work'
    <3> DEFINE d == [at |-> "get", req |-> r, c |-> NoClient,
                     s |-> IF r.op \in Later THEN Unread ELSE row]
    <3>1. Unread \in Rows
      BY DEF Unread, Rows, Expiries
    <3>2. d \in JobSet /\ Ready(d)
      BY <3>1 DEF JobSet, Ready, Data
    <3> QED
      BY <2>1, <3>2, WorkSteps DEF Begin
  <2> QED
    BY <2>1, <2>3, <2>4 DEF Begin, TickInv
<1>2. ASSUME NEW j \in Jobs, Get(j) PROVE TypeInv'
  <2>1. retry' \in Nat
    BY <1>2 DEF Get, Fails, Data
  <2>2. Work'
    <3>1. job[j] \in JobSet /\ job[j].req \in Requests
      BY <1>2, WorkSteps DEF Get, JobSet
    <3>2. CASE Fails(j)
      BY <3>2, WorkSteps DEF Fails
    <3>3. CASE Forward(j, "save") /\ job[j].req.op = "update"
      BY <1>2, <3>3, ForwardSteps DEF Get
    <3>4. CASE client # NoClient
      <4> DEFINE op == job[j].req.op
                 d == [job[j] EXCEPT !.c = client,
                         !.at = CASE op \in {"refresh", "connect"} -> "save"
                                  [] op \in Later \ {"update"} -> "find"
                                  [] OTHER -> "put"]
      <4>1. client \in Clients
        BY <3>4 DEF Data
      <4>2. job' = [job EXCEPT ![j] = d]
        BY <1>2, <3>4 DEF Get
      <4>3. d \in JobSet
        BY <3>1, <4>1 DEF JobSet
      <4>4. Ready(d)
        BY <3>1, <4>1 DEF JobSet, Ready, Later, Bulk
      <4> QED
        BY <4>2, <4>3, <4>4, WorkSteps
    <3> QED
      BY <1>2, <3>2, <3>3, <3>4 DEF Get
  <2> QED
    BY <1>2, <2>1, <2>2 DEF Get, Data, TickInv, counters, history
<1>3. ASSUME NEW j \in Jobs, Find(j) PROVE TypeInv'
  <2> DEFINE d == [job[j] EXCEPT !.s = row, !.at = "put"]
  <2>1. job[j] \in JobSet /\ Ready(job[j])
    BY <1>3, WorkSteps DEF Find
  <2>2. d \in JobSet /\ (~Skipped(job[j].req, job[j].c) => Ready(d))
    BY <1>3, <2>1 DEF Find, JobSet, Ready, Data, Skipped
  <2>3. Work'
    <3>1. IF Skipped(job[j].req, job[j].c) THEN Give(j) ELSE job' = [job EXCEPT ![j] = d]
      BY <1>3 DEF Find
    <3> HIDE DEF d
    <3> QED
      BY <2>2, <3>1, WorkSteps
  <2> QED
    BY <1>3, <2>3 DEF Find, Data, TickInv, counters, history
<1>4. ASSUME NEW j \in Jobs, PutClient(j) \/ AnswerLost(j) PROVE TypeInv'
  <2>1. /\ job[j] # NoRequest /\ job[j].at = "put"
        /\ client' = Put(job[j].req, job[j].s, job[j].c)
    BY <1>4 DEF PutClient, AnswerLost
  <2>2. /\ job[j].req \in Requests /\ job[j].s \in Rows /\ job[j].c \in Clients
        /\ job[j].req.op \notin {"refresh", "connect"}
        /\ job[j].req.op \in Bulk => ~Skipped(job[j].req, job[j].c)
    BY <2>1, WorkSteps DEF JobSet, Ready
  <2>3. client' \in Clients
    BY <2>1, <2>2, PutType DEF Data
  <2>4. Work'
    BY <1>4, <2>1, <2>2, WorkSteps, ForwardSteps DEF PutClient, AnswerLost, Fails
  <2>5. retry' \in Nat /\ upsets' \in Nat
    BY <1>4 DEF PutClient, AnswerLost, Fails, Upset, Data, counters
  <2>6. torn' \in BOOLEAN /\ off' \in BOOLEAN /\ calm' \in BOOLEAN
    BY <1>4, <2>3 DEF PutClient, AnswerLost, Data, Clients, history
  <2>7. UNCHANGED <<row, now, cron, requests, top>>
    BY <1>4 DEF PutClient, AnswerLost, counters
  <2>8. sold' \in Nat
    <3>1. Adds(job[j]) \in Nat
      BY <2>2, RequestFields DEF Adds, Larger
    <3> QED
      BY <1>4, <3>1 DEF PutClient, AnswerLost, Data
  <2> QED
    BY <2>3, <2>4, <2>5, <2>6, <2>7, <2>8 DEF Data, TickInv
<1>5. ASSUME NEW j \in Jobs, SaveRow(j) PROVE TypeInv'
  <2>1. /\ job[j].req \in Requests /\ job[j].s \in Rows
        /\ job[j].c \in Clients \/ job[j].req.op = "update"
        /\ job[j].req.op \in Bulk => ~Skipped(job[j].req, job[j].c)
    BY <1>5, WorkSteps DEF SaveRow, JobSet, Ready
  <2>2. row' \in Rows
    BY <1>5, <2>1, SaveType DEF SaveRow, Data
  <2>3. Work'
    BY <1>5, WorkSteps DEF SaveRow
  <2> QED
    BY <1>5, <2>2, <2>3 DEF SaveRow, Data, TickInv, counters, history
<1>6. ASSUME NEW j \in Jobs, Refused(j) \/ SaveFails(j) PROVE TypeInv'
  <2>1. job[j] # NoRequest
    BY <1>6 DEF Refused, SaveFails
  <2>2. Work'
    BY <1>6, <2>1, WorkSteps, ForwardSteps DEF Refused, SaveFails, Fails
  <2>3. retry' \in Nat /\ upsets' \in Nat
    BY <1>6 DEF Refused, SaveFails, Fails, Upset, Data
  <2>4. torn' \in BOOLEAN
    BY <1>6 DEF Refused, SaveFails, Data
  <2> QED
    BY <1>6, <2>2, <2>3, <2>4 DEF Refused, SaveFails, Data, TickInv
<1>7. CASE Restart
  <2>1. Work' /\ TickInv'
    BY <1>7 DEF Restart, Work, TickInv
  <2>2. upsets' \in Nat /\ torn' \in BOOLEAN
    BY <1>7, UpsetType DEF Restart, Data
  <2> QED
    BY <1>7, <2>1, <2>2 DEF Restart, Data
<1>8. CASE ListClients
  <2>1. Unread \in Rows
    BY DEF Unread, Rows, Expiries
  <2>2. off' \in BOOLEAN
    <3>1. client # NoClient => client.enable \in BOOLEAN
      BY DEF Data, Clients
    <3> QED
      BY <1>8, <3>1 DEF ListClients
  <2>4. upsets' \in Nat
    BY <1>8, UpsetType DEF ListClients, Data
  <2>3. TickInv'
    BY <1>8, <2>1 DEF ListClients, TickInv, Data
  <2> QED
    BY <1>8, <2>2, <2>3, <2>4 DEF ListClients, Data, Work
<1>9. CASE ReadRows
  <2>1. TickInv'
    BY <1>9 DEF ReadRows, TickInv, Data
  <2> QED
    BY <1>9, <2>1 DEF ReadRows, Data, Work, counters, history
<1>10. CASE ApplyListed \/ SaveConfirmed
  <2>1. /\ cron.c \in Clients \cup {NoClient} /\ cron.s \in Rows
        /\ ApplyListed => cron.c \in Clients
    BY <1>10 DEF ApplyListed, SaveConfirmed, TickInv
  <2>2. row' \in Rows
    <3>1. CASE cron.c # NoClient
      BY <1>10, <2>1, <3>1, CopiedType DEF ApplyListed, SaveConfirmed, Data
    <3>2. CASE cron.c = NoClient
      <4>1. [row EXCEPT !.status = "disabled"] \in Rows
        BY DEF Data, Rows
      <4> QED
        BY <1>10, <2>1, <3>2, <4>1, NoneAssumption
           DEF ApplyListed, SaveConfirmed, Data, Clients
    <3> QED
      BY <3>1, <3>2
  <2> QED
    BY <1>10, <2>2 DEF ApplyListed, SaveConfirmed, Data, Work, TickInv, counters, history
<1>11. CASE Confirm
  <2>1. row' \in Rows /\ upsets' \in Nat
    BY <1>11 DEF Confirm, Data, Upset
  <2>2. TickInv'
    BY <1>11 DEF Confirm, TickInv, Data
  <2> QED
    BY <1>11, <2>1, <2>2 DEF Confirm, Data, Work, history
<1>12. CASE Connect
  <2>1. client' \in Clients
    BY <1>12 DEF Connect, Elsewhere, Data, Clients
  <2>2. upsets' \in Nat
    BY <1>12, UpsetType DEF Connect, Elsewhere
  <2>3. Work' /\ TickInv'
    BY <1>12 DEF Connect, Elsewhere, Work, TickInv
  <2> QED
    BY <1>12, <2>1, <2>2, <2>3 DEF Connect, Elsewhere, Data
<1>13. CASE PanelEdit
  <2>1. client' \in Clients \cup {NoClient} /\ top' \in Nat
    <3>1. client \in Clients
      BY <1>13 DEF PanelEdit, Elsewhere, Data
    <3>2. /\ \A v \in Nat : [client EXCEPT !.gb = v] \in Clients /\ Larger(top, v) \in Nat
          /\ [client EXCEPT !.enable = ~client.enable] \in Clients
      BY <3>1 DEF Clients, Larger, Data
    <3> QED
      BY <1>13, <3>1, <3>2, TimeAssumption DEF PanelEdit, Data
  <2>2. off' \in BOOLEAN
    BY <1>13, <2>1 DEF PanelEdit, Clients, Data
  <2>3. upsets' \in Nat
    BY <1>13, UpsetType DEF PanelEdit, Elsewhere
  <2>4. Work' /\ TickInv'
    BY <1>13 DEF PanelEdit, Elsewhere, Work, TickInv
  <2>5. UNCHANGED <<row, now, retry, requests, sold, torn>> /\ calm' = FALSE
    BY <1>13 DEF PanelEdit, Elsewhere
  <2> QED
    BY <2>1, <2>2, <2>3, <2>4, <2>5 DEF Data
<1>14. CASE Tick
  <2>1. upsets' \in Nat /\ now' \in Nat
    BY <1>14, UpsetType DEF Tick, Data
  <2>2. Work' /\ TickInv'
    BY <1>14 DEF Tick, Work, TickInv
  <2> QED
    BY <1>14, <2>1, <2>2 DEF Tick, Data
<1>15. CASE UNCHANGED vars
  BY <1>15 DEF vars, counters, history, Data, Work, TickInv
<1> QED
  BY <1>1, <1>2, <1>3, <1>4, <1>5, <1>6, <1>7, <1>8, <1>9, <1>10, <1>11, <1>12, <1>13,
     <1>14, <1>15 DEF Next, Reconcile

(* The variables keep their types, whatever interleaves and fails.         *)
THEOREM TypeCorrect == Spec => []TypeOK
<1>1. TypeInv => TypeOK
  BY DEF TypeInv, Data, Work, TickInv, TypeOK, JobSet
<1> QED
  BY TypeInitial, TypeInductive, <1>1, PTL DEF Spec

-----------------------------------------------------------------------------
(* During a tick, whatever shows the client off or missing was noted: the  *)
(* panel as it is now, and the copy of the client the tick works with.     *)
Seen == cron # NoRequest =>
  /\ client = NoClient => off
  /\ client # NoClient /\ ~client.enable => off
  /\ cron.c # NoClient /\ ~cron.c.enable => off
  /\ cron.c = NoClient /\ cron.at = "save" => off

(* A client that is on never makes an active row a disabled one.           *)
LEMMA CopiedKeepsOn ==
  ASSUME NEW c \in Clients, NEW s \in Rows, NEW aged \in BOOLEAN,
         row.status = "active", Copied(c, s, aged).status = "disabled"
  PROVE  ~c.enable
<1> SUFFICES ASSUME c.enable PROVE FALSE
  OBVIOUS
<1>1. s.status \in {"active", "disabled", "expired"}
  BY DEF Rows
<1> QED
  BY <1>1 DEF Copied

LEMMA SeenInductive == ASSUME TypeInv, Seen, [Next]_vars PROVE Seen'
<1> USE DEF TypeInv
<1>1. ASSUME NEW j \in Jobs, PutClient(j) \/ AnswerLost(j) PROVE Seen'
  <2>1. /\ job[j] # NoRequest /\ job[j].at = "put"
        /\ client' = Put(job[j].req, job[j].s, job[j].c)
        /\ cron' = cron /\ off' = (off \/ ~client'.enable)
    BY <1>1 DEF PutClient, AnswerLost
  <2>2. client' \in Clients
    BY <2>1, WorkSteps, PutType DEF JobSet, Ready, Data
  <2>3. client' # NoClient
    BY <2>2, NoneAssumption DEF Clients
  <2> QED
    BY <2>1, <2>3 DEF Seen
<1>2. CASE ListClients
  <2>1. client # NoClient => client.enable \in BOOLEAN
    BY DEF Data, Clients
  <2>2. /\ client' = client /\ cron'.c \in {client, NoClient} /\ cron'.at = "rows"
        /\ off' = IF client = NoClient THEN TRUE ELSE ~client.enable
    BY <1>2 DEF ListClients
  <2> QED
    BY <2>1, <2>2 DEF Seen
<1>3. CASE ReadRows
  BY <1>3 DEF ReadRows, Seen, TickInv
<1>4. CASE Confirm
  BY <1>4 DEF Confirm, Seen, TickInv
<1>5. CASE Connect
  <2>1. client' # NoClient /\ client'.enable = client.enable /\ client # NoClient
    BY <1>5, NoneAssumption DEF Connect, Elsewhere, Data, Clients
  <2> QED
    BY <1>5, <2>1 DEF Connect, Elsewhere, Seen
<1>6. CASE PanelEdit
  <2>1. off' = (off \/ IF client' = NoClient THEN TRUE ELSE ~client'.enable) /\ cron' = cron
    BY <1>6 DEF PanelEdit, Elsewhere
  <2> QED
    BY <2>1 DEF Seen
<1>7. CASE ApplyListed \/ SaveConfirmed \/ Restart
  BY <1>7 DEF ApplyListed, SaveConfirmed, Restart, Seen
<1>8. ASSUME NEW j \in Jobs, NEW r \in Requests, Ask(j, r) \/ Again(j, r) PROVE Seen'
  BY <1>8 DEF Ask, Again, Begin, Seen
<1>9. ASSUME NEW j \in Jobs,
             Get(j) \/ Find(j) \/ SaveRow(j) \/ Refused(j) \/ SaveFails(j)
      PROVE  Seen'
  BY <1>9 DEF Get, Find, SaveRow, Refused, SaveFails, Seen
<1>10. CASE Tick \/ UNCHANGED vars
  BY <1>10 DEF Tick, vars, Seen
<1> QED
  BY <1>1, <1>2, <1>3, <1>4, <1>5, <1>6, <1>7, <1>8, <1>9, <1>10 DEF Next, Reconcile

(* The tick takes a row off only when the client was off or missing at     *)
(* some moment of it, for any number of requests that work on the account. *)
THEOREM TickSparesRows == Spec => ReconcileSpares
<1>1. Spec => []TypeInv
  BY TypeInductive, TypeInitial, PTL DEF Spec
<1>2. Init => Seen
  BY DEF Init, Seen
<1>3. TypeInv /\ Seen /\ [Next]_vars => Seen'
  BY SeenInductive
<1>4. ASSUME TypeInv, Seen, [Next]_vars
      PROVE  [Reconcile /\ row.status = "active" /\ row'.status = "disabled" => off]_vars
  <2> SUFFICES ASSUME Reconcile, row.status = "active", row'.status = "disabled"
               PROVE  off
    OBVIOUS
  <2>1. CASE ApplyListed
    <3>1. cron # NoRequest /\ cron.c \in Clients /\ cron.s \in Rows
      BY <1>4, <2>1 DEF ApplyListed, TypeInv, TickInv
    <3>2. Copied(cron.c, cron.s, TRUE).status = "disabled"
      BY <2>1 DEF ApplyListed
    <3> QED
      BY <1>4, <3>1, <3>2, CopiedKeepsOn, NoneAssumption DEF Seen, Clients
  <2>2. CASE SaveConfirmed
    <3>1. cron # NoRequest /\ cron.at = "save" /\ cron.c \in Clients \cup {NoClient}
          /\ cron.s \in Rows
      BY <1>4, <2>2 DEF SaveConfirmed, TypeInv, TickInv
    <3>2. cron.c # NoClient => Copied(cron.c, cron.s, FALSE).status = "disabled"
      BY <2>2 DEF SaveConfirmed
    <3> QED
      BY <1>4, <3>1, <3>2, CopiedKeepsOn DEF Seen
  <2>3. CASE Confirm
    BY <1>4, <2>3 DEF Confirm, Seen
  <2>4. CASE ListClients \/ ReadRows
    BY <2>4 DEF ListClients, ReadRows
  <2> QED
    BY <2>1, <2>2, <2>3, <2>4 DEF Reconcile
<1> QED
  BY <1>1, <1>2, <1>3, <1>4, PTL DEF Spec, ReconcileSpares

-----------------------------------------------------------------------------
(* Volume.  Whatever carries a volume - the panel, the row, what a request *)
(* or the tick has read, what a request is about to write - stays within   *)
(* what was sold; every write takes its sum from one of these.             *)

Sold == top + sold

\* What a request has read, and is about to write to the row: t bounds the volumes
\* that are set, b all of them.
Fits(d, t, b) ==
  /\ Sets(d.req) <= t
  /\ d.s.gb <= b
  /\ d.at = "save" /\ d.req.op = "addGb" => d.s.gb + d.req.gb <= b
  /\ d.c # NoClient =>
       /\ d.c.gb <= b
       /\ d.at = "save" /\ d.req.op = "bulkGb" => d.c.gb + d.req.gb <= b

Volume ==
  /\ client # NoClient => client.gb <= Sold
  /\ row.gb <= Sold
  /\ \A j \in Jobs : job[j] # NoRequest => Fits(job[j], top, Sold)
  /\ cron # NoRequest /\ cron.c # NoClient => cron.c.gb <= Sold

VolumeInv == ~torn => Volume

LEMMA Sums ==
  \A a, b, c, d \in Nat : a <= b /\ c <= d => a + c <= b + d /\ a + c \in Nat /\ b + d \in Nat
OBVIOUS

(* The bound only grows, and what fits goes on to fit.                     *)
LEMMA SoldGrows ==
  ASSUME Data, Data', top' >= top, sold' >= sold
  PROVE  Sold \in Nat /\ Sold' \in Nat /\ Sold <= Sold' /\ top <= Sold /\ top' <= Sold'
<1>1. /\ top \in Nat /\ sold \in Nat /\ top' \in Nat /\ sold' \in Nat
      /\ top <= top' /\ sold <= sold'
  BY DEF Data
<1>2. Sold = top + sold /\ Sold' = top' + sold'
  BY DEF Sold
<1>3. \A a, b \in Nat : a <= a + b
  OBVIOUS
<1> QED
  BY <1>1, <1>2, <1>3, Sums

LEMMA FitsGrows ==
  ASSUME NEW d \in JobSet, NEW t \in Nat, NEW b \in Nat, NEW u \in Nat, NEW e \in Nat,
         t <= u, b <= e, Fits(d, t, b)
  PROVE  Fits(d, u, e)
<1>1. /\ d.s.gb \in Nat /\ d.req.gb \in Int /\ (d.req.op # "bulkGb" => d.req.gb \in Nat)
      /\ d.c # NoClient => d.c.gb \in Nat
  BY RequestFields DEF JobSet, Rows, Clients
<1>2. Sets(d.req) \in Nat
  BY <1>1 DEF Sets
<1> QED
  BY <1>1, <1>2 DEF Fits

(* What reaches the panel is what was there or sold, and what is added; so *)
(* is what the request then saves.                                         *)
LEMMA PutFits ==
  ASSUME NEW d \in JobSet, Ready(d), d.at = "put", NEW t \in Nat, NEW b \in Nat, t <= b,
         Fits(d, t, b)
  PROVE  /\ Adds(d) \in Nat
         /\ Put(d.req, d.s, d.c).gb <= b + Adds(d)
         /\ Fits([d EXCEPT !.at = "save"], t, b + Adds(d))
<1> DEFINE r == d.req  s == d.s  c == d.c
<1>1. /\ r.op \in Operations \ {"refresh", "connect"} /\ r.gb \in Int /\ s.gb \in Nat
      /\ r.op # "bulkGb" => r.gb \in Nat
      /\ c \in Clients /\ c.gb \in Nat /\ c # NoClient
  <2>1. r \in Requests /\ s \in Rows /\ c \in Clients
    BY DEF JobSet, Ready
  <2>2. c # NoClient
    BY <2>1, NoneAssumption DEF Clients
  <2> QED
    BY <2>1, <2>2, RequestFields DEF Rows, Clients, Ready
<1>2. /\ Adds(d) \in Nat
      /\ r.op \in {"addGb", "bulkGb"} => r.gb <= Adds(d)
  BY <1>1 DEF Adds, Larger
<1>3. Sets(r) <= t /\ s.gb <= b /\ c.gb <= b
  BY <1>1 DEF Fits
<1>4. Put(r, s, c).gb <= b + Adds(d)
  <2>1. CASE r.op = "addGb"
    <3>1. Put(r, s, c).gb = s.gb + r.gb
      BY <1>1, <2>1 DEF Put, AddGb, Clients
    <3> QED
      BY <1>1, <1>2, <1>3, <2>1, <3>1
  <2>2. CASE r.op = "bulkGb"
    <3>1. Put(r, s, c).gb = c.gb + r.gb
      BY <1>1, <2>2 DEF Put, BulkGb, Clients
    <3> QED
      BY <1>1, <1>2, <1>3, <2>2, <3>1
  <2>3. CASE r.op \in {"edit", "renew", "update"}
    <3>1. Put(r, s, c).gb = r.gb
      BY <1>1, <2>3 DEF Put, Edit, Renew, Update, Clients
    <3>2. Sets(r) = r.gb
      BY <2>3 DEF Sets
    <3> QED
      BY <1>1, <1>2, <1>3, <3>1, <3>2
  <2>4. CASE r.op \in {"addDays", "toggle", "rotate", "bulkDays", "bulkClear"}
    <3>1. Put(r, s, c).gb = c.gb
      BY <1>1, <2>4 DEF Put, AddDays, Toggle, Rotate, BulkDays, BulkClear, Clients
    <3> QED
      BY <1>1, <1>2, <1>3, <3>1
  <2> QED
    BY <1>1, <2>1, <2>2, <2>3, <2>4 DEF Operations
<1>5. Fits([d EXCEPT !.at = "save"], t, b + Adds(d))
  <2> DEFINE e == [d EXCEPT !.at = "save"]
  <2>1. e.req = r /\ e.s = s /\ e.c = c /\ e.at = "save"
    BY DEF JobSet
  <2>2. r.op = "addGb" => s.gb + r.gb <= b + Adds(d)
    BY <1>1, <1>2, <1>3
  <2>3. r.op = "bulkGb" => c.gb + r.gb <= b + Adds(d)
    BY <1>1, <1>2, <1>3
  <2>4. s.gb <= b + Adds(d) /\ c.gb <= b + Adds(d)
    BY <1>1, <1>2, <1>3
  <2> HIDE DEF e
  <2> QED
    BY <1>3, <2>1, <2>2, <2>3, <2>4 DEF Fits
<1> QED
  BY <1>2, <1>4, <1>5

(* What reaches the row fits already.                                      *)
LEMMA CopiedFits ==
  ASSUME NEW c, NEW s, NEW aged, NEW b, row.gb <= b, c.gb <= b
  PROVE  Copied(c, s, aged).gb <= b
BY DEF Copied

LEMMA SaveFits ==
  ASSUME row \in Rows, NEW d \in JobSet, Ready(d), d.at = "save",
         NEW t \in Nat, NEW b \in Nat, t <= b, Fits(d, t, b), row.gb <= b
  PROVE  Save(d.req, d.s, d.c).gb <= b
<1> DEFINE r == d.req  s == d.s  c == d.c
<1>1. /\ r.op \in Operations /\ r.gb \in Int /\ s.gb \in Nat
      /\ r.op # "update" => c \in Clients /\ c.gb \in Nat /\ c # NoClient
  <2>1. r \in Requests /\ s \in Rows /\ (r.op # "update" => c \in Clients)
    BY DEF JobSet, Ready
  <2>2. c \in Clients => c # NoClient
    BY NoneAssumption DEF Clients
  <2> QED
    BY <2>1, <2>2, RequestFields DEF Rows, Clients
<1>2. Sets(r) <= t /\ s.gb <= b /\ (r.op # "update" => c.gb <= b)
  BY <1>1 DEF Fits
<1>3. CASE r.op = "addGb"
  <2>1. Save(r, s, c).gb = s.gb + r.gb
    BY <1>3 DEF Save, SaveGb, Rows
  <2> QED
    BY <1>3, <2>1 DEF Fits
<1>4. CASE r.op = "bulkGb"
  <2>1. Save(r, s, c).gb = c.gb + r.gb
    BY <1>4 DEF Save, Rows
  <2> QED
    BY <1>1, <1>4, <2>1 DEF Fits
<1>5. CASE r.op \in {"edit", "renew", "update"}
  <2>1. Save(r, s, c).gb \in {r.gb, s.gb}
    BY <1>5 DEF Save, Rows
  <2>2. Sets(r) = r.gb
    BY <1>5 DEF Sets
  <2> QED
    BY <1>1, <1>2, <2>1, <2>2
<1>6. CASE r.op = "refresh"
  BY <1>1, <1>2, <1>6, CopiedFits DEF Save
<1>7. CASE r.op \in {"addDays", "toggle", "rotate", "connect", "bulkDays", "bulkClear"}
  <2>1. Save(r, s, c).gb = row.gb
    BY <1>7 DEF Save, Connected, Rows
  <2> QED
    BY <2>1
<1> QED
  BY <1>1, <1>3, <1>4, <1>5, <1>6, <1>7 DEF Operations

(* A step that leaves what is sold, or adds to it, and changes one request.*)
LEMMA VolumeStep ==
  ASSUME TypeInv, TypeInv', Volume, top' >= top, sold' >= sold,
         client' # NoClient => client'.gb <= Sold',
         row'.gb <= Sold',
         \A k \in Jobs : job'[k] = job[k] \/ job'[k] = NoRequest \/ Fits(job'[k], top', Sold'),
         cron' # NoRequest /\ cron'.c # NoClient => cron'.c.gb <= Sold'
  PROVE  Volume'
<1>1. Sold \in Nat /\ Sold' \in Nat /\ Sold <= Sold' /\ top \in Nat /\ top' \in Nat /\ top <= top'
  BY SoldGrows DEF TypeInv, Data
<1> HIDE DEF Sold
<1>2. ASSUME NEW k \in Jobs, job[k] # NoRequest PROVE Fits(job[k], top', Sold')
  <2>1. job[k] \in JobSet /\ Fits(job[k], top, Sold)
    BY <1>2, WorkSteps DEF TypeInv, Volume
  <2> QED
    BY <1>1, <2>1, FitsGrows
<1> QED
  BY <1>2 DEF Volume

\* A step that leaves the panel, the row and the tick alone.
Apart == UNCHANGED <<client, row, cron, top, sold>>

LEMMA ApartKeeps ==
  ASSUME TypeInv, TypeInv', Volume, Apart,
         \A k \in Jobs : job'[k] = job[k] \/ job'[k] = NoRequest \/ Fits(job'[k], top', Sold')
  PROVE  Volume'
<1>1. top' >= top /\ sold' >= sold /\ Sold' = Sold
  BY DEF Apart, TypeInv, Data, Sold
<1> HIDE DEF Sold
<1> QED
  BY <1>1, VolumeStep DEF Apart, Volume

LEMMA VolumeInitial == Init => VolumeInv
BY DEF Init, VolumeInv, Volume, Sold

LEMMA VolumeInductive ==
  ASSUME TypeInv, TypeInv', VolumeInv, [Next]_vars
  PROVE  VolumeInv'
<1> SUFFICES ASSUME ~torn' PROVE Volume'
  BY DEF VolumeInv
<1>1. ~torn /\ Volume
  <2>1. torn => torn'
    BY DEF Next, Ask, Again, Begin, Get, Find, PutClient, SaveRow, Refused, AnswerLost, SaveFails,
       Reconcile, ListClients, ReadRows, ApplyListed, Confirm, SaveConfirmed, Restart, Connect,
       Elsewhere, PanelEdit, Tick, vars, history
  <2> QED
    BY <2>1 DEF VolumeInv
<1>2. Sold \in Nat /\ top \in Nat /\ sold \in Nat /\ top <= Sold
  <2>1. \A a, b \in Nat : a + b \in Nat /\ a <= a + b
    OBVIOUS
  <2> QED
    BY <2>1 DEF TypeInv, Data, Sold
<1>3. ASSUME NEW j \in Jobs, NEW r \in Requests, Ask(j, r) \/ Again(j, r) PROVE Volume'
  <2> DEFINE d == [at |-> "get", req |-> r, c |-> NoClient,
                   s |-> IF r.op \in Later THEN Unread ELSE row]
  <2>1. /\ job' = [job EXCEPT ![j] = d] /\ top' = Larger(top, Sets(r))
        /\ UNCHANGED <<client, row, cron, sold>>
    BY <1>3 DEF Ask, Again, Begin
  <2>2. Sets(r) \in Nat
    BY RequestAssumption DEF Sets
  <2>3. top' >= top /\ Sets(r) <= top'
    BY <1>2, <2>1, <2>2 DEF Larger
  <2>4. Sold <= Sold' /\ Sold' \in Nat
    BY <1>2, <2>1, <2>3, SoldGrows DEF TypeInv
  <2> HIDE DEF Sold
  <2>5. /\ row.gb <= Sold' /\ row.gb \in Nat
        /\ client # NoClient => client.gb <= Sold'
        /\ cron # NoRequest /\ cron.c # NoClient => cron.c.gb <= Sold'
    <3>1. row.gb <= Sold /\ row.gb \in Nat
      BY <1>1 DEF Volume, TypeInv, Data, Rows
    <3>2. client # NoClient => client.gb <= Sold /\ client.gb \in Nat
      BY <1>1 DEF Volume, TypeInv, Data, Clients
    <3>3. cron # NoRequest /\ cron.c # NoClient => cron.c.gb <= Sold /\ cron.c.gb \in Nat
      BY <1>1 DEF Volume, TypeInv, TickInv, Clients
    <3> QED
      BY <1>2, <2>4, <3>1, <3>2, <3>3
  <2>6. Fits(d, top', Sold')
    <3>1. d.s.gb <= Sold'
      BY <2>4, <2>5 DEF Unread
    <3> QED
      BY <2>3, <3>1 DEF Fits
  <2>7. \A k \in Jobs : job'[k] = job[k] \/ job'[k] = NoRequest \/ Fits(job'[k], top', Sold')
    BY <2>1, <2>6 DEF TypeInv, Work
  <2>8. sold' >= sold
    BY <1>2, <2>1
  <2> QED
    BY <1>1, <2>1, <2>3, <2>5, <2>7, <2>8, VolumeStep
<1>4. ASSUME NEW j \in Jobs, PutClient(j) \/ AnswerLost(j) PROVE Volume'
  <2> DEFINE d == job[j]  e == [job[j] EXCEPT !.at = "save"]
  <2>1. /\ d # NoRequest /\ d.at = "put" /\ client' = Put(d.req, d.s, d.c)
        /\ UNCHANGED <<row, cron, top>>
        /\ job' = [job EXCEPT ![j] = e] \/ Give(j)
    BY <1>4 DEF PutClient, AnswerLost, Forward, Fails
  <2>2. d \in JobSet /\ Ready(d) /\ Fits(d, top, Sold)
    BY <1>1, <2>1, WorkSteps DEF TypeInv, Volume
  <2>3. /\ Adds(d) \in Nat /\ Put(d.req, d.s, d.c).gb <= Sold + Adds(d)
        /\ Fits(e, top, Sold + Adds(d))
    BY <1>2, <2>1, <2>2, PutFits
  <2>4. sold' = sold + Adds(d)
    <3>1. CASE PutClient(j)
      BY <3>1 DEF PutClient
    <3>2. CASE AnswerLost(j)
      <4>1. ~(Adds(d) > 0) /\ sold' = sold
        BY <3>2 DEF AnswerLost
      <4>2. Adds(d) = 0
        BY <2>3, <4>1
      <4> QED
        BY <1>2, <4>1, <4>2
    <3> QED
      BY <1>4, <3>1, <3>2
  <2>5. Sold' = Sold + Adds(d) /\ sold' >= sold /\ top' >= top
    <3>1. \A a, b, c \in Nat : a + (b + c) = (a + b) + c /\ b + c >= b
      OBVIOUS
    <3> QED
      BY <1>2, <2>1, <2>3, <2>4, <3>1 DEF Sold
  <2> HIDE DEF Sold, d, e
  <2>6. client'.gb <= Sold' /\ Fits(e, top', Sold')
    BY <2>1, <2>3, <2>5
  <2>7. \A k \in Jobs : job'[k] = job[k] \/ job'[k] = NoRequest \/ Fits(job'[k], top', Sold')
    BY <2>1, <2>6 DEF TypeInv, Work, Give
  <2>8. Sold <= Sold' /\ Sold' \in Nat
    BY <1>2, <2>5, SoldGrows DEF TypeInv
  <2>9. /\ row'.gb <= Sold'
        /\ cron' # NoRequest /\ cron'.c # NoClient => cron'.c.gb <= Sold'
    <3>1. row.gb <= Sold /\ row.gb \in Nat
      BY <1>1 DEF Volume, TypeInv, Data, Rows
    <3>2. cron # NoRequest /\ cron.c # NoClient => cron.c.gb <= Sold /\ cron.c.gb \in Nat
      BY <1>1 DEF Volume, TypeInv, TickInv, Clients
    <3> QED
      BY <1>2, <2>1, <2>8, <3>1, <3>2
  <2> QED
    BY <1>1, <2>5, <2>6, <2>7, <2>9, VolumeStep
<1>5. ASSUME NEW j \in Jobs, Get(j) PROVE Volume'
  <2> DEFINE d == job[j]
  <2>1. d # NoRequest /\ d.at = "get" /\ Apart
    BY <1>5 DEF Get, Apart, history
  <2>2. d \in JobSet /\ Fits(d, top, Sold) /\ Sold' = Sold /\ top' = top
    BY <1>1, <2>1, WorkSteps DEF TypeInv, Volume, Apart, Sold
  <2> HIDE DEF Sold
  <2>3. CASE Give(j)
    BY <1>1, <2>1, <2>3, ApartKeeps DEF TypeInv, Work, Give
  <2>4. CASE Forward(j, "save") /\ d.req.op = "update"
    <3> DEFINE e == [d EXCEPT !.at = "save"]
    <3>1. e.req = d.req /\ e.s = d.s /\ e.c = d.c /\ job' = [job EXCEPT ![j] = e]
      BY <2>2, <2>4 DEF JobSet, Forward
    <3> HIDE DEF e
    <3>2. Fits(e, top', Sold')
      BY <2>2, <2>4, <3>1 DEF Fits
    <3> QED
      BY <1>1, <2>1, <3>1, <3>2, ApartKeeps DEF TypeInv, Work
  <2>5. CASE client # NoClient
    <3> DEFINE op == d.req.op
               at == CASE op \in {"refresh", "connect"} -> "save"
                       [] op \in Later \ {"update"} -> "find"
                       [] OTHER -> "put"
               e == [d EXCEPT !.c = client, !.at = at]
    <3>1. /\ e.req = d.req /\ e.s = d.s /\ e.c = client /\ e.at = at
          /\ job' = [job EXCEPT ![j] = e]
      BY <1>5, <2>2, <2>5 DEF JobSet, Get
    <3>2. at = "save" => op \notin {"addGb", "bulkGb"}
      OBVIOUS
    <3> HIDE DEF e, at
    <3>3. Fits(e, top', Sold')
      BY <1>1, <2>2, <2>5, <3>1, <3>2 DEF Fits, Volume
    <3> QED
      BY <1>1, <2>1, <3>1, <3>3, ApartKeeps DEF TypeInv, Work
  <2> QED
    BY <1>5, <2>3, <2>4, <2>5 DEF Get, Fails
<1>6. ASSUME NEW j \in Jobs, Find(j) PROVE Volume'
  <2> DEFINE d == job[j]  e == [job[j] EXCEPT !.s = row, !.at = "put"]
  <2>1. d # NoRequest /\ Apart /\ (Give(j) \/ job' = [job EXCEPT ![j] = e])
    BY <1>6 DEF Find, Apart, history
  <2>2. d \in JobSet /\ Fits(d, top, Sold) /\ Sold' = Sold /\ top' = top
    BY <1>1, <2>1, WorkSteps DEF TypeInv, Volume, Apart, Sold
  <2>3. e.req = d.req /\ e.s = row /\ e.c = d.c /\ e.at = "put"
    BY <2>2 DEF JobSet
  <2> HIDE DEF Sold, e
  <2>4. Fits(e, top', Sold')
    BY <1>1, <2>2, <2>3 DEF Fits, Volume
  <2> QED
    BY <1>1, <2>1, <2>4, ApartKeeps DEF TypeInv, Work, Give
<1>7. ASSUME NEW j \in Jobs, SaveRow(j) PROVE Volume'
  <2> DEFINE d == job[j]
  <2>1. /\ d # NoRequest /\ d.at = "save" /\ row' = Save(d.req, d.s, d.c) /\ Give(j)
        /\ UNCHANGED <<client, cron, top, sold>>
    BY <1>7 DEF SaveRow, history
  <2>2. d \in JobSet /\ Ready(d) /\ Fits(d, top, Sold) /\ row.gb <= Sold /\ row \in Rows
    BY <1>1, <2>1, WorkSteps DEF TypeInv, Volume, Data
  <2>3. row'.gb <= Sold
    BY <1>2, <2>1, <2>2, SaveFits
  <2>4. Sold' = Sold /\ top' >= top /\ sold' >= sold
    BY <1>2, <2>1 DEF Sold
  <2> HIDE DEF Sold
  <2>5. \A k \in Jobs : job'[k] = job[k] \/ job'[k] = NoRequest
    BY <2>1 DEF TypeInv, Work, Give
  <2> QED
    BY <1>1, <2>1, <2>3, <2>4, <2>5, VolumeStep DEF Volume
<1>8. ASSUME NEW j \in Jobs, Refused(j) \/ SaveFails(j) PROVE Volume'
  <2> DEFINE d == job[j]  e == [job[j] EXCEPT !.at = "save"]
  <2>1. /\ d # NoRequest /\ Apart
        /\ Give(j) \/ (d.req.op = "update" /\ job' = [job EXCEPT ![j] = e])
    BY <1>8 DEF Refused, SaveFails, Forward, Fails, Apart
  <2>2. d \in JobSet /\ Fits(d, top, Sold) /\ Sold' = Sold /\ top' = top
    BY <1>1, <2>1, WorkSteps DEF TypeInv, Volume, Apart, Sold
  <2>3. e.req = d.req /\ e.s = d.s /\ e.c = d.c
    BY <2>2 DEF JobSet
  <2> HIDE DEF Sold, e
  <2>4. d.req.op = "update" => Fits(e, top', Sold')
    BY <2>2, <2>3 DEF Fits
  <2> QED
    BY <1>1, <2>1, <2>4, ApartKeeps DEF TypeInv, Work, Give
<1>9. CASE Restart
  <2>1. UNCHANGED <<client, row, top, sold>> /\ cron' = NoRequest
        /\ job' = [j \in Jobs |-> NoRequest]
    BY <1>9 DEF Restart
  <2>2. Sold' = Sold
    BY <2>1 DEF Sold
  <2> HIDE DEF Sold
  <2> QED
    BY <1>1, <2>1, <2>2 DEF Volume
<1>10. CASE ListClients \/ ReadRows \/ ApplyListed \/ Confirm \/ SaveConfirmed
  <2>1. /\ UNCHANGED <<client, job, top, sold>>
        /\ \/ cron' = NoRequest
           \/ cron'.c \in {client, NoClient}
           \/ cron # NoRequest /\ cron'.c = cron.c
    <3>1. UNCHANGED <<client, job, top, sold>>
      BY <1>10 DEF ListClients, ReadRows, ApplyListed, Confirm, SaveConfirmed, history
    <3>2. cron # NoRequest => \A x, y : [cron EXCEPT !.s = x, !.at = y].c = cron.c
      BY DEF TypeInv, TickInv
    <3>3. cron # NoRequest => [cron EXCEPT !.c = client, !.at = "save"].c = client
      BY DEF TypeInv, TickInv
    <3> QED
      <4>1. CASE ListClients
        BY <3>1, <4>1 DEF ListClients
      <4>2. CASE ReadRows
        BY <3>1, <3>2, <4>2 DEF ReadRows
      <4>3. CASE ApplyListed \/ SaveConfirmed
        BY <3>1, <4>3 DEF ApplyListed, SaveConfirmed
      <4>4. CASE Confirm
        BY <3>1, <3>3, <4>4 DEF Confirm
      <4> QED
        BY <1>10, <4>1, <4>2, <4>3, <4>4
  <2>2. row'.gb <= Sold
    <3>1. CASE ApplyListed
      <4>1. cron # NoRequest /\ cron.c \in Clients
        BY <3>1 DEF ApplyListed, TypeInv, TickInv
      <4>2. cron.c.gb <= Sold /\ row.gb <= Sold
        BY <1>1, <4>1, NoneAssumption DEF Volume, Clients
      <4> QED
        BY <3>1, <4>2, CopiedFits DEF ApplyListed
    <3>2. CASE SaveConfirmed
      <4>1. cron # NoRequest /\ row.gb <= Sold /\ (cron.c # NoClient => cron.c.gb <= Sold)
        BY <1>1, <3>2 DEF SaveConfirmed, Volume
      <4>2. [row EXCEPT !.status = "disabled"].gb = row.gb
        BY DEF TypeInv, Data, Rows
      <4> QED
        BY <3>2, <4>1, <4>2, CopiedFits DEF SaveConfirmed
    <3>3. CASE ListClients \/ ReadRows \/ Confirm
      <4>1. row'.gb = row.gb
        BY <3>3 DEF ListClients, ReadRows, Confirm, TypeInv, Data, Rows
      <4> QED
        BY <1>1, <4>1 DEF Volume
    <3> QED
      BY <1>10, <3>1, <3>2, <3>3
  <2>3. Sold' = Sold
    BY <2>1 DEF Sold
  <2> HIDE DEF Sold
  <2> QED
    BY <1>1, <2>1, <2>2, <2>3 DEF Volume
<1>11. CASE Connect \/ Tick \/ UNCHANGED vars
  <2>1. /\ UNCHANGED <<row, job, cron, top, sold>>
        /\ client' = client \/ (client # NoClient /\ client'.gb = client.gb)
    BY <1>11 DEF Connect, Elsewhere, Tick, vars, history, TypeInv, Data, Clients
  <2>2. Sold' = Sold
    BY <2>1 DEF Sold
  <2> HIDE DEF Sold
  <2> QED
    BY <1>1, <2>1, <2>2 DEF Volume
<1>12. CASE PanelEdit
  <2>1. /\ UNCHANGED <<row, job, cron, sold>> /\ client \in Clients
        /\ \/ \E v \in Volumes : client' = [client EXCEPT !.gb = v] /\ top' = Larger(top, v)
           \/ client' = [client EXCEPT !.enable = ~client.enable] /\ top' = top
           \/ client' = NoClient /\ top' = top
    BY <1>12 DEF PanelEdit, Elsewhere, TypeInv, Data
  <2>2. top' \in Nat /\ top' >= top
    BY <1>2, <2>1, TimeAssumption DEF Larger
  <2>3. sold' >= sold
    BY <1>2, <2>1
  <2>4. Sold <= Sold' /\ Sold' \in Nat /\ top' <= Sold'
    BY <2>2, <2>3, SoldGrows DEF TypeInv
  <2> HIDE DEF Sold
  <2>5. client' # NoClient => client'.gb <= Sold'
    <3>1. CASE \E v \in Volumes : client' = [client EXCEPT !.gb = v] /\ top' = Larger(top, v)
      <4>1. client'.gb \in Nat /\ client'.gb <= top'
        BY <1>2, <2>1, <3>1, TimeAssumption DEF Clients, Larger
      <4> QED
        BY <2>2, <2>4, <4>1
    <3>2. CASE client' = [client EXCEPT !.enable = ~client.enable]
      <4>1. client'.gb = client.gb /\ client.gb \in Nat /\ client # NoClient
        BY <2>1, <3>2, NoneAssumption DEF Clients
      <4> QED
        BY <1>1, <1>2, <2>4, <4>1 DEF Volume
    <3> QED
      BY <2>1, <3>1, <3>2
  <2>6. /\ row'.gb <= Sold'
        /\ cron' # NoRequest /\ cron'.c # NoClient => cron'.c.gb <= Sold'
    <3>1. row.gb <= Sold /\ row.gb \in Nat
      BY <1>1 DEF Volume, TypeInv, Data, Rows
    <3>2. cron # NoRequest /\ cron.c # NoClient => cron.c.gb <= Sold /\ cron.c.gb \in Nat
      BY <1>1 DEF Volume, TypeInv, TickInv, Clients
    <3> QED
      BY <1>2, <2>1, <2>4, <3>1, <3>2
  <2> QED
    BY <1>1, <2>1, <2>2, <2>3, <2>5, <2>6, VolumeStep
<1> QED
  BY <1>3, <1>4, <1>5, <1>6, <1>7, <1>8, <1>9, <1>10, <1>11, <1>12 DEF Next, Reconcile

(* No volume is made from nothing, for any requests, failures and retries. *)
THEOREM NoVolumeFromNothing == Spec => []VolumeSold
<1>1. VolumeInv => VolumeSold
  BY DEF VolumeInv, Volume, VolumeSold, Sold
<1>2. TypeInv /\ TypeInv' /\ VolumeInv /\ [Next]_vars => VolumeInv'
  BY VolumeInductive
<1> QED
  BY TypeInitial, TypeInductive, VolumeInitial, <1>1, <1>2, PTL DEF Spec

-----------------------------------------------------------------------------
(* A request that runs alone from agreement has read the row and the       *)
(* client as they are; what it writes to the one follows from what it      *)
(* wrote to the other.                                                     *)

\* What the panel has when the request is about to save.
Reached(d) == IF d.req.op \in {"refresh", "connect"} THEN d.c ELSE Put(d.req, d.s, d.c)

Undisturbed(d) ==
  /\ client # NoClient
  /\ d.at = "get" => Alike(row, client) /\ (d.req.op \notin Later => d.s = row)
  /\ d.at \in {"find", "put"} => Alike(row, client) /\ d.c = client
  /\ d.at = "find" => d.req.op # "update"
  /\ d.at = "put" /\ d.req.op # "update" => d.s = row
  /\ d.at = "save" => /\ d.c \in Clients /\ Alike(row, d.c) /\ client = Reached(d)
                      /\ d.req.op # "update" => d.s = row

CalmInv == calm => \A j \in Jobs : job[j] # NoRequest =>
  /\ cron = NoRequest
  /\ \A i \in Jobs : i # j => job[i] = NoRequest
  /\ Undisturbed(job[j])

(* What a row says that is timely.                                         *)
LEMMA TimelyEnds ==
  ASSUME NEW s \in Rows, NEW c \in Clients, Timely(s, c)
  PROVE  /\ c.exp < 0 => s.exp.onConnect /\ s.exp.ends = now - c.exp
         /\ c.exp > 0 => ~s.exp.onConnect /\ s.exp.ends = c.exp
         /\ c.exp = 0 => ~s.exp.onConnect /\ s.exp.ends = now + Year
<1> DEFINE e == c.exp
<1>1. e \in Int
  BY DEF Clients
<1>2. s.exp.onConnect = FromPanel(e).onConnect /\ s.exp.ends = FromPanel(e).ends
  BY DEF Timely
<1> HIDE DEF e
<1>3. FromPanel(e).onConnect = (e < 0)
  BY DEF FromPanel
<1>4. FromPanel(e).ends = IF e < 0 THEN now - e ELSE IF e > 0 THEN e ELSE now + Year
  BY DEF FromPanel
<1>5. e < 0 => s.exp.onConnect
  BY <1>2, <1>3, Zenon
<1>6. ~(e < 0) => ~s.exp.onConnect
  BY <1>2, <1>3, Zenon
<1>7. /\ e < 0 => s.exp.ends = now - e
      /\ e > 0 => s.exp.ends = e /\ ~(e < 0)
      /\ e = 0 => s.exp.ends = now + Year /\ ~(e < 0)
  BY <1>1, <1>2, <1>4
<1> QED
  BY <1>5, <1>6, <1>7 DEF e

(* Both sides end with the same volume and expiry, and a status that       *)
(* follows the switch.                                                     *)
LEMMA SaveAgrees ==
  ASSUME now \in Nat, row \in Rows, NEW d \in JobSet, Ready(d), d.c \in Clients,
         d.at = "save", d.req.op # "update" => d.s = row,
         Alike(row, d.c), ~Uneven(d.req, row, d.c)
  PROVE  Alike(Save(d.req, d.s, d.c), Reached(d))
<1> DEFINE r == d.req  s == d.s  c == d.c
<1>1. /\ r.op \in Operations /\ r.gb \in Int /\ r.days \in Int /\ r.on \in BOOLEAN
      /\ c.gb \in Nat /\ c.exp \in Int /\ c.enable \in BOOLEAN
      /\ c = [gb |-> c.gb, exp |-> c.exp, enable |-> c.enable]
  BY RequestFields DEF JobSet, Clients
<1>2. /\ row.gb \in Nat /\ row.exp \in Expiries
      /\ row.status \in {"active", "disabled", "expired"}
      /\ row = [gb |-> row.gb, exp |-> row.exp, status |-> row.status]
  BY DEF Rows
<1>3. /\ row.exp.ends \in Int /\ row.exp.onConnect \in BOOLEAN
      /\ row.exp.mirror \in Int \cup {NoMirror}
  BY <1>2 DEF Expiries
<1>4. NoMirror \notin Int
  BY NoneAssumption
<1>5. /\ row.gb = c.gb /\ ~Differs(c.exp, row.exp)
      /\ row.status = "active" => c.enable
      /\ c.enable => row.status = "active" \/ row.exp.ends <= now
  BY DEF Alike
<1>6. ASSUME NEW e \in Int, NEW x, x.mirror = e PROVE ~Differs(e, x)
  BY <1>4, <1>6 DEF Differs
<1> HIDE DEF r, s, c
<1> USE DEF Reached
<1>7. CASE r.op = "addGb"
  <2>1. ~Differs(ForPanel(row.exp), row.exp)
    <3>1. c.exp # 0
      BY <1>7 DEF Uneven, r, c
    <3>2. CASE row.exp.mirror # NoMirror
      BY <1>3, <1>4, <1>5, <3>1, <3>2 DEF Differs, ForPanel
    <3>3. CASE row.exp.mirror = NoMirror /\ row.exp.onConnect
      <4>1. ForPanel(row.exp) = -Larger(1, row.exp.ends - now)
        BY <3>3 DEF ForPanel
      <4> QED
        BY <1>3, <3>3, <4>1 DEF Differs, Distance, Larger
    <3>4. CASE row.exp.mirror = NoMirror /\ ~row.exp.onConnect
      <4>1. ForPanel(row.exp) = row.exp.ends
        BY <3>4 DEF ForPanel
      <4>2. row.exp.ends = c.exp /\ c.exp > 0
        BY <1>1, <1>3, <1>5, <3>1, <3>4 DEF Differs
      <4> QED
        BY <1>1, <3>4, <4>1, <4>2 DEF Differs
    <3> QED
      BY <1>3, <3>2, <3>3, <3>4
  <2>2. /\ Save(r, s, c) = [row EXCEPT !.gb = row.gb + r.gb, !.status = "active"]
        /\ Reached(d) = [c EXCEPT !.gb = row.gb + r.gb, !.enable = TRUE, !.exp = ForPanel(row.exp)]
    BY <1>7 DEF Save, SaveGb, Put, AddGb, r, s, c
  <2>3. /\ Save(r, s, c).gb = row.gb + r.gb /\ Save(r, s, c).exp = row.exp
        /\ Save(r, s, c).status = "active"
        /\ Reached(d).gb = row.gb + r.gb /\ Reached(d).exp = ForPanel(row.exp) /\ Reached(d).enable
    BY <1>1, <1>2, <2>2
  <2> HIDE DEF Reached
  <2> QED
    BY <2>1, <2>3 DEF Alike, r, s, c
<1>8. CASE r.op = "addDays"
  <2> DEFINE x == Extended(row.exp, r.days)
  <2>1. x.mirror \in Int
    BY <1>1, <1>2, ExpiryType
  <2>2. ~Differs(x.mirror, x)
    BY <1>6, <2>1
  <2>3. /\ Save(r, s, c) = [row EXCEPT !.exp = x, !.status = "active"]
        /\ Reached(d) = [c EXCEPT !.exp = x.mirror, !.enable = TRUE]
    BY <1>8 DEF Save, Put, AddDays, r, s, c
  <2> HIDE DEF x, Reached
  <2>4. /\ Save(r, s, c).gb = row.gb /\ Save(r, s, c).exp = x /\ Save(r, s, c).status = "active"
        /\ Reached(d).gb = c.gb /\ Reached(d).exp = x.mirror /\ Reached(d).enable
    BY <1>1, <1>2, <2>3
  <2> QED
    BY <1>5, <2>2, <2>4 DEF Alike, r, s, c
<1>9. CASE r.op \in {"edit", "renew"}
  <2> DEFINE e == IF r.op = "edit" THEN now + Month ELSE -Month
             x == IF r.op = "edit" THEN Dated(e) ELSE Renewed
  <2>1. e \in Int /\ x.mirror = e
    BY TimeAssumption DEF Dated, Renewed
  <2>2. ~Differs(e, x)
    BY <1>6, <2>1
  <2>3. r.op = "renew" => r.gb # 0
    BY DEF Uneven, r
  <2>4. /\ Save(r, s, c) = [row EXCEPT !.gb = r.gb, !.exp = x, !.status = "active"]
        /\ Reached(d) = [c EXCEPT !.exp = e, !.gb = r.gb, !.enable = TRUE]
    BY <1>9, <2>3 DEF Save, Put, Edit, Renew, r, s, c
  <2> HIDE DEF e, x, Reached
  <2>5. /\ Save(r, s, c).gb = r.gb /\ Save(r, s, c).exp = x /\ Save(r, s, c).status = "active"
        /\ Reached(d).gb = r.gb /\ Reached(d).exp = e /\ Reached(d).enable
    BY <1>1, <1>2, <2>4
  <2> QED
    BY <2>2, <2>5 DEF Alike, r, s, c
<1>10. CASE r.op = "update"
  <2> DEFINE e == now + r.days  x == Dated(e)
  <2>1. ~Differs(e, x)
    <3>1. e \in Int /\ x.mirror = e
      BY <1>1 DEF Dated
    <3> HIDE DEF e, x
    <3> QED
      BY <1>6, <3>1
  <2>2. /\ Save(r, s, c) = [row EXCEPT !.gb = r.gb, !.exp = x,
                                       !.status = IF r.on THEN "active" ELSE "disabled"]
        /\ Reached(d) = [c EXCEPT !.gb = r.gb, !.exp = e, !.enable = r.on]
    BY <1>10 DEF Save, Put, Update, r, s, c
  <2>3. x.ends = e
    BY DEF Dated
  <2> HIDE DEF e, x, Reached
  <2>4. /\ Save(r, s, c).gb = r.gb /\ Save(r, s, c).exp = x
        /\ Save(r, s, c).status = (IF r.on THEN "active" ELSE "disabled")
        /\ Reached(d).gb = r.gb /\ Reached(d).exp = e /\ Reached(d).enable = r.on
    BY <1>1, <1>2, <2>2
  <2> QED
    BY <1>1, <2>1, <2>4 DEF Alike, r, s, c
<1>11. CASE r.op \in {"toggle", "rotate"}
  <2>1. /\ Save(r, s, c) = IF r.op = "rotate" THEN row
             ELSE [row EXCEPT !.status = IF c.enable THEN "disabled" ELSE "active"]
        /\ Reached(d) = IF r.op = "rotate" THEN c ELSE [c EXCEPT !.enable = ~c.enable]
    BY <1>11 DEF Save, Put, Toggle, Rotate, r, s, c
  <2> HIDE DEF Reached
  <2>2. /\ Save(r, s, c).gb = row.gb /\ Save(r, s, c).exp = row.exp
        /\ Reached(d).gb = c.gb /\ Reached(d).exp = c.exp
        /\ Reached(d).enable = (IF r.op = "rotate" THEN c.enable ELSE ~c.enable)
        /\ Save(r, s, c).status = IF r.op = "rotate" THEN row.status
             ELSE IF c.enable THEN "disabled" ELSE "active"
    BY <1>1, <1>2, <2>1
  <2>3. /\ Save(r, s, c).status = "active" => Reached(d).enable
        /\ Reached(d).enable => Save(r, s, c).status = "active" \/ row.exp.ends <= now
    <3>1. CASE r.op = "rotate"
      BY <1>5, <2>2, <3>1
    <3>2. CASE r.op = "toggle" /\ c.enable
      BY <2>2, <3>2
    <3>3. CASE r.op = "toggle" /\ ~c.enable
      BY <2>2, <3>3
    <3> QED
      BY <1>11, <3>1, <3>2, <3>3
  <2> QED
    BY <1>5, <2>2, <2>3 DEF Alike, r, s, c
<1>12. CASE r.op = "refresh"
  <2>1. s = row /\ Reached(d) = c /\ Save(r, s, c) = Copied(c, s, TRUE)
    BY <1>12 DEF Save, r, s, c
  <2>2. /\ Copied(c, row, TRUE).gb = row.gb /\ Copied(c, row, TRUE).exp = row.exp
        /\ Copied(c, row, TRUE).status = "active" => c.enable
        /\ c.enable => Copied(c, row, TRUE).status = "active" \/ row.exp.ends <= now
    BY <1>1, <1>2, <1>3, <1>5 DEF Copied
  <2> QED
    BY <1>5, <2>1, <2>2 DEF Alike, r, s, c
<1>13. CASE r.op = "connect"
  <2>1. s = row /\ Reached(d) = c /\ Save(r, s, c) = Connected(c, s) /\ Timely(row, c)
    BY <1>13 DEF Save, Uneven, r, s, c
  <2>2. CASE c.exp >= 0
    <3>1. ~row.exp.onConnect
      BY <1>1, <2>1, <2>2, TimelyEnds DEF c
    <3>2. Connected(c, row) = row
      BY <3>1 DEF Connected
    <3> QED
      BY <1>5, <2>1, <3>2 DEF Alike, r, s, c
  <2>3. CASE c.exp < 0
    <3> DEFINE x == [row EXCEPT !.exp.mirror = c.exp]
    <3>1. Connected(c, row) = IF row.exp.onConnect THEN x ELSE row
      BY <1>1, <2>3 DEF Connected
    <3>2. x.gb = row.gb /\ x.status = row.status /\ x.exp.ends = row.exp.ends /\ x.exp.mirror = c.exp
      BY <1>2 DEF Expiries
    <3>3. ~Differs(c.exp, x.exp)
      BY <1>1, <1>6, <3>2
    <3> HIDE DEF x
    <3>4. Alike(x, c) /\ Alike(row, c)
      BY <1>5, <3>2, <3>3 DEF Alike
    <3> QED
      BY <2>1, <3>1, <3>4 DEF r, s, c
  <2> QED
    BY <1>1, <2>2, <2>3
<1>14. CASE r.op = "bulkGb"
  <2>1. /\ Save(r, s, c) = [row EXCEPT !.gb = c.gb + r.gb]
        /\ Reached(d) = [c EXCEPT !.gb = c.gb + r.gb]
    BY <1>14 DEF Save, Put, BulkGb, r, s, c
  <2> HIDE DEF Reached
  <2>2. /\ Save(r, s, c).exp = row.exp /\ Save(r, s, c).status = row.status
        /\ Reached(d).exp = c.exp /\ Reached(d).enable = c.enable
        /\ Save(r, s, c).gb = c.gb + r.gb /\ Reached(d).gb = c.gb + r.gb
    BY <1>1, <1>2, <2>1
  <2> QED
    BY <1>1, <1>5, <2>2 DEF Alike, r, s, c
<1>15. CASE r.op \in {"bulkDays", "bulkClear"}
  <2> DEFINE x == IF r.op = "bulkDays" THEN Extended(row.exp, r.days) ELSE FromPanel(0)
             e == IF r.op = "bulkDays" THEN PanelExtended(c.exp, r.days) ELSE 0
  <2>1. /\ Save(r, s, c) = [row EXCEPT !.exp = x, !.status = "active"]
        /\ Reached(d) = [c EXCEPT !.exp = e]
    BY <1>15 DEF Save, Put, BulkDays, BulkClear, r, s, c
  <2>2. c.exp # 0
    BY <1>15 DEF Ready, Bulk, Skipped, r, c
  <2>3. c.enable
    BY <1>15, <2>2 DEF Uneven, r, c
  <2>4. e \in Int /\ x.mirror = e
    <3>1. CASE r.op = "bulkClear"
      BY <3>1 DEF FromPanel
    <3>2. CASE r.op = "bulkDays"
      <4>1. Timely(row, c)
        BY <3>2 DEF Uneven, r, c
      <4>2. e = PanelExtended(c.exp, r.days) /\ x = Extended(row.exp, r.days)
        BY <3>2
      <4>3. CASE c.exp < 0
        <5>1. row.exp.ends = now - c.exp /\ row.exp.onConnect
          BY <4>1, <4>3, TimelyEnds DEF c
        <5>2. Larger(0, row.exp.ends - now) = -c.exp
          BY <1>1, <4>3, <5>1 DEF Larger
        <5>3. x.mirror = IF -c.exp + r.days <= 0 THEN now ELSE -(-c.exp + r.days)
          BY <4>2, <5>1, <5>2 DEF Extended, Dated
        <5>4. e = IF r.days <= c.exp THEN now ELSE c.exp - r.days
          BY <1>1, <4>2, <4>3 DEF PanelExtended
        <5> HIDE DEF x, e
        <5> QED
          BY <1>1, <5>3, <5>4
      <4>4. CASE c.exp > 0
        <5>1. row.exp.ends = c.exp /\ ~row.exp.onConnect
          BY <4>1, <4>4, TimelyEnds DEF c
        <5>2. x.mirror = Moved(c.exp, r.days)
          BY <4>2, <5>1 DEF Extended, Dated
        <5>3. e = Moved(c.exp, r.days)
          BY <1>1, <4>2, <4>4 DEF PanelExtended
        <5>4. Moved(c.exp, r.days) \in Int
          BY <1>1 DEF Moved, Larger
        <5> HIDE DEF x, e
        <5> QED
          BY <5>2, <5>3, <5>4
      <4> QED
        BY <1>1, <2>2, <4>3, <4>4
    <3> QED
      BY <1>15, <3>1, <3>2
  <2>5. ~Differs(e, x)
    BY <1>6, <2>4
  <2> HIDE DEF e, x, Reached
  <2>6. /\ Save(r, s, c).gb = row.gb /\ Save(r, s, c).exp = x
        /\ Save(r, s, c).status = "active"
        /\ Reached(d).gb = c.gb /\ Reached(d).exp = e /\ Reached(d).enable = c.enable
    BY <1>1, <1>2, <2>1
  <2> QED
    BY <1>5, <2>3, <2>5, <2>6 DEF Alike, r, s, c
<1> QED
  BY <1>1, <1>7, <1>8, <1>9, <1>10, <1>11, <1>12, <1>13, <1>14, <1>15 DEF Operations, r, s, c

(* The invariant after a step of request j.                                *)
LEMMA CalmStep ==
  ASSUME Work, CalmInv, NEW j \in Jobs, job[j] # NoRequest,
         UNCHANGED <<cron, calm>>, Undisturbed(job[j])',
         Work', \A i \in Jobs : i # j => job'[i] = job[i]
  PROVE  CalmInv'
BY DEF CalmInv, Undisturbed, Alike, Differs, Reached

LEMMA CalmEnds ==
  ASSUME Work, CalmInv, NEW j \in Jobs, job[j] # NoRequest, calm' => calm, Give(j)
  PROVE  CalmInv'
<1>1. calm' => \A i \in Jobs : job'[i] = NoRequest
  BY DEF CalmInv, Work, Give
<1> QED
  BY <1>1 DEF CalmInv

LEMMA CalmInductive == ASSUME TypeInv, TypeInv', CalmInv, [Next]_vars PROVE CalmInv'
<1>1. ASSUME NEW j \in Jobs, NEW r \in Requests, Ask(j, r) \/ Again(j, r) PROVE CalmInv'
  <2> SUFFICES ASSUME calm' PROVE CalmInv'
    BY DEF CalmInv
  <2> DEFINE d == [at |-> "get", req |-> r, c |-> NoClient,
                   s |-> IF r.op \in Later THEN Unread ELSE row]
  <2>1. /\ job' = [job EXCEPT ![j] = d] /\ UNCHANGED <<client, row, now, cron>>
        /\ AtRest /\ Agree
    BY <1>1 DEF Ask, Again, Begin
  <2>2. cron = NoRequest /\ \A i \in Jobs : job[i] = NoRequest
    BY <2>1 DEF AtRest, Resting
  <2>3. job'[j] = d /\ \A i \in Jobs : i # j => job'[i] = NoRequest
    BY <2>1, <2>2 DEF TypeInv, Work
  <2>4. client' # NoClient /\ Alike(row, client)'
    BY <2>1 DEF Agree, Alike, Differs, Distance, Larger
  <2>5. Undisturbed(job[j])'
    BY <2>1, <2>3, <2>4 DEF Undisturbed
  <2> QED
    <3> HIDE DEF d
    <3>1. cron' = NoRequest
      BY <2>1, <2>2
    <3> QED
      BY <2>3, <2>5, <3>1 DEF CalmInv, Undisturbed, Alike, Differs, Reached
<1>2. ASSUME NEW j \in Jobs, Get(j) PROVE CalmInv'
  <2> DEFINE d == job[j]  op == d.req.op
             at == CASE op \in {"refresh", "connect"} -> "save"
                     [] op \in Later \ {"update"} -> "find"
                     [] OTHER -> "put"
             e == [d EXCEPT !.c = client, !.at = at]
  <2>1. /\ d # NoRequest /\ d.at = "get" /\ UNCHANGED <<client, row, now, cron, calm>>
    BY <1>2 DEF Get, history
  <2>2. d \in JobSet
    BY <2>1, WorkSteps DEF TypeInv
  <2> SUFFICES ASSUME calm PROVE CalmInv'
    BY <2>1 DEF CalmInv
  <2>3. client # NoClient /\ Alike(row, client) /\ (op \notin Later => d.s = row)
    BY <2>1 DEF CalmInv, Undisturbed
  <2>4. job' = [job EXCEPT ![j] = e]
    BY <1>2, <2>3 DEF Get
  <2>5. e.req = d.req /\ e.s = d.s /\ e.c = client /\ e.at = at
    BY <2>2 DEF JobSet
  <2>6. job'[j] = e /\ \A i \in Jobs : i # j => job'[i] = job[i]
    BY <2>4 DEF TypeInv, Work
  <2>7. Alike(row, client)' /\ client' # NoClient /\ client' \in Clients
    BY <2>1, <2>3 DEF Alike, Differs, Distance, Larger, TypeInv, Data
  <2>8. /\ at \in {"save", "find", "put"}
        /\ at = "save" => op \in {"refresh", "connect"} /\ op \notin Later
        /\ at = "find" => op # "update"
        /\ at = "put" /\ op # "update" => op \notin Later
    BY DEF Later
  <2> HIDE DEF at, e
  <2>9. Undisturbed(job[j])'
    BY <2>1, <2>3, <2>5, <2>6, <2>7, <2>8 DEF Undisturbed, Reached
  <2> QED
    BY <2>1, <2>6, <2>9, CalmStep DEF TypeInv
<1>3. ASSUME NEW j \in Jobs, Find(j) PROVE CalmInv'
  <2> DEFINE d == job[j]  e == [job[j] EXCEPT !.s = row, !.at = "put"]
  <2>1. /\ d # NoRequest /\ d.at = "find" /\ UNCHANGED <<client, row, now, cron, calm>>
        /\ Give(j) \/ job' = [job EXCEPT ![j] = e]
    BY <1>3 DEF Find, history
  <2>2. d \in JobSet
    BY <2>1, WorkSteps DEF TypeInv
  <2> SUFFICES ASSUME calm PROVE CalmInv'
    BY <2>1 DEF CalmInv
  <2>3. client # NoClient /\ Alike(row, client) /\ d.c = client /\ d.req.op # "update"
    BY <2>1 DEF CalmInv, Undisturbed
  <2>4. e.req = d.req /\ e.s = row /\ e.c = d.c /\ e.at = "put"
    BY <2>2 DEF JobSet
  <2> HIDE DEF e
  <2> SUFFICES ASSUME job' = [job EXCEPT ![j] = e] PROVE CalmInv'
    BY <2>1, CalmEnds DEF TypeInv
  <2>5. job'[j] = e /\ \A i \in Jobs : i # j => job'[i] = job[i]
    BY <2>1 DEF TypeInv, Work
  <2>6. Alike(row, client)' /\ client' # NoClient
    BY <2>1, <2>3 DEF Alike, Differs, Distance, Larger
  <2>7. Undisturbed(job[j])'
    BY <2>1, <2>3, <2>4, <2>5, <2>6 DEF Undisturbed, Reached
  <2> QED
    BY <2>1, <2>5, <2>7, CalmStep DEF TypeInv
<1>4. ASSUME NEW j \in Jobs, PutClient(j) PROVE CalmInv'
  <2> DEFINE d == job[j]  e == [job[j] EXCEPT !.at = "save"]
  <2>1. /\ d # NoRequest /\ d.at = "put" /\ UNCHANGED <<row, now, cron, calm>>
        /\ client' = Put(d.req, d.s, d.c) /\ job' = [job EXCEPT ![j] = e]
    BY <1>4 DEF PutClient, Forward
  <2>2. /\ d \in JobSet /\ d.c \in Clients /\ d.req.op \notin {"refresh", "connect"}
        /\ d.req.op \in Bulk => ~Skipped(d.req, d.c)
    BY <2>1, WorkSteps DEF TypeInv, Ready
  <2> SUFFICES ASSUME calm PROVE CalmInv'
    BY <2>1 DEF CalmInv
  <2>3. Alike(row, d.c) /\ (d.req.op # "update" => d.s = row)
    BY <2>1 DEF CalmInv, Undisturbed
  <2>4. e.req = d.req /\ e.s = d.s /\ e.c = d.c /\ e.at = "save"
    BY <2>2 DEF JobSet
  <2>5. job'[j] = e /\ \A i \in Jobs : i # j => job'[i] = job[i]
    BY <2>1 DEF TypeInv, Work
  <2>6. client' # NoClient
    <3>1. Put(d.req, d.s, d.c) \in Clients
      BY <2>2, PutType DEF JobSet, TypeInv, Data
    <3> QED
      BY <2>1, <3>1, NoneAssumption DEF Clients
  <2>7. client' = Reached(e)
    BY <2>1, <2>2, <2>4 DEF Reached
  <2> HIDE DEF e
  <2>8. client' = Reached(job[j])'
    BY <2>1, <2>5, <2>7
       DEF Reached, Put, AddGb, AddDays, Edit, Renew, Toggle, Rotate, Update, BulkGb, BulkDays,
           BulkClear, ForPanel, Extended, PanelExtended, Moved, Dated, Larger
  <2>9. Alike(row, job[j].c)'
    BY <2>1, <2>3, <2>4, <2>5 DEF Alike, Differs, Distance, Larger
  <2>10. Undisturbed(job[j])'
    BY <2>1, <2>2, <2>3, <2>4, <2>5, <2>6, <2>8, <2>9 DEF Undisturbed
  <2> QED
    BY <2>1, <2>5, <2>10, CalmStep DEF TypeInv
<1>5. ASSUME NEW j \in Jobs, SaveRow(j) PROVE CalmInv'
  BY <1>5, CalmEnds DEF SaveRow, history, TypeInv
<1>6. ASSUME NEW j \in Jobs, Refused(j) \/ AnswerLost(j) \/ SaveFails(j) PROVE CalmInv'
  BY <1>6 DEF Refused, AnswerLost, SaveFails, CalmInv
<1>7. CASE ListClients \/ Restart \/ Connect \/ PanelEdit \/ Tick
  BY <1>7 DEF ListClients, Restart, Connect, PanelEdit, Elsewhere, Tick, CalmInv
<1>8. CASE ReadRows \/ ApplyListed \/ Confirm \/ SaveConfirmed
  <2>1. cron # NoRequest /\ UNCHANGED <<job, calm>>
    BY <1>8 DEF ReadRows, ApplyListed, Confirm, SaveConfirmed, history
  <2>2. calm => \A j \in Jobs : job[j] = NoRequest
    BY <2>1 DEF CalmInv
  <2> QED
    BY <2>1, <2>2 DEF CalmInv
<1>9. CASE UNCHANGED vars
  <2>1. UNCHANGED <<client, row, now, job, cron, calm>>
    BY <1>9 DEF vars, history
  <2>2. ASSUME NEW j \in Jobs PROVE Undisturbed(job[j])' <=> Undisturbed(job[j])
    <3>1. Reached(job[j])' = Reached(job[j])
      BY <2>1
         DEF Reached, Put, AddGb, AddDays, Edit, Renew, Toggle, Rotate, Update, BulkGb, BulkDays,
             BulkClear, ForPanel, Extended, PanelExtended, Moved, Dated, Larger
    <3>2. /\ Alike(row, client)' <=> Alike(row, client)
          /\ Alike(row, job[j].c)' <=> Alike(row, job[j].c)
      BY <2>1 DEF Alike, Differs, Distance, Larger
    <3> QED
      BY <2>1, <3>1, <3>2 DEF Undisturbed
  <2>3. CASE \E j \in Jobs : job[j] # NoRequest
    <3>1. PICK j \in Jobs : job[j] # NoRequest
      BY <2>3
    <3> SUFFICES ASSUME calm PROVE CalmInv'
      BY <2>1 DEF CalmInv
    <3>2. Undisturbed(job[j])'
      BY <2>2, <3>1 DEF CalmInv
    <3> QED
      BY <2>1, <3>1, <3>2, CalmStep DEF TypeInv
  <2>4. CASE \A j \in Jobs : job[j] = NoRequest
    BY <2>1, <2>4 DEF CalmInv
  <2> QED
    BY <2>3, <2>4
<1> QED
  BY <1>1, <1>2, <1>3, <1>4, <1>5, <1>6, <1>7, <1>8, <1>9 DEF Next, Reconcile

LEMMA CalmInitial == Init => CalmInv
BY DEF Init, CalmInv

(* The step of a request that saves alone: what it has read and written.   *)
LEMMA SavesAlone ==
  ASSUME TypeInv, CalmInv, NEW j \in Jobs, SaveRow(j), calm
  PROVE  /\ job[j] \in JobSet /\ Ready(job[j]) /\ job[j].c \in Clients /\ job[j].at = "save"
         /\ job[j].req.op # "update" => job[j].s = row
         /\ Alike(row, job[j].c) /\ client = Reached(job[j]) /\ client # NoClient
         /\ row' = Save(job[j].req, job[j].s, job[j].c) /\ UNCHANGED <<client, now>>
<1>1. job[j] # NoRequest /\ job[j].at = "save"
  BY DEF SaveRow
<1>2. job[j] \in JobSet /\ Ready(job[j])
  BY <1>1, WorkSteps DEF TypeInv
<1>3. Undisturbed(job[j])
  BY <1>1 DEF CalmInv
<1> QED
  BY <1>1, <1>2, <1>3 DEF SaveRow, Undisturbed

LEMMA SaveAlone ==
  ASSUME TypeInv, CalmInv, NEW j \in Jobs, SaveRow(j), calm, ~Uneven(job[j].req, row, job[j].c)
  PROVE  Agree'
<1> DEFINE x == Save(job[j].req, job[j].s, job[j].c)  c == Reached(job[j])
<1>1. row' = x /\ client' = c /\ now' = now /\ client' # NoClient
  BY SavesAlone
<1>2. Alike(x, c)
  BY SavesAlone, SaveAgrees DEF TypeInv, Data
<1> HIDE DEF x, c
<1>3. Alike(row, client)'
  BY <1>1, <1>2 DEF Alike, Differs, Distance, Larger
<1> QED
  BY <1>1, <1>3 DEF Agree

(* A request that ran alone from agreement, without a fault, ends in       *)
(* agreement, unless it is one of those that are uneven.                   *)
THEOREM AloneIsAgreed == Spec => AloneAgrees
<1>1. TypeInv /\ CalmInv /\ [Next]_vars =>
        [\A j \in Jobs :
           SaveRow(j) /\ calm /\ ~Uneven(job[j].req, row, job[j].c) => Agree']_vars
  BY SaveAlone
<1>2. TypeInv /\ TypeInv' /\ CalmInv /\ [Next]_vars => CalmInv'
  BY CalmInductive
<1> QED
  BY TypeInitial, TypeInductive, CalmInitial, <1>1, <1>2, PTL DEF Spec, AloneAgrees

(* What was paid for arrives on the panel, and nothing else changes.       *)
LEMMA SaveDelivers ==
  ASSUME TypeInv, CalmInv, NEW j \in Jobs, SaveRow(j), calm
  PROVE  Delivered(job[j].req, job[j].c)
<1> DEFINE r == job[j].req  c == job[j].c
<1>1. /\ r \in Requests /\ c \in Clients /\ (r.op # "update" => job[j].s = row)
      /\ Alike(row, c) /\ client = Reached(job[j])
  BY SavesAlone DEF JobSet
<1>2. /\ r.gb \in Int /\ r.days \in Int /\ (r.op # "bulkDays" => r.days \in Nat)
      /\ c.gb \in Nat /\ c.exp \in Int /\ c.enable \in BOOLEAN
      /\ c = [gb |-> c.gb, exp |-> c.exp, enable |-> c.enable]
  BY <1>1, RequestFields DEF Clients
<1>3. /\ row.exp.ends \in Int /\ row.exp.onConnect \in BOOLEAN
      /\ row.exp.mirror \in Int \cup {NoMirror}
      /\ row \in Rows /\ now \in Nat
  BY DEF TypeInv, Data, Rows, Expiries
<1>4. row.gb = c.gb /\ ~Differs(c.exp, row.exp)
  BY <1>1 DEF Alike
<1>5. row.exp.mirror # NoMirror => row.exp.mirror = c.exp
  BY <1>4 DEF Differs
<1> HIDE DEF r, c
<1>6. CASE r.op = "addGb"
  <2> DEFINE e == ForPanel(row.exp)
  <2>1. client = [c EXCEPT !.gb = row.gb + r.gb, !.enable = TRUE, !.exp = e]
    BY <1>1, <1>6 DEF Reached, Put, AddGb, r, c
  <2>2. Timely(row, c) => Left(e) = Left(c.exp)
    <3> SUFFICES ASSUME Timely(row, c) PROVE Left(e) = Left(c.exp)
      OBVIOUS
    <3>1. CASE row.exp.mirror \notin {NoMirror, 0}
      BY <1>5, <3>1 DEF ForPanel
    <3>2. CASE row.exp.mirror \in {NoMirror, 0}
      <4>1. e = IF row.exp.onConnect THEN -Larger(1, row.exp.ends - now) ELSE row.exp.ends
        BY <3>2 DEF ForPanel
      <4> HIDE DEF e
      <4>2. CASE c.exp < 0
        <5>1. e = -Larger(1, row.exp.ends - now) /\ row.exp.ends = now - c.exp
          BY <1>1, <1>3, <4>1, <4>2, TimelyEnds
        <5> QED
          BY <1>2, <1>3, <4>2, <5>1 DEF Larger
      <4>3. CASE c.exp > 0
        BY <1>1, <1>3, <4>1, <4>3, TimelyEnds
      <4>4. CASE c.exp = 0
        <5>1. e = now + Year
          BY <1>1, <1>3, <4>1, <4>4, TimelyEnds
        <5> QED
          BY <1>3, <4>4, <5>1, TimeAssumption DEF Left, Larger
      <4> QED
        BY <1>2, <4>2, <4>3, <4>4
    <3> QED
      BY <3>1, <3>2
  <2>3. client.gb = row.gb + r.gb /\ client.exp = e
    BY <1>2, <2>1
  <2> HIDE DEF e
  <2> QED
    BY <1>4, <1>6, <2>2, <2>3 DEF Delivered, r, c
<1>7. CASE r.op = "addDays"
  <2> DEFINE e == Extended(row.exp, r.days).mirror
  <2>1. client = [c EXCEPT !.exp = e, !.enable = TRUE]
    BY <1>1, <1>7 DEF Reached, Put, AddDays, r, c
  <2>2. Timely(row, c) => Left(e) = Left(c.exp) + r.days
    <3> SUFFICES ASSUME Timely(row, c) PROVE Left(e) = Left(c.exp) + r.days
      OBVIOUS
    <3>1. /\ ~row.exp.onConnect => e = Larger(now, row.exp.ends) + r.days
          /\ row.exp.onConnect /\ Larger(0, row.exp.ends - now) + r.days > 0
               => e = -(Larger(0, row.exp.ends - now) + r.days)
      BY <1>2, <1>3, <1>7 DEF Extended, Moved, Dated, Larger
    <3> HIDE DEF e
    <3>2. CASE c.exp < 0
      <4>1. row.exp.onConnect /\ row.exp.ends = now - c.exp
        BY <1>1, <1>3, <3>2, TimelyEnds
      <4>2. Larger(0, row.exp.ends - now) = -c.exp
        BY <1>2, <1>3, <3>2, <4>1 DEF Larger
      <4>3. e = c.exp - r.days
        BY <1>2, <1>7, <3>1, <3>2, <4>1, <4>2
      <4> QED
        BY <1>2, <1>7, <3>2, <4>3 DEF Left
    <3>3. CASE c.exp > 0
      <4>1. e = Larger(now, c.exp) + r.days
        BY <1>1, <1>3, <3>1, <3>3, TimelyEnds
      <4> QED
        BY <1>2, <1>3, <1>7, <3>3, <4>1 DEF Left, Larger
    <3>4. CASE c.exp = 0
      <4>1. e = Larger(now, now + Year) + r.days
        BY <1>1, <1>3, <3>1, <3>4, TimelyEnds
      <4> QED
        BY <1>2, <1>3, <1>7, <3>4, <4>1, TimeAssumption DEF Left, Larger
    <3> QED
      BY <1>2, <3>2, <3>3, <3>4
  <2>3. client.gb = c.gb /\ client.exp = e
    BY <1>2, <2>1
  <2> HIDE DEF e
  <2> QED
    BY <1>7, <2>2, <2>3 DEF Delivered, r, c
<1>8. CASE r.op = "bulkGb"
  <2>1. client = [c EXCEPT !.gb = c.gb + r.gb]
    BY <1>1, <1>8 DEF Reached, Put, BulkGb, r, c
  <2>2. client.gb = c.gb + r.gb /\ client.exp = c.exp
    BY <1>2, <2>1
  <2> QED
    BY <1>8, <2>2 DEF Delivered, r, c
<1> QED
  BY <1>6, <1>7, <1>8 DEF Delivered, r, c

(* Volume and days that were paid for are added to what the panel granted, *)
(* and the other of the two is left alone.                                 *)
THEOREM PurchaseIsDelivered == Spec => PurchaseDelivered
<1>1. TypeInv /\ CalmInv /\ [Next]_vars =>
        [\A j \in Jobs : SaveRow(j) /\ calm => Delivered(job[j].req, job[j].c)]_vars
  BY SaveDelivers
<1>2. TypeInv /\ TypeInv' /\ CalmInv /\ [Next]_vars => CalmInv'
  BY CalmInductive
<1> QED
  BY TypeInitial, TypeInductive, CalmInitial, <1>1, <1>2, PTL DEF Spec, PurchaseDelivered
=============================================================================
