-------------------------------- MODULE Sync --------------------------------
(***************************************************************************)
(* Which accounts exist, and where: as clients of the panels, as rows of   *)
(* the bot, in the archive of deleted accounts, and in the snapshot the    *)
(* last synchronisation left for its undo.  Each request runs alone but    *)
(* for the others it interleaves with at its awaits; it works through      *)
(* accounts one by one, on lists it read at the start.  What an account is *)
(* worth (volume, expiry, limit, title and note) is one value; what a row  *)
(* has besides is told apart only by whether the notes for the undo hold   *)
(* it (Unnoted).                                                           *)
(***************************************************************************)
EXTENDS Naturals, FiniteSets, Sequences, Functions

CONSTANTS
  Accounts,       \* emails
  Ids,            \* Subscription.id and .code, enough for the bounds
  Values,
  Home,           \* the panel of each account
  Stored,         \* accounts with a row and a client at the start
  Foreign,        \* accounts with a client only
  Orphan,         \* accounts with a row only
  Options,        \* the phases a synchronisation may be asked to run
  Jobs,           \* requests in flight at the same time
  MaxRequests,    \* bound: requests
  MaxUpsets,      \* bound: changes on the panel, failed calls, lost requests
  None

ASSUME AccountAssumption ==
  /\ Stored \cup Foreign \cup Orphan \subseteq Accounts
  /\ Stored \cap Foreign = {} /\ Stored \cap Orphan = {} /\ Foreign \cap Orphan = {}
  /\ DOMAIN Home = Accounts
  /\ Values # {}
ASSUME IdAssumption == Injection(Stored \cup Orphan, Ids) # {}
\* newAccounts, deletedAccounts, and the fields of matched accounts.
Phases == {"new", "del", "fields"}
ASSUME OptionAssumption == Options \subseteq SUBSET Phases
ASSUME BoundAssumption == MaxRequests \in Nat /\ MaxUpsets \in Nat

VARIABLES
  panel,      \* the clients of all panels
  rows,       \* Subscription
  archive,    \* AccountArchive: whose, what, the row's code, restoredAt
  snapshot,   \* the setting SYNC_UNDO_KEY
  job,        \* what each request is doing
  fresh,      \* ids and codes not given out yet
  requests, upsets,
  before,     \* history: panel and rows when the running synchronisation began
  base,       \* history: the same for the one the snapshot undoes
  exact,      \* history: nothing else has changed panel or rows since
  clientless, rowless,  \* history: accounts seen without, since a request began
  forgotten,  \* history: accounts of overwritten snapshots, of unseen deletions,
              \* or made anew while their deletion was still to be undone
  overtaken,  \* history: undo requests whose snapshot has been replaced since
  restored    \* history: rows made from each archive entry

ghosts == <<before, base, exact, forgotten, overtaken, restored>>
seen == <<clientless, rowless>>
vars == <<panel, rows, archive, snapshot, job, fresh, requests, upsets, ghosts, seen>>

RowSet == [acct : Accounts, val : Values, code : Ids]

Archives == [acct : Accounts, val : Values, code : Ids \cup {None}, done : BOOLEAN]
Entries == DOMAIN archive

\* SyncUndoSnapshot.
Snapshots == [created : SUBSET Ids, deleted : SUBSET (Ids \X RowSet),
              made : SUBSET Accounts, gone : SUBSET (Accounts \X Values),
              bot : SUBSET (Ids \X Values), pan : SUBSET (Accounts \X Values)]

\* What a request is doing, and what it has in memory.
Directions == {"panel_to_bot", "bot_to_panel"}
Syncs ==
  [kind : {"sync"}, at : {"list", "rows", "relist", "rerows", "store"} \cup Phases, dir : Directions,
   opts : Options, todo : SUBSET Accounts, item : (Accounts \X Values) \cup {None},
   L : [Accounts -> Values \cup {None}], B : [Ids -> RowSet \cup {None}], u : Snapshots]
Undos == [kind : {"undo"}, at : {"work"}, u : Snapshots]
Deletes ==
  [kind : {"delete"}, at : {"archive", "panel", "row"}, a : Accounts,
   unseen : SUBSET {"client", "row"}, i : Ids \cup {None}]
Restores ==
  [kind : {"restore"}, at : {"check", "panel", "row", "mark"}, k : Nat, caught : BOOLEAN]
Creates == [kind : {"create"}, at : {"client", "row"}, a : Accounts, v : Values]
Asked == Syncs \cup Undos \cup Deletes \cup Restores \cup Creates

\* The panel and the rows at one moment.
Moments == [Accounts -> Values \cup {None}] \X [Ids -> RowSet \cup {None}]

ASSUME NoneAssumption ==
  None \notin Ids \cup Values \cup RowSet \cup Snapshots \cup Asked \cup Moments

Blank == [created |-> {}, deleted |-> {}, made |-> {}, gone |-> {}, bot |-> {}, pan |-> {}]

Clients(p) == {a \in Accounts : p[a] # None}
Live(r) == {i \in Ids : r[i] # None}
Named(r, a) == {i \in Live(r) : r[i].acct = a}

TypeOK ==
  /\ panel \in [Accounts -> Values \cup {None}]
  /\ \A i \in Ids : rows[i] # None => rows[i] \in RowSet
  /\ \A k \in Entries : archive[k] \in Archives
  /\ snapshot # None => snapshot \in Snapshots
  /\ job \in [Jobs -> Asked \cup {None}]
  /\ fresh \subseteq Ids
  /\ \A i, k \in Live(rows) : rows[i].code = rows[k].code => i = k

Init ==
  /\ panel = [a \in Accounts |-> IF a \in Stored \cup Foreign
                                 THEN CHOOSE v \in Values : TRUE ELSE None]
  /\ LET f == CHOOSE f \in Injection(Stored \cup Orphan, Ids) : TRUE
     IN rows = [i \in Ids |->
          IF \E a \in DOMAIN f : f[a] = i
          THEN [acct |-> CHOOSE a \in DOMAIN f : f[a] = i,
                val |-> CHOOSE v \in Values : TRUE, code |-> i]
          ELSE None]
  /\ fresh = {i \in Ids : rows[i] = None}
  /\ archive = << >> /\ snapshot = None
  /\ job = [j \in Jobs |-> None]
  /\ requests = 0 /\ upsets = 0
  /\ before = None /\ base = None /\ exact = FALSE
  /\ clientless = {} /\ rowless = {} /\ forgotten = {} /\ overtaken = {}
  /\ restored = << >>

-----------------------------------------------------------------------------

AtRest == \A j \in Jobs : job[j] = None

Upset == upsets < MaxUpsets /\ upsets' = upsets + 1

\* Something else than synchronisation and undo is at work.
Spoil == exact' = FALSE /\ before' = None

Enter(j, d) ==
  /\ job[j] = None /\ requests < MaxRequests
  /\ requests' = requests + 1
  /\ job' = [job EXCEPT ![j] = d]
  /\ UNCHANGED <<panel, rows, archive, snapshot, fresh, upsets, base, forgotten,
                 overtaken, restored>>

Other(j, d) == Enter(j, d) /\ Spoil

Set(j, d) == job' = [job EXCEPT ![j] = d]
Move(j, at) == job' = [job EXCEPT ![j].at = at]
End(j) == job' = [job EXCEPT ![j] = None]
Is(j, kind, at) == job[j] # None /\ job[j].kind = kind /\ job[j].at = at

\* prisma.subscription.create: the code is unique.
CanInsertAnyCode(i, r) == rows[i] = None
CanInsert(i, r) == rows[i] = None /\ \A k \in Live(rows) : rows[k].code # r.code
Insert(i, r) == rows' = [rows EXCEPT ![i] = r]
NextId == CHOOSE i \in fresh : TRUE

-----------------------------------------------------------------------------
(* selectiveSync.                                                          *)

NoClients == [a \in Accounts |-> None]
NoRows == [i \in Ids |-> None]

SyncBegin(j, dir) ==
  /\ \E opts \in Options :
       Enter(j, [kind |-> "sync", at |-> "list", dir |-> dir, opts |-> opts, todo |-> {}, item |-> None,
                 L |-> NoClients, B |-> NoRows, u |-> Blank])
  /\ exact' = (exact /\ AtRest)
  /\ before' = IF AtRest THEN <<panel, rows>> ELSE None

\* listDetailedPanelClients: a panel that does not answer is left out.
Listed(down) == [a \in Accounts |-> IF Home[a] \in down THEN None ELSE panel[a]]

Downs == {{}} \cup {{Home[a]} : a \in Accounts}

\* Accounts of each phase, by the lists it works on.
Todo(phase, dir, L, B) ==
  LET rowed == {B[i].acct : i \in Live(B)} IN
  CASE phase = "new" -> IF dir = "panel_to_bot" THEN Clients(L) \ rowed
                                                ELSE rowed \ Clients(L)
    [] phase = "del" -> IF dir = "panel_to_bot" THEN rowed \ Clients(L)
                                                ELSE Clients(L) \ rowed
    [] phase = "fields" -> Clients(L) \cap rowed

\* The list of clients, and assertPanelReachable: an empty list ends the request,
\* and what it has noted so far is lost.
List(j, at, next) ==
  /\ Is(j, "sync", at)
  /\ \E down \in Downs :
       /\ IF down = {} THEN UNCHANGED upsets ELSE Upset
       /\ LET L == Listed(down) IN
          IF Clients(L) = {}
          THEN End(j) /\ before' = None /\ exact' = (exact /\ job[j].u = Blank)
          ELSE UNCHANGED <<before, exact>> /\ Set(j, [job[j] EXCEPT !.at = next, !.L = L])
  /\ UNCHANGED <<panel, rows, archive, snapshot, fresh, requests, base, forgotten,
                 overtaken, restored>>

\* A phase that was not asked for has nothing to do.
Selected(j, phase, todo) == IF phase \in job[j].opts THEN todo ELSE {}

\* The list of rows, read after the clients have answered.
ListRows(j, at, phase) ==
  /\ Is(j, "sync", at)
  /\ Set(j, [job[j] EXCEPT !.at = phase, !.B = rows,
               !.todo = Selected(j, phase, Todo(phase, job[j].dir, job[j].L, rows))])
  /\ UNCHANGED <<panel, rows, archive, snapshot, fresh, requests, upsets, ghosts>>

Sub(j, a) == CHOOSE i \in Named(job[j].B, a) : TRUE

\* Lists are worked through in their order.
First(S) == IF S = {} THEN {} ELSE {CHOOSE x \in S : TRUE}

\* confirmClientOnPanels, for a client the list does not have.
MissingUnasked(a) == TRUE
Missing(a) == panel[a] = None

\* One account of a phase: what is read before anything is changed.  A missing
\* client is confirmed, and so is the absence of a row; deleting a client is not.
\* bot: the row's own panel may not answer, then the account is skipped.
Look(j, phase) ==
  /\ Is(j, "sync", phase) /\ job[j].item = None
  /\ \E a \in First(job[j].todo) :
       LET toBot == job[j].dir = "panel_to_bot"
           rest == [job[j] EXCEPT !.todo = @ \ {a}]
           go(v) == Set(j, [rest EXCEPT !.item = <<a, v>>])
       IN CASE phase = "new" /\ toBot ->
                 IF Named(rows, a) # {} THEN Set(j, rest)
                 ELSE go(IF panel[a] = None THEN job[j].L[a] ELSE panel[a])
            [] phase = "new" /\ ~toBot ->
                 IF Missing(a) THEN go(job[j].B[Sub(j, a)].val) ELSE Set(j, rest)
            [] phase = "del" /\ toBot ->
                 IF Missing(a) THEN go(job[j].B[Sub(j, a)].val) ELSE Set(j, rest)
            [] phase = "del" /\ ~toBot -> go(job[j].L[a])
            [] phase = "fields" /\ toBot ->
                 go(IF panel[a] = None THEN job[j].L[a] ELSE panel[a])
            [] phase = "fields" /\ ~toBot ->
                 IF panel[a] = None THEN Set(j, rest) ELSE go(panel[a])
  /\ UNCHANGED <<panel, rows, archive, snapshot, fresh, requests, upsets, ghosts>>

Done(j, u) == Set(j, [job[j] EXCEPT !.item = None, !.u = u])

NotedDeletionsOnly(j, phase, a, v) ==
  LET u == job[j].u
      toBot == job[j].dir = "panel_to_bot"
      i == Sub(j, a)
  IN CASE phase = "del" /\ toBot -> [u EXCEPT !.deleted = @ \cup {<<i, job[j].B[i]>>}]
       [] phase = "del" /\ ~toBot -> [u EXCEPT !.gone = @ \cup {<<a, v>>}]
       [] OTHER -> u

\* What the snapshot notes of an account: deletions and changes before they are
\* made, creations after.
Noted(j, phase, a, v) ==
  LET u == job[j].u
      toBot == job[j].dir = "panel_to_bot"
      i == Sub(j, a)
  IN CASE phase = "new" -> u
       [] phase = "del" /\ toBot -> [u EXCEPT !.deleted = @ \cup {<<i, job[j].B[i]>>}]
       [] phase = "del" /\ ~toBot -> [u EXCEPT !.gone = @ \cup {<<a, v>>}]
       [] phase = "fields" ->
            IF v = job[j].B[i].val THEN u
            ELSE IF toBot THEN [u EXCEPT !.bot = @ \cup {<<i, job[j].B[i].val>>}]
                          ELSE [u EXCEPT !.pan = @ \cup {<<a, v>>}]

\* importOnePanelClient.
ImportClient(j, a, v) ==
  /\ fresh # {}
  /\ Insert(NextId, [acct |-> a, val |-> v, code |-> NextId])
  /\ fresh' = fresh \ {NextId}
  /\ Done(j, [job[j].u EXCEPT !.created = @ \cup {NextId}])
  /\ UNCHANGED panel

\* addClient, refused for a name the panel has.  What the row lacks of its client's
\* identity is written into it: see Unnoted.
AddClient(j, a, v) ==
  /\ panel' = [panel EXCEPT ![a] = IF @ = None THEN v ELSE @]
  /\ Done(j, IF panel[a] = None THEN [job[j].u EXCEPT !.made = @ \cup {a}] ELSE job[j].u)
  /\ UNCHANGED <<rows, fresh>>

\* deleteSubscriptionDbOnly.
DropRow(j, a, v) ==
  /\ rows' = [rows EXCEPT ![Sub(j, a)] = None]
  /\ Done(j, Noted(j, "del", a, v))
  /\ UNCHANGED <<panel, fresh>>

DropClient(j, a, v) ==
  /\ panel' = [panel EXCEPT ![a] = None]
  /\ Done(j, Noted(j, "del", a, v))
  /\ UNCHANGED <<rows, fresh>>

\* applyPanelFieldsToBot.
FieldsToBot(j, a, v) ==
  /\ rows' = [rows EXCEPT ![Sub(j, a)] = IF @ = None THEN @ ELSE [@ EXCEPT !.val = v]]
  /\ Done(j, Noted(j, "fields", a, v))
  /\ UNCHANGED <<panel, fresh>>

\* applyBotFieldsToPanel.  A row without a panelExpiryTime gets one: see Unnoted.
FieldsToPanel(j, a, v) ==
  /\ panel' = [panel EXCEPT ![a] = IF @ = None THEN @ ELSE job[j].B[Sub(j, a)].val]
  /\ Done(j, Noted(j, "fields", a, v))
  /\ UNCHANGED <<rows, fresh>>

\* Clients that a snapshot, or a request's notes, would put back.
Gone(s) == IF s = None THEN {} ELSE {g[1] : g \in s.gone}
Noting(i) == job[i] # None /\ job[i].kind \in {"sync", "undo"}
ToPutBack == Gone(snapshot) \cup UNION {Gone(job[i].u) : i \in {i \in Jobs : Noting(i)}}

\* Columns are written, or lost, that no note holds: the client's identity and
\* panelExpiryTime, when a row has them empty and its client is made or changed; of
\* a row that is deleted, the columns BotSnap leaves out (of a debt, of manual
\* delivery) and the targets of the orders that waited for it.  Whether a row has
\* such columns is not modelled.
Unnoted(j, phase, a, v) ==
  IF job[j].dir = "panel_to_bot" THEN phase = "del"
  ELSE \/ phase = "new" /\ panel[a] = None
       \/ phase = "fields" /\ v # job[j].B[Sub(j, a)].val

Make(j, phase) ==
  /\ Is(j, "sync", phase) /\ job[j].item # None
  /\ LET a == job[j].item[1]
         v == job[j].item[2]
     IN /\ IF job[j].dir = "panel_to_bot"
           THEN \/ phase = "new" /\ ImportClient(j, a, v)
                \/ phase = "del" /\ DropRow(j, a, v)
                \/ phase = "fields" /\ FieldsToBot(j, a, v)
           ELSE \/ phase = "new" /\ AddClient(j, a, v)
                \/ phase = "del" /\ DropClient(j, a, v)
                \/ phase = "fields" /\ FieldsToPanel(j, a, v)
        /\ \/ UNCHANGED <<before, exact>>
           \/ Unnoted(j, phase, a, v) /\ Spoil
  /\ forgotten' = forgotten \cup ((Clients(panel') \ Clients(panel)) \cap ToPutBack)
  /\ UNCHANGED <<archive, snapshot, requests, upsets, base, overtaken, restored>>

\* A call of the loop fails: the account is counted and the loop goes on.
Skip(j, phase) ==
  /\ Is(j, "sync", phase) /\ job[j].item # None
  /\ Upset
  /\ Done(j, Noted(j, phase, job[j].item[1], job[j].item[2]))
  /\ UNCHANGED <<panel, rows, archive, snapshot, fresh, requests, ghosts>>

\* The answer of addClient is lost: the client is made, and nothing noted.
AddLost(j) ==
  /\ Is(j, "sync", "new") /\ job[j].item # None /\ job[j].dir = "bot_to_panel"
  /\ LET a == job[j].item[1] IN
     /\ panel[a] = None
     /\ panel' = [panel EXCEPT ![a] = job[j].item[2]]
  /\ Upset /\ Spoil
  /\ Done(j, job[j].u)
  /\ forgotten' = forgotten \cup ((Clients(panel') \ Clients(panel)) \cap ToPutBack)
  /\ UNCHANGED <<rows, archive, snapshot, fresh, requests, base, overtaken, restored>>

PhaseEnds(j, phase, next) ==
  /\ Is(j, "sync", phase) /\ job[j].item = None /\ job[j].todo = {}
  /\ Set(j, [job[j] EXCEPT !.at = next,
               !.todo = IF next # "fields" THEN {}
                        ELSE Selected(j, next, Todo(next, job[j].dir, job[j].L, job[j].B))])
  /\ UNCHANGED <<panel, rows, archive, snapshot, fresh, requests, upsets, ghosts>>

\* Rows that nothing but a snapshot remembers.
Held(s) == IF s = None THEN {} ELSE {d[2].acct : d \in s.deleted} \cup Gone(s)

\* saveUndoSnapshot, only when something changed: else the older one stays.
Store(j) ==
  /\ Is(j, "sync", "store")
  /\ End(j)
  /\ IF job[j].u = Blank
     THEN UNCHANGED <<snapshot, base, forgotten, overtaken, exact>>
     ELSE /\ snapshot' = job[j].u
          /\ base' = before
          /\ exact' = (before # None)
          /\ forgotten' = forgotten \cup Held(snapshot)
          /\ overtaken' = {i \in Jobs : job[i] # None /\ job[i].kind = "undo"}
  /\ before' = None
  /\ UNCHANGED <<panel, rows, archive, fresh, requests, upsets, restored>>

Sync(j) ==
  \/ List(j, "list", "rows") \/ ListRows(j, "rows", "new")
  \/ \E phase \in Phases : Look(j, phase) \/ Make(j, phase) \/ Skip(j, phase)
  \/ AddLost(j)
  \/ PhaseEnds(j, "new", "relist")
  \/ List(j, "relist", "rerows") \/ ListRows(j, "rerows", "del")
  \/ PhaseEnds(j, "del", "fields")
  \/ PhaseEnds(j, "fields", "store")
  \/ Store(j)

-----------------------------------------------------------------------------
(* undoLastSync: every step is tried, a failing one is only logged.        *)

Parts == <<"created", "made", "deleted", "gone", "bot", "pan">>

UndoBegin(j) ==
  /\ snapshot # None
  /\ Enter(j, [kind |-> "undo", at |-> "work", u |-> snapshot])
  /\ exact' = (exact /\ AtRest) /\ before' = None

\* The parts are worked through in this order.
Turn(j, n) == \A k \in 1 .. (n - 1) : job[j].u[Parts[k]] = {}

Undone(j, n, x) ==
  CASE Parts[n] = "created" -> rows' = [rows EXCEPT ![x] = None] /\ UNCHANGED panel
    [] Parts[n] = "made" -> panel' = [panel EXCEPT ![x] = None] /\ UNCHANGED rows
    [] Parts[n] = "deleted" ->
         (IF CanInsert(x[1], x[2]) THEN Insert(x[1], x[2]) ELSE UNCHANGED rows)
         /\ UNCHANGED panel
    [] Parts[n] = "gone" ->
         panel' = [panel EXCEPT ![x[1]] = IF @ = None THEN x[2] ELSE @] /\ UNCHANGED rows
    [] Parts[n] = "bot" ->
         rows' = [rows EXCEPT ![x[1]] = IF @ = None THEN @ ELSE [@ EXCEPT !.val = x[2]]]
         /\ UNCHANGED panel
    [] Parts[n] = "pan" ->
         panel' = [panel EXCEPT ![x[1]] = IF @ = None THEN @ ELSE x[2]] /\ UNCHANGED rows

UndoOne(j, n) ==
  /\ Is(j, "undo", "work") /\ Turn(j, n)
  /\ \E x \in First(job[j].u[Parts[n]]) :
       /\ Set(j, [job[j] EXCEPT !.u[Parts[n]] = @ \ {x}])
       /\ \/ Undone(j, n, x) /\ UNCHANGED <<upsets, exact>>
          \/ Upset /\ exact' = FALSE /\ UNCHANGED <<panel, rows>>
  /\ UNCHANGED <<archive, snapshot, fresh, requests, before, base, forgotten, overtaken, restored>>

\* setSetting(SYNC_UNDO_KEY, "") at the end, whatever was restored and whichever
\* snapshot is there by now.
UndoEnd(j) ==
  /\ Is(j, "undo", "work") /\ job[j].u = Blank
  /\ End(j)
  /\ snapshot' = None
  /\ forgotten' = forgotten \cup IF j \in overtaken THEN Held(snapshot) ELSE {}
  /\ overtaken' = overtaken \ {j}
  /\ UNCHANGED <<panel, rows, archive, fresh, requests, upsets, before, base, exact, restored>>

-----------------------------------------------------------------------------
(* deleteConfig, restoreAccountFromArchive, createOnePanelClient.          *)

DeleteBegin(j, a) ==
  Other(j, [kind |-> "delete", at |-> "archive", a |-> a, unseen |-> {},
            i |-> IF Named(rows, a) = {} THEN None ELSE CHOOSE i \in Named(rows, a) : TRUE])

FoundInRow(a, row) == IF row = None THEN None ELSE row.val

\* gatherAccountFullDetail: the panel's own detail first, the row's otherwise.
Found(a, row) ==
  IF panel[a] # None THEN panel[a] ELSE IF row # None THEN row.val ELSE None

\* archiveAccountSnapshot: failing is only logged.
\* The client is looked for on every panel; one that does not answer has none.
Archive(j) ==
  /\ Is(j, "delete", "archive")
  /\ LET a == job[j].a
         i == job[j].i
         row == IF i = None THEN None ELSE rows[i]
         entry(v) == [acct |-> a, val |-> v, done |-> FALSE,
                      code |-> IF row = None THEN None ELSE row.code]
         keep(v) == /\ archive' = Append(archive, entry(v))
                    /\ restored' = Append(restored, {})
     IN /\ Set(j, [job[j] EXCEPT !.at = "panel",
                     !.unseen = {w \in {"client", "row"} :
                                   IF w = "client" THEN panel[a] = None ELSE row = None}])
        /\ \/ /\ IF Found(a, row) = None THEN UNCHANGED <<archive, restored>>
                                          ELSE keep(Found(a, row))
              /\ UNCHANGED upsets
           \/ Upset /\ (UNCHANGED <<archive, restored>> \/ (row # None /\ keep(row.val)))
  /\ UNCHANGED <<panel, rows, snapshot, fresh, requests, before, base, exact, forgotten,
                 overtaken>>

\* deleteClient on the row's panel, then on the others; errors are ignored.
DeleteClient(j) ==
  /\ Is(j, "delete", "panel")
  /\ \/ panel' = [panel EXCEPT ![job[j].a] = None] /\ UNCHANGED upsets
     \/ Upset /\ UNCHANGED panel
  /\ IF job[j].i = None THEN End(j) ELSE Move(j, "row")
  /\ forgotten' = forgotten \cup IF "client" \in job[j].unseen
                                   THEN Clients(panel) \ Clients(panel') ELSE {}
  /\ UNCHANGED <<rows, archive, snapshot, fresh, requests, before, base, exact, overtaken, restored>>

DeleteRow(j) ==
  /\ Is(j, "delete", "row")
  /\ rows' = [rows EXCEPT ![job[j].i] = None]
  /\ End(j)
  /\ forgotten' = forgotten \cup IF "row" \in job[j].unseen THEN {job[j].a} ELSE {}
  /\ UNCHANGED <<panel, archive, snapshot, fresh, requests, upsets, before, base, exact,
                 overtaken, restored>>

RestoreBegin(j, k) ==
  /\ ~archive[k].done
  /\ Other(j, [kind |-> "restore", at |-> "check", k |-> k, caught |-> FALSE])

\* "No row has this email": read, and used after the panel has answered.
RestoreCheck(j) ==
  /\ Is(j, "restore", "check")
  /\ IF Named(rows, archive[job[j].k].acct) # {} THEN End(j) ELSE Move(j, "panel")
  /\ UNCHANGED <<panel, rows, archive, snapshot, fresh, requests, upsets, ghosts>>

\* The try block throws: its catch goes on with the row; a second time is final.
Caught(j) ==
  IF job[j].caught THEN End(j)
  ELSE Set(j, [job[j] EXCEPT !.at = "row", !.caught = TRUE])

\* addClient, refused for a name the panel has.
RestoreClient(j) ==
  /\ Is(j, "restore", "panel")
  /\ LET a == archive[job[j].k].acct IN
     \/ /\ panel[a] = None
        /\ panel' = [panel EXCEPT ![a] = archive[job[j].k].val]
        /\ Move(j, "row")
        /\ UNCHANGED upsets
     \/ /\ IF panel[a] = None THEN Upset ELSE UNCHANGED upsets
        /\ Caught(j)
        /\ UNCHANGED panel
  /\ UNCHANGED <<rows, archive, snapshot, fresh, requests, ghosts>>

RestoredCodeNew(k) == NextId
RestoredCode(k) == IF archive[k].code = None THEN NextId ELSE archive[k].code

RestoreRow(j) ==
  /\ Is(j, "restore", "row")
  /\ LET k == job[j].k
         r == [acct |-> archive[k].acct, val |-> archive[k].val, code |-> RestoredCode(k)]
     IN /\ fresh # {}
        /\ \/ /\ CanInsert(NextId, r)
              /\ Insert(NextId, r) /\ fresh' = fresh \ {NextId}
              /\ restored' = [restored EXCEPT ![k] = @ \cup {NextId}]
              /\ Move(j, "mark")
              /\ UNCHANGED upsets
           \/ /\ IF CanInsert(NextId, r) THEN Upset ELSE UNCHANGED upsets
              /\ Caught(j) /\ UNCHANGED <<rows, fresh, restored>>
  /\ UNCHANGED <<panel, archive, snapshot, requests, before, base, exact, forgotten,
                 overtaken>>

\* restoredAt; when that fails the catch creates the row once more.
RestoreMark(j) ==
  /\ Is(j, "restore", "mark")
  /\ \/ /\ archive' = [archive EXCEPT ![job[j].k].done = TRUE]
        /\ End(j)
        /\ UNCHANGED upsets
     \/ Upset /\ Caught(j) /\ UNCHANGED archive
  /\ UNCHANGED <<panel, rows, snapshot, fresh, requests, ghosts>>

\* allocateUniqueEmail: another name is taken when this one is in use.
CreateBegin(j, a) ==
  /\ Named(rows, a) = {} /\ panel[a] = None
  /\ Other(j, [kind |-> "create", at |-> "client", a |-> a, v |-> CHOOSE v \in Values : TRUE])

CreateClient(j) ==
  /\ Is(j, "create", "client")
  /\ IF panel[job[j].a] = None
     THEN panel' = [panel EXCEPT ![job[j].a] = job[j].v] /\ Move(j, "row")
     ELSE End(j) /\ UNCHANGED panel
  /\ UNCHANGED <<rows, archive, snapshot, fresh, requests, upsets, ghosts>>

CreateRow(j) ==
  /\ Is(j, "create", "row")
  /\ fresh # {}
  /\ \/ /\ Insert(NextId, [acct |-> job[j].a, val |-> job[j].v, code |-> NextId])
        /\ fresh' = fresh \ {NextId}
        /\ UNCHANGED upsets
     \/ Upset /\ UNCHANGED <<rows, fresh>>
  /\ End(j)
  /\ UNCHANGED <<panel, archive, snapshot, requests, ghosts>>

-----------------------------------------------------------------------------

\* An administrator changes a client on the panel's own page.
PanelEdit ==
  /\ Upset
  /\ \E a \in Clients(panel), v \in Values : panel' = [panel EXCEPT ![a] = v]
  /\ panel' # panel
  /\ Spoil
  /\ UNCHANGED <<rows, archive, snapshot, job, fresh, requests, base, forgotten,
                 overtaken, restored>>

\* The process restarts: what the requests had in memory is lost.
Restart ==
  /\ ~AtRest
  /\ Upset
  /\ job' = [j \in Jobs |-> None]
  /\ Spoil
  /\ overtaken' = {}
  /\ UNCHANGED <<panel, rows, archive, snapshot, fresh, requests, base, forgotten, restored>>

\* Who has been seen without a client, or a row, since a request was alone.
Watch ==
  /\ clientless' = (Accounts \ Clients(panel')) \cup IF AtRest THEN {} ELSE clientless
  /\ rowless' = {a \in Accounts : Named(rows', a) = {}} \cup IF AtRest THEN {} ELSE rowless

Step ==
  \/ \E j \in Jobs :
       \/ \E dir \in Directions : SyncBegin(j, dir)
       \/ Sync(j)
       \/ UndoBegin(j)
       \/ \E n \in 1 .. 6 : UndoOne(j, n)
       \/ UndoEnd(j)
       \/ \E a \in Accounts : DeleteBegin(j, a) \/ CreateBegin(j, a)
       \/ Archive(j) \/ DeleteClient(j) \/ DeleteRow(j)
       \/ \E k \in Entries : RestoreBegin(j, k)
       \/ RestoreCheck(j) \/ RestoreClient(j) \/ RestoreRow(j) \/ RestoreMark(j)
       \/ CreateClient(j) \/ CreateRow(j)
  \/ PanelEdit
  \/ Restart

Next == Step /\ Watch

Spec == Init /\ [][Next]_vars

-----------------------------------------------------------------------------
(* Properties.                                                             *)

(***************************************************************************)
(* "Selective one-way sync with undo snapshot" (admin-configs.ts:2216): an *)
(* undo that ends puts panel and rows back as they were when the last      *)
(* synchronisation that changed anything began, provided that nothing else *)
(* touched the accounts from that beginning to the end of the undo - a     *)
(* synchronisation that changes accounts and then loses its notes, because *)
(* its second listing throws (line 2379), or the answer of a call that     *)
(* makes a client, included - and that the synchronisation wrote or lost   *)
(* no column its notes leave out.                                          *)
(***************************************************************************)
UndoRestores == [][
  \A j \in Jobs : UndoEnd(j) /\ exact => <<panel, rows>> = base]_vars

(***************************************************************************)
(* "Confirm truly missing" (admin-configs.ts:2293) and the confirmation of *)
(* deletedAccounts: however requests interleave and whichever panel does   *)
(* not answer, a synchronisation deletes a row only when its client was    *)
(* missing at some moment, and a client only when its row was.             *)
(***************************************************************************)
DeletionsJustified == [][
  \A j \in Jobs : Make(j, "del") =>
    /\ \A i \in Live(rows) \ Live(rows') : rows[i].acct \in clientless
    /\ Clients(panel) \ Clients(panel') \subseteq rowless]_vars

Kept(a) ==
  \/ panel[a] # None \/ Named(rows, a) # {}
  \/ \E k \in Entries : archive[k].acct = a
  \/ a \in Held(snapshot)
  \/ \E j \in Jobs : Noting(j) /\ a \in Held(job[j].u)

(***************************************************************************)
(* "Snapshots full account detail into AccountArchive first"               *)
(* (admin-configs.ts:614): no account that was there vanishes without a    *)
(* trace - it is on a panel, in a row, in the archive or in an undo        *)
(* snapshot - when no call fails, unless the snapshot that held it was     *)
(* overwritten; or the client or the row came between the archive's look   *)
(* and the deletion, from an undo, a restore or a sale under way; or a     *)
(* synchronisation, on an old list, made its client anew while a snapshot  *)
(* still held the deleted one, and two undos then took both.               *)
(***************************************************************************)
NothingVanishes ==
  upsets = 0 => \A a \in (Stored \cup Foreign \cup Orphan) \ forgotten : Kept(a)

(***************************************************************************)
(* An archived account that had a row comes back at most once, although    *)
(* two restores may both pass the check of restoredAt and of the email     *)
(* (account-archive.ts:425-430): the row's unique code stops the second.   *)
(***************************************************************************)
RestoredOnce == \A k \in Entries :
  archive[k].code # None => Cardinality(restored[k] \cap Live(rows)) <= 1
=============================================================================
