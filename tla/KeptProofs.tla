----------------------------- MODULE KeptProofs -----------------------------
(* Two theorems about what synchronisation keeps.                          *)
(*                                                                         *)
(* No account vanishes without a trace, whatever synchronisations, undos,  *)
(* deletions, restorations and sales interleave, as long as no call fails. *)
(* A row or a client that a snapshot would take away again is nothing to   *)
(* rely on, and neither is the note of one: every account rests on         *)
(* something else.                                                         *)
(*                                                                         *)
(* An undo that nothing else disturbs restores what was there: the notes   *)
(* of a synchronisation lead, at every moment, from the panel and the rows *)
(* back to what they were at its beginning.                                *)
EXTENDS SyncProofs

AtFirst == Stored \cup Foreign \cup Orphan

\* What an undo would do, by the snapshot or the notes of a request.
Notes == (IF snapshot = None THEN {} ELSE {snapshot})
           \cup {job[i].u : i \in {i \in Jobs : Noting(i)}}

\* Rows and clients that it would take away.
Passing == UNION {s.created : s \in Notes}
Fleeting == UNION {s.made : s \in Notes}

\* Notes s hold an account that will stay when it is put back.
HoldsRow(s, a, P) == \E d \in s.deleted : d[2].acct = a /\ d[1] \notin P
HoldsClient(s, a, F) == a \notin F /\ a \in Gone(s)
Holds(s, a, P, F) == HoldsRow(s, a, P) \/ HoldsClient(s, a, F)

InArchive(a) == \E k \in Entries : archive[k].acct = a
RowStays(i, a) == rows[i] # None /\ rows[i].acct = a /\ i \notin Passing
ClientStays(a) == panel[a] # None /\ a \notin Fleeting

\* What an account rests on besides the snapshot.
Sure(a) ==
  \/ InArchive(a)
  \/ \E i \in Ids : RowStays(i, a)
  \/ ClientStays(a)
  \/ \E j \in Jobs : Noting(j) /\ Holds(job[j].u, a, Passing, Fleeting)

\* An undo that has not been overtaken will clear the snapshot: what it held
\* is by then put back, or in the notes the undo still works through.
Undoing == {j \in Jobs : job[j] # None /\ job[j].kind = "undo"}
BySnapshot(a) ==
  snapshot # None /\ Holds(snapshot, a, Passing, Fleeting) /\ Undoing \subseteq overtaken
Safe(a) == Sure(a) \/ BySnapshot(a)
Tracked == \A a \in AtFirst \ forgotten : Safe(a)

\* A deletion has archived its account, or seen neither side of it.
Examined(d) == d # None /\ d.kind = "delete" /\ d.at # "archive" =>
  InArchive(d.a) \/ {"client", "row"} \subseteq d.unseen

\* A synchronisation deletes last.
Making == {"list", "rows", "new", "relist", "rerows"}
Early(d) == d # None /\ d.kind = "sync" /\ d.at \in Making =>
  d.u.deleted = {} /\ d.u.gone = {}

Steady == upsets = 0 => Tracked /\ \A j \in Jobs : Examined(job[j])
KInv ==
  /\ upsets \in Nat
  /\ overtaken \subseteq Undoing
  /\ \A j \in Jobs : Early(job[j])
  /\ Steady

-----------------------------------------------------------------------------
(* Notes and what they hold.                                               *)

Notable(e) == e # None /\ e.kind \in {"sync", "undo"}

LEMMA NotesTyped ==
  ASSUME IInv
  PROVE  Notes \subseteq Snapshots
<1> SUFFICES ASSUME NEW j \in Jobs, Noting(j)
             PROVE  job[j].u \in Snapshots
  BY DEF Notes, IInv, TypeInv, Tables
<1>1. job[j] \in Syncs \/ job[j] \in Undos
  BY Kinds DEF Noting, IInv, TypeInv, Work
<1> QED
  BY <1>1 DEF Syncs, Undos

LEMMA NotesStep ==
  ASSUME IInv, NEW j \in Jobs, NEW e, job' = [job EXCEPT ![j] = e],
         snapshot' = None \/ snapshot' \in Notes
  PROVE  \A s \in Notes' : s \in Notes \/ (Notable(e) /\ s = e.u)
<1> SUFFICES ASSUME NEW i \in Jobs, Noting(i)'
             PROVE  job'[i].u \in Notes \/ (Notable(e) /\ job'[i].u = e.u)
  BY DEF Notes
<1>1. job'[i] = IF i = j THEN e ELSE job[i]
  BY DEF IInv, TypeInv, Work
<1> QED
  BY <1>1 DEF Noting, Notes, Notable

\* What notes take away grows by a new row, or by a client that was not there.
Lessened(a) ==
  /\ \A i \in Passing' : i \in Passing \/ i \in fresh
  /\ a \in Fleeting' => a \in Fleeting \/ (panel[a] = None /\ a \notin ToPutBack)

LEMMA Lessens ==
  ASSUME IInv, NEW j \in Jobs, NEW e, job' = [job EXCEPT ![j] = e],
         snapshot' = None \/ snapshot' \in Notes, NEW a,
         Notable(e) =>
           /\ e.u.created \subseteq Passing \cup fresh
           /\ a \in e.u.made => a \in Fleeting \/ (panel[a] = None /\ a \notin ToPutBack)
  PROVE  Lessened(a)
<1>1. \A s \in Notes' : s \in Notes \/ (Notable(e) /\ s = e.u)
  BY NotesStep
<1>2. ASSUME NEW i \in Passing'
      PROVE  i \in Passing \/ i \in fresh
  BY <1>1, <1>2 DEF Passing
<1>3. ASSUME a \in Fleeting'
      PROVE  a \in Fleeting \/ (panel[a] = None /\ a \notin ToPutBack)
  BY <1>1, <1>3 DEF Fleeting
<1> QED
  BY <1>2, <1>3 DEF Lessened

(* What notes hold, they hold still.                                       *)
LEMMA HoldsStill ==
  ASSUME IInv, NEW s \in Notes, NEW a, Lessened(a), Holds(s, a, Passing, Fleeting)
  PROVE  Holds(s, a, Passing', Fleeting')
<1>1. s \in Snapshots
  BY NotesTyped
<1>2. CASE HoldsRow(s, a, Passing)
  <2>1. PICK d \in s.deleted : d[2].acct = a /\ d[1] \notin Passing
    BY <1>2 DEF HoldsRow
  <2>2. d[1] \in Ids /\ d[2] \in RowSet /\ d = <<d[1], d[2]>>
    BY <1>1 DEF Snapshots
  <2>3. Recalls(d[1], d[2])
    BY <2>2 DEF Recalls, RecalledBy, Notes, Noting
  <2>4. d[1] \notin fresh
    BY <2>2, <2>3 DEF IInv, CodeInv, Given
  <2> QED
    BY <2>1, <2>4 DEF Lessened, Holds, HoldsRow
<1>3. CASE HoldsClient(s, a, Fleeting)
  <2>1. a \in ToPutBack
    BY <1>3 DEF HoldsClient, ToPutBack, Notes, Gone
  <2> QED
    BY <1>3, <2>1 DEF HoldsClient, Lessened, Holds
<1> QED
  BY <1>2, <1>3 DEF Holds

LEMMA MoreHolds ==
  ASSUME NEW s, NEW t, s.deleted \subseteq t.deleted, s.gone \subseteq t.gone,
         s # None, t # None, NEW a, NEW P, NEW F, Holds(s, a, P, F)
  PROVE  Holds(t, a, P, F)
BY DEF Holds, HoldsRow, HoldsClient, Gone

-----------------------------------------------------------------------------
(* What a step that changes one request has to keep, account by account.   *)

\* Of what an account rests on, each part stays or another one takes over.
Rests(j, e, a) ==
  /\ InArchive(a) => InArchive(a)'
  /\ \A i \in Ids : RowStays(i, a) => Sure(a)' \/ (rows'[i] # None /\ rows'[i].acct = a)
  /\ panel[a] # None /\ a \notin Fleeting => Sure(a)' \/ panel'[a] # None
  /\ Noting(j) /\ Holds(job[j].u, a, Passing, Fleeting) =>
       Sure(a)' \/ (Notable(e) /\ Holds(e.u, a, Passing', Fleeting'))

LEMMA SureStill ==
  ASSUME IInv, NEW j \in Jobs, NEW e, job' = [job EXCEPT ![j] = e],
         NEW a \in Accounts, Lessened(a), Rests(j, e, a), Sure(a)
  PROVE  Sure(a)'
<1>1. \A i \in Jobs : job'[i] = IF i = j THEN e ELSE job[i]
  BY DEF IInv, TypeInv, Work
<1>2. CASE InArchive(a)
  BY <1>2 DEF Rests, Sure
<1>3. CASE \E i \in Ids : RowStays(i, a)
  <2>1. PICK i \in Ids : RowStays(i, a)
    BY <1>3
  <2>2. i \notin fresh
    <3>1. rows[i] \in RowSet /\ Recalls(i, rows[i])
      BY <2>1 DEF RowStays, Recalls, IInv, TypeInv, Tables
    <3> QED
      BY <3>1 DEF IInv, CodeInv, Given
  <2>3. i \notin Passing'
    BY <2>1, <2>2 DEF RowStays, Lessened
  <2> QED
    BY <2>1, <2>3 DEF Rests, Sure, RowStays
<1>4. CASE ClientStays(a)
  BY <1>4 DEF ClientStays, Lessened, Rests, Sure
<1>5. CASE \E k \in Jobs : Noting(k) /\ Holds(job[k].u, a, Passing, Fleeting)
  <2>1. PICK k \in Jobs : Noting(k) /\ Holds(job[k].u, a, Passing, Fleeting)
    BY <1>5
  <2>2. CASE k = j
    <3>1. Sure(a)' \/ (Notable(e) /\ Holds(e.u, a, Passing', Fleeting'))
      BY <2>1, <2>2 DEF Rests
    <3>2. CASE Notable(e) /\ Holds(e.u, a, Passing', Fleeting')
      BY <1>1, <3>2 DEF Sure, Noting, Notable
    <3> QED
      BY <3>1, <3>2
  <2>3. CASE k # j
    <3>1. job[k].u \in Notes
      BY <2>1 DEF Notes
    <3>2. Holds(job[k].u, a, Passing', Fleeting')
      BY <2>1, <3>1, HoldsStill
    <3> QED
      BY <1>1, <2>1, <2>3, <3>2 DEF Sure, Noting
  <2> QED
    BY <2>2, <2>3
<1> QED
  BY <1>2, <1>3, <1>4, <1>5 DEF Sure

LEMMA SnapshotStill ==
  ASSUME IInv, NEW a, Lessened(a), UNCHANGED <<snapshot, overtaken>>,
         Undoing' \subseteq Undoing, BySnapshot(a)
  PROVE  BySnapshot(a)'
<1>1. snapshot # None /\ snapshot \in Notes
  BY DEF BySnapshot, Notes
<1>2. Holds(snapshot, a, Passing', Fleeting')
  BY <1>1, HoldsStill DEF BySnapshot
<1> QED
  BY <1>2 DEF BySnapshot

\* The request goes on as what it was, or is a new one but no undo.
NoNewUndo(j, e) ==
  e # None /\ e.kind = "undo" => job[j] # None /\ job[j].kind = "undo"

LEMMA UndoingStep ==
  ASSUME IInv, NEW j \in Jobs, NEW e, job' = [job EXCEPT ![j] = e]
  PROVE  /\ NoNewUndo(j, e) => Undoing' \subseteq Undoing
         /\ Undoing \ {j} \subseteq Undoing'
         /\ e # None /\ e.kind = "undo" => j \in Undoing'
<1>1. \A i \in Jobs : job'[i] = IF i = j THEN e ELSE job[i]
  BY DEF IInv, TypeInv, Work
<1> QED
  BY <1>1 DEF Undoing, NoNewUndo

\* A request goes on.
Goes(j, e) ==
  /\ job' = [job EXCEPT ![j] = e] /\ Early(e) /\ forgotten \subseteq forgotten'
  /\ upsets' = upsets \/ upsets' = upsets + 1

(* The whole invariant, when one request goes on.                          *)
LEMMA KeptStep ==
  ASSUME IInv, KInv, NEW j \in Jobs, NEW e, Goes(j, e), overtaken' \subseteq Undoing',
         upsets = 0 /\ upsets' = 0 =>
           /\ \A a \in AtFirst \ forgotten' : Safe(a) => Safe(a)'
           /\ \A a : InArchive(a) => InArchive(a)'
           /\ e # None /\ e.kind = "delete" /\ e.at # "archive" =>
                InArchive(e.a)' \/ {"client", "row"} \subseteq e.unseen
  PROVE  KInv'
<1>1. \A i \in Jobs : job'[i] = IF i = j THEN e ELSE job[i]
  BY DEF IInv, TypeInv, Work, Goes
<1>5. upsets' \in Nat /\ (upsets' = 0 => upsets = 0)
  BY DEF KInv, Goes
<1>2. \A i \in Jobs : Early(job'[i])
  BY <1>1 DEF KInv, Goes
<1>3. ASSUME upsets' = 0
      PROVE  Tracked' /\ \A i \in Jobs : Examined(job[i])'
  <2>1. Tracked'
    BY <1>3, <1>5 DEF KInv, Steady, Tracked, Goes
  <2>2. ASSUME NEW i \in Jobs
        PROVE  Examined(job[i])'
    <3>1. PICK d : d = job'[i]
      OBVIOUS
    <3>2. d # None /\ d.kind = "delete" /\ d.at # "archive" =>
            InArchive(d.a)' \/ {"client", "row"} \subseteq d.unseen
      <4>1. CASE i = j
        BY <1>1, <1>3, <1>5, <3>1, <4>1
      <4>2. CASE i # j
        <5>1. d = job[i]
          BY <1>1, <3>1, <4>2
        <5> QED
          BY <1>3, <1>5, <5>1 DEF KInv, Steady, Examined
      <4> QED
        BY <4>1, <4>2
    <3> QED
      BY <3>1, <3>2 DEF Examined, InArchive, Entries
  <2> QED
    BY <2>1, <2>2
<1>4. Steady'
  BY <1>3 DEF Steady
<1> QED
  BY <1>2, <1>4, <1>5 DEF KInv

\* Nothing is taken away.
Additive ==
  /\ UNCHANGED <<snapshot, overtaken>>
  /\ \A i \in Ids : rows[i] # None => rows'[i] # None /\ rows'[i].acct = rows[i].acct
  /\ \A a \in Accounts : panel[a] # None => panel'[a] # None
  /\ \A a : InArchive(a) => InArchive(a)'

\* What is held is still held, and nothing more would be taken away.
SameNotes(j, e) ==
  /\ Notable(e) => \/ e.u = Blank
                   \/ /\ Notable(job[j]) /\ e.u \in Snapshots
                      /\ e.u.created \subseteq job[j].u.created
                      /\ e.u.made \subseteq job[j].u.made
  /\ Notable(job[j]) => \/ /\ Notable(e)
                           /\ job[j].u.deleted \subseteq e.u.deleted
                           /\ job[j].u.gone \subseteq e.u.gone
                        \/ job[j].u.deleted = {} /\ job[j].u.gone = {}

SameUndo(j, e) == e # None /\ e.kind = "undo" <=> job[j] # None /\ job[j].kind = "undo"

LEMMA AdditiveKeeps ==
  ASSUME IInv, KInv, NEW j \in Jobs, NEW e, Goes(j, e), Additive, SameNotes(j, e),
         SameUndo(j, e),
         upsets' = 0 /\ e # None /\ e.kind = "delete" /\ e.at # "archive" =>
           InArchive(e.a)' \/ {"client", "row"} \subseteq e.unseen
  PROVE  KInv'
<1>1. overtaken' \subseteq Undoing' /\ Undoing' \subseteq Undoing
  BY UndoingStep DEF Additive, SameUndo, NoNewUndo, KInv, Goes, Undoing
<1>2. ASSUME NEW a \in AtFirst \ forgotten', Safe(a)
      PROVE  Safe(a)'
  <2>1. a \in Accounts
    BY AccountAssumption DEF AtFirst
  <2>2. Lessened(a)
    <3>1. snapshot' = None \/ snapshot' \in Notes
      BY DEF Additive, Notes
    <3>2. Notable(job[j]) => job[j].u \in Notes
      BY DEF Notable, Notes, Noting
    <3>3. Notable(e) => e.u.created \subseteq Passing /\ e.u.made \subseteq Fleeting
      BY <3>2 DEF Blank, Passing, Fleeting, SameNotes
    <3> QED
      BY <3>1, <3>3, Lessens DEF Goes
  <2>3. Rests(j, e, a)
    <3>1. Notable(job[j]) /\ Holds(job[j].u, a, Passing, Fleeting) =>
            Notable(e) /\ Holds(e.u, a, Passing', Fleeting')
      <4> SUFFICES ASSUME Notable(job[j]), Holds(job[j].u, a, Passing, Fleeting)
                   PROVE  Notable(e) /\ Holds(e.u, a, Passing', Fleeting')
        OBVIOUS
      <4>1. ~(job[j].u.deleted = {} /\ job[j].u.gone = {})
        BY DEF Holds, HoldsRow, HoldsClient, Gone
      <4>2. job[j].u \in Notes
        BY DEF Notes, Notable, Noting
      <4>3. Holds(job[j].u, a, Passing', Fleeting')
        BY <2>2, <4>2, HoldsStill
      <4>4. /\ Notable(e)
            /\ job[j].u.deleted \subseteq e.u.deleted /\ job[j].u.gone \subseteq e.u.gone
        BY <4>1 DEF SameNotes
      <4>5. job[j].u # None /\ e.u # None
        BY <4>2, <4>4, NotesTyped, BlankType, NoneAssumption DEF SameNotes
      <4> QED
        BY <4>3, <4>4, <4>5, MoreHolds
    <3> QED
      BY <2>1, <3>1 DEF Rests, Additive, RowStays, Noting, Notable
  <2> QED
    BY <1>1, <1>2, <2>1, <2>2, <2>3, SureStill, SnapshotStill DEF Safe, Additive, Goes
<1> QED
  BY <1>1, <1>2, KeptStep DEF Additive
-----------------------------------------------------------------------------
(* Actions that take nothing away.                                         *)

LEMMA TypesKnown ==
  ASSUME IInv
  PROVE  /\ panel \in [Accounts -> Values \cup {None}]
         /\ rows \in [Ids -> RowSet \cup {None}] /\ fresh \subseteq Ids
         /\ job \in [Jobs -> Asked \cup {None}]
         /\ \A i \in fresh : rows[i] = None
  BY CodesInUse DEF IInv, TypeInv, Tables, Work, Live

LEMMA RequestKind ==
  ASSUME IInv, NEW j \in Jobs, NEW kind, NEW at, Is(j, kind, at)
  PROVE  /\ job[j] # None /\ job[j].kind = kind /\ job[j].at = at
         /\ kind = "sync" => job[j] \in Syncs
         /\ kind = "undo" => job[j] \in Undos
         /\ kind = "delete" => job[j] \in Deletes
         /\ kind = "restore" => job[j] \in Restores
         /\ kind = "create" => job[j] \in Creates
<1>1. job[j] # None /\ job[j].kind = kind /\ job[j].at = at
  BY DEF Is
<1>2. job[j] \in Asked
  BY <1>1 DEF IInv, TypeInv, Work
<1> QED
  BY <1>1, <1>2, Kinds

(* What is neither a synchronisation nor an undo notes nothing.            *)
LEMMA OtherGoes ==
  ASSUME IInv, KInv, NEW j \in Jobs, NEW e, job' = [job EXCEPT ![j] = e], Additive,
         forgotten \subseteq forgotten', upsets' = upsets \/ upsets' = upsets + 1,
         job[j] = None \/ ~Notable(job[j]), e = None \/ e.kind \notin {"sync", "undo"},
         upsets' = 0 /\ e # None /\ e.kind = "delete" /\ e.at # "archive" =>
           InArchive(e.a)' \/ {"client", "row"} \subseteq e.unseen
  PROVE  KInv'
<1>1. SameNotes(j, e) /\ SameUndo(j, e)
  BY DEF SameNotes, SameUndo, Notable
<1>2. Early(e) /\ Goes(j, e)
  BY DEF Early, Goes
<1> QED
  BY <1>1, <1>2, AdditiveKeeps

LEMMA BeginsKept ==
  ASSUME IInv, KInv, NEW j \in Jobs,
         \/ \E dir \in Directions : SyncBegin(j, dir)
         \/ \E a \in Accounts : DeleteBegin(j, a) \/ CreateBegin(j, a)
         \/ \E k \in Entries : RestoreBegin(j, k)
  PROVE  KInv'
<1>1. /\ job[j] = None
      /\ UNCHANGED <<panel, rows, archive, snapshot, upsets, forgotten, overtaken>>
  BY DEF SyncBegin, DeleteBegin, CreateBegin, RestoreBegin, Other, Enter
<1>2. Additive
  BY <1>1 DEF Additive, InArchive, Entries
<1>3. CASE \E dir \in Directions : SyncBegin(j, dir)
  <2>1. PICK dir \in Directions : SyncBegin(j, dir)
    BY <1>3
  <2>5. PICK opts \in Options :
          Enter(j, [kind |-> "sync", at |-> "list", dir |-> dir, opts |-> opts, todo |-> {},
                    item |-> None, L |-> NoClients, B |-> NoRows, u |-> Blank])
    BY <2>1 DEF SyncBegin
  <2> DEFINE e == [kind |-> "sync", at |-> "list", dir |-> dir, opts |-> opts, todo |-> {},
                   item |-> None, L |-> NoClients, B |-> NoRows, u |-> Blank]
  <2>2. job' = [job EXCEPT ![j] = e]
    BY <2>5 DEF Enter
  <2>3. e.kind = "sync" /\ e.at = "list" /\ e.u = Blank
    OBVIOUS
  <2> HIDE DEF e
  <2>4. Goes(j, e) /\ SameNotes(j, e) /\ SameUndo(j, e)
    BY <1>1, <2>2, <2>3 DEF Goes, Early, Blank, SameNotes, SameUndo, Notable
  <2> QED
    BY <1>2, <2>3, <2>4, AdditiveKeeps
<1>4. CASE \/ \E a \in Accounts : DeleteBegin(j, a) \/ CreateBegin(j, a)
           \/ \E k \in Entries : RestoreBegin(j, k)
  <2>1. PICK e : /\ job' = [job EXCEPT ![j] = e] /\ e.kind \in {"delete", "create", "restore"}
                 /\ e.kind = "delete" => e.at = "archive"
    <3>1. ASSUME NEW a \in Accounts, DeleteBegin(j, a)
          PROVE  \E e : /\ job' = [job EXCEPT ![j] = e] /\ e.kind = "delete"
                        /\ e.at = "archive"
      <4> DEFINE e == [kind |-> "delete", at |-> "archive", a |-> a, unseen |-> {},
                       i |-> IF Named(rows, a) = {} THEN None
                             ELSE CHOOSE i \in Named(rows, a) : TRUE]
      <4>1. job' = [job EXCEPT ![j] = e] /\ e.kind = "delete" /\ e.at = "archive"
        BY <3>1 DEF DeleteBegin, Other, Enter
      <4> HIDE DEF e
      <4> QED
        BY <4>1
    <3>2. ASSUME NEW a \in Accounts, CreateBegin(j, a)
          PROVE  \E e : job' = [job EXCEPT ![j] = e] /\ e.kind = "create"
      <4> DEFINE e == [kind |-> "create", at |-> "client", a |-> a,
                       v |-> CHOOSE v \in Values : TRUE]
      <4>1. job' = [job EXCEPT ![j] = e] /\ e.kind = "create"
        BY <3>2 DEF CreateBegin, Other, Enter
      <4> HIDE DEF e
      <4> QED
        BY <4>1
    <3>3. ASSUME NEW k \in Entries, RestoreBegin(j, k)
          PROVE  \E e : job' = [job EXCEPT ![j] = e] /\ e.kind = "restore"
      <4> DEFINE e == [kind |-> "restore", at |-> "check", k |-> k, caught |-> FALSE]
      <4>1. job' = [job EXCEPT ![j] = e] /\ e.kind = "restore"
        BY <3>3 DEF RestoreBegin, Other, Enter
      <4> HIDE DEF e
      <4> QED
        BY <4>1
    <3> QED
      BY <1>4, <3>1, <3>2, <3>3
  <2> QED
    BY <1>1, <1>2, <2>1, OtherGoes
<1> QED
  BY <1>3, <1>4

(* A synchronisation that looks, or ends at an empty list before it has    *)
(* deleted anything.                                                       *)
LEMMA LooksKept ==
  ASSUME IInv, Watch, KInv, NEW j \in Jobs,
         \/ List(j, "list", "rows") \/ List(j, "relist", "rerows")
         \/ ListRows(j, "rows", "new") \/ ListRows(j, "rerows", "del")
         \/ \E phase \in Phases : Look(j, phase)
         \/ PhaseEnds(j, "new", "relist") \/ PhaseEnds(j, "del", "fields")
         \/ PhaseEnds(j, "fields", "store")
  PROVE  KInv'
<1>1. /\ UNCHANGED <<panel, rows, archive, snapshot, forgotten, overtaken>>
      /\ upsets' = upsets \/ upsets' = upsets + 1
  BY DEF List, ListRows, Look, PhaseEnds, Upset, ghosts
<1>2. Additive
  BY <1>1 DEF Additive, InArchive, Entries
<1>3. ASSUME NEW at, Is(j, "sync", at)
      PROVE  /\ job[j] # None /\ job[j].kind = "sync" /\ job[j].at = at /\ job[j] \in Syncs
             /\ job[j].u \in Snapshots /\ Early(job[j])
  BY <1>3, RequestKind DEF KInv, Syncs
<1>4. ASSUME NEW at, NEW next, Is(j, "sync", at), NEW e,
             job' = [job EXCEPT ![j] = e], GoesOn(j, e, next),
             next \in Making => at \in Making
      PROVE  KInv'
  <2>1. e # None /\ e.kind = "sync" /\ e.at = next /\ e.u = job[j].u
    BY <1>4, NoneAssumption DEF GoesOn, Syncs, Asked
  <2>2. Goes(j, e) /\ SameNotes(j, e) /\ SameUndo(j, e)
    BY <1>1, <1>3, <1>4, <2>1 DEF Goes, Early, SameNotes, SameUndo, Notable
  <2> QED
    BY <1>2, <2>1, <2>2, AdditiveKeeps
<1>5. ASSUME NEW at \in {"list", "relist"}, NEW phase \in {"rows", "rerows"}, List(j, at, phase)
      PROVE  KInv'
  <2>1. Is(j, "sync", at)
    BY <1>5 DEF List
  <2>2. PICK e : Becomes(j, e) /\ (e = None \/ GoesOn(j, e, phase))
    BY <1>5, ListBecomes
  <2>3. CASE e = None
    <3>1. Goes(j, e) /\ SameNotes(j, e) /\ SameUndo(j, e)
      BY <1>1, <1>3, <2>1, <2>2, <2>3 DEF Goes, Early, SameNotes, SameUndo, Notable, Becomes, Making
    <3> QED
      BY <1>2, <2>3, <3>1, AdditiveKeeps
  <2>4. CASE GoesOn(j, e, phase)
    BY <1>4, <2>1, <2>2, <2>4 DEF Becomes, Making
  <2> QED
    BY <2>2, <2>3, <2>4
<1>8. ASSUME NEW at \in {"rows", "rerows"}, NEW phase \in {"new", "del"}, ListRows(j, at, phase)
      PROVE  KInv'
  <2>1. Is(j, "sync", at)
    BY <1>8 DEF ListRows
  <2>2. PICK e : Becomes(j, e) /\ GoesOn(j, e, phase)
    BY <1>8, ListRowsBecomes
  <2> QED
    BY <1>4, <2>1, <2>2 DEF Becomes, Making
<1>6. ASSUME NEW phase \in Phases, Look(j, phase)
      PROVE  KInv'
  <2>1. Is(j, "sync", phase)
    BY <1>6 DEF Look
  <2>2. PICK e : Becomes(j, e) /\ GoesOn(j, e, phase)
    BY <1>6, LookBecomes
  <2> QED
    BY <1>4, <2>1, <2>2 DEF Becomes, Making
<1>7. ASSUME NEW phase \in Phases, NEW next \in {"relist", "fields", "store"},
             PhaseEnds(j, phase, next), next = "relist" => phase = "new"
      PROVE  KInv'
  <2>1. Is(j, "sync", phase)
    BY <1>7 DEF PhaseEnds
  <2>2. PICK e : Becomes(j, e) /\ GoesOn(j, e, next)
    BY <1>7, PhaseEndBecomes
  <2> QED
    BY <1>4, <1>7, <2>1, <2>2 DEF Becomes, Making
<1> QED
  BY <1>5, <1>6, <1>7, <1>8 DEF Phases

(* Restoring and selling add rows and clients.                             *)
LEMMA RestoresKept ==
  ASSUME IInv, KInv, NEW j \in Jobs,
         \/ RestoreCheck(j) \/ RestoreClient(j) \/ RestoreRow(j) \/ RestoreMark(j)
         \/ CreateClient(j) \/ CreateRow(j)
  PROVE  KInv'
<1>1. /\ job[j] # None /\ job[j].kind \in {"restore", "create"}
      /\ job[j] \in Restores \/ job[j] \in Creates
  BY RequestKind DEF RestoreCheck, RestoreClient, RestoreRow, RestoreMark, CreateClient, CreateRow
<1>2. PICK e : job' = [job EXCEPT ![j] = e] /\ (e = None \/ e.kind \in {"restore", "create"})
  <2> DEFINE moved(at) == [job[j] EXCEPT !.at = at]
  <2>1. \A at : Move(j, at) => job' = [job EXCEPT ![j] = moved(at)]
    BY <1>1 DEF Move, Restores, Creates
  <2>2. Caught(j) => \/ job' = [job EXCEPT ![j] = None]
                     \/ job' = [job EXCEPT ![j] = [job[j] EXCEPT !.at = "row", !.caught = TRUE]]
    BY DEF Caught, End, Set
  <2>3. \A at : moved(at).kind \in {"restore", "create"}
    BY <1>1 DEF Restores, Creates
  <2>4. [job[j] EXCEPT !.at = "row", !.caught = TRUE].kind \in {"restore", "create"}
    BY <1>1 DEF Restores, Creates
  <2>5. End(j) => job' = [job EXCEPT ![j] = None]
    BY DEF End
  <2>6. End(j) \/ Caught(j) \/ \E at : Move(j, at)
    BY DEF RestoreCheck, RestoreClient, RestoreRow, RestoreMark, CreateClient, CreateRow
  <2> HIDE DEF moved
  <2> QED
    BY <2>1, <2>2, <2>3, <2>4, <2>5, <2>6
<1>3. /\ UNCHANGED <<snapshot, forgotten, overtaken>>
      /\ upsets' = upsets \/ upsets' = upsets + 1
  BY DEF RestoreCheck, RestoreClient, RestoreRow, RestoreMark, CreateClient, CreateRow,
     Upset, ghosts
<1>4. \A a : InArchive(a) => InArchive(a)'
  <2>1. CASE archive' = archive
    BY <2>1 DEF InArchive, Entries
  <2>2. CASE RestoreMark(j) /\ archive' = [archive EXCEPT ![job[j].k].done = TRUE]
    <3>1. archive \in Seq(Archives)
      BY DEF IInv, TypeInv, Archived
    <3>2. \A k \in Entries : k \in Entries' /\ archive'[k].acct = archive[k].acct
      BY <2>2, <3>1 DEF Entries, Archives
    <3> QED
      BY <3>2 DEF InArchive
  <2> QED
    BY <2>1, <2>2 DEF RestoreCheck, RestoreClient, RestoreRow, RestoreMark, CreateClient, CreateRow
<1>5. \A a \in Accounts : panel[a] # None => panel'[a] # None
  BY TypesKnown DEF RestoreCheck, RestoreClient, RestoreRow, RestoreMark, CreateClient, CreateRow
<1>6. \A i \in Ids : rows[i] # None => rows'[i] # None /\ rows'[i].acct = rows[i].acct
  <2>1. CASE rows' = rows
    BY <2>1
  <2>2. CASE \E i \in fresh : \E r : Insert(i, r)
    BY <2>2, TypesKnown DEF Insert
  <2> QED
    BY <2>1, <2>2 DEF RestoreCheck, RestoreClient, RestoreRow, RestoreMark, CreateClient, CreateRow,
       NextId
<1>7. Additive
  BY <1>3, <1>4, <1>5, <1>6 DEF Additive
<1>8. ~Notable(job[j]) /\ (e = None \/ e.kind \notin {"sync", "undo", "delete"})
  BY <1>1, <1>2 DEF Notable
<1> QED
  BY <1>2, <1>3, <1>7, <1>8, OtherGoes
-----------------------------------------------------------------------------
(* What a synchronisation makes and deletes.                               *)

LEMMA SureByNote ==
  ASSUME IInv, NEW j \in Jobs, NEW e, job' = [job EXCEPT ![j] = e], Notable(e),
         NEW a, Holds(e.u, a, Passing', Fleeting')
  PROVE  Sure(a)'
<1>1. job'[j] = e
  BY DEF IInv, TypeInv, Work
<1> QED
  BY <1>1 DEF Sure, Noting, Notable

LEMMA NotesRest ==
  ASSUME IInv, NEW j \in Jobs, NEW e, NEW a, Lessened(a),
         Notable(job[j]), Notable(e), e.u \in Snapshots,
         job[j].u.deleted \subseteq e.u.deleted, job[j].u.gone \subseteq e.u.gone,
         Holds(job[j].u, a, Passing, Fleeting)
  PROVE  Holds(e.u, a, Passing', Fleeting')
<1>1. job[j].u \in Notes
  BY DEF Notes, Notable, Noting
<1>2. Holds(job[j].u, a, Passing', Fleeting')
  BY <1>1, HoldsStill
<1>3. job[j].u # None /\ e.u # None
  BY <1>1, NotesTyped, NoneAssumption
<1> QED
  BY <1>2, <1>3, MoreHolds

(* An account is dealt with, and the notes grow.                           *)
LEMMA NotingKeeps ==
  ASSUME IInv, KInv, NEW j \in Jobs, NEW e, Goes(j, e), e \in Syncs, job[j] \in Syncs,
         job[j] # None, UNCHANGED <<snapshot, overtaken, archive>>,
         \A a \in AtFirst \ forgotten' : Lessened(a) /\ Rests(j, e, a)
  PROVE  KInv'
<1>1. e # None /\ e.kind = "sync" /\ job[j].kind = "sync"
  BY NoneAssumption DEF Syncs, Asked
<1>2. overtaken' \subseteq Undoing' /\ Undoing' \subseteq Undoing
  BY <1>1, UndoingStep DEF NoNewUndo, KInv, Goes, Undoing
<1>3. ASSUME NEW a \in AtFirst \ forgotten', Safe(a)
      PROVE  Safe(a)'
  <2>1. a \in Accounts
    BY AccountAssumption DEF AtFirst
  <2> QED
    BY <1>2, <1>3, <2>1, SureStill, SnapshotStill DEF Safe, Goes
<1>4. \A a : InArchive(a) => InArchive(a)'
  BY DEF InArchive, Entries
<1> QED
  BY <1>1, <1>2, <1>3, <1>4, KeptStep

LEMMA MakesKept ==
  ASSUME IInv, Watch, KInv, NEW j \in Jobs, NEW phase \in Phases, Make(j, phase)
  PROVE  KInv'
<1> DEFINE b == job[j].item[1]
           v == job[j].item[2]
           i == Sub(j, b)
           u == job[j].u
<1>1. Is(j, "sync", phase) /\ job[j].item # None
  BY DEF Make
<1>2. /\ job[j] \in Syncs /\ u \in Snapshots /\ job[j].at = phase /\ job[j] # None
      /\ job[j].kind = "sync"
      /\ b \in Todo(phase, job[j].dir, job[j].L, job[j].B)
      /\ b \in Accounts /\ v \in Values
  BY <1>1, InPhase DEF Syncs, Is
<1>3. /\ panel \in [Accounts -> Values \cup {None}] /\ rows \in [Ids -> RowSet \cup {None}]
      /\ fresh \subseteq Ids /\ \A n \in fresh : rows[n] = None
  BY TypesKnown
<1>4. /\ UNCHANGED <<archive, snapshot, overtaken, upsets>>
      /\ forgotten' = forgotten \cup ((Clients(panel') \ Clients(panel)) \cap ToPutBack)
  BY DEF Make
<1>5. FromList(j, Noted(j, phase, b, v))
  BY <1>1, <1>2, NotedFromList
<1>6. Notable(job[j]) /\ u \in Notes /\ u.created \subseteq Passing /\ u.made \subseteq Fleeting
  BY <1>2 DEF Notable, Noting, Notes, Passing, Fleeting
<1> HIDE DEF b, v, i, u
\* The request with the notes w.
<1> DEFINE goes(w) == [job[j] EXCEPT !.item = None, !.u = w]
<1>7. ASSUME NEW w \in Snapshots, Done(j, w), u.deleted \subseteq w.deleted, u.gone \subseteq w.gone,
             phase = "new" => w.deleted = u.deleted /\ w.gone = u.gone
      PROVE  /\ Goes(j, goes(w)) /\ goes(w) \in Syncs /\ goes(w).u = w /\ Notable(goes(w))
             /\ \A a : Lessened(a) /\ Noting(j) /\ Holds(job[j].u, a, Passing, Fleeting) =>
                  Holds(goes(w).u, a, Passing', Fleeting')
  <2>1. /\ goes(w) \in Syncs /\ goes(w).u = w /\ goes(w).at = phase
        /\ goes(w).kind = "sync"
    BY <1>2, <1>7 DEF Syncs
  <2>2. job' = [job EXCEPT ![j] = goes(w)]
    BY <1>7 DEF Done, Set
  <2> HIDE DEF goes
  <2>5. goes(w) # None
    BY <2>1, NoneAssumption DEF Asked
  <2>3. Early(goes(w))
    BY <1>2, <1>7, <2>1 DEF KInv, Early, Making, Phases, u
  <2>4. Goes(j, goes(w)) /\ Notable(goes(w))
    BY <1>4, <2>1, <2>2, <2>3, <2>5 DEF Goes, Notable
  <2> QED
    BY <1>6, <1>7, <2>1, <2>4, NotesRest DEF u
<1>8. snapshot' = None \/ snapshot' \in Notes
  BY <1>4 DEF Notes
<1>9. ASSUME NEW w \in Snapshots, Done(j, w), Goes(j, goes(w)), goes(w).u = w,
             w.created \subseteq u.created \cup fresh, NEW a,
             a \in w.made => a \in u.made \/ (panel[a] = None /\ a \notin ToPutBack)
      PROVE  Lessened(a)
  BY <1>6, <1>8, <1>9, Lessens DEF Goes
<1>10. \A a : InArchive(a) => InArchive(a)'
  BY <1>4 DEF InArchive, Entries
<1>11. CASE job[j].dir = "panel_to_bot" /\ phase = "new"
  <2>1. ImportClient(j, b, v)
    BY <1>11 DEF Make, b, v
  <2> DEFINE n == NextId
             w == [u EXCEPT !.created = @ \cup {n}]
  <2>2. n \in fresh /\ panel' = panel /\ Done(j, w)
    BY <2>1 DEF ImportClient, NextId, u
  <2>3. \A k \in Ids : rows[k] # None => rows'[k] = rows[k]
    BY <1>3, <2>1, <2>2 DEF ImportClient, Insert
  <2>4. /\ w \in Snapshots /\ w.deleted = u.deleted /\ w.gone = u.gone
        /\ w.created = u.created \cup {n} /\ w.made = u.made
    BY <1>2, <1>3, <2>2 DEF Snapshots
  <2> HIDE DEF n, w
  <2> DEFINE e == goes(w)
  <2>5. /\ Goes(j, e) /\ e \in Syncs /\ e.u = w /\ Notable(e)
        /\ \A a : Lessened(a) /\ Noting(j) /\ Holds(job[j].u, a, Passing, Fleeting) =>
             Holds(e.u, a, Passing', Fleeting')
    BY <1>7, <2>2, <2>4
  <2>6. \A a : Lessened(a)
    BY <1>9, <2>2, <2>4, <2>5
  <2> HIDE DEF e
  <2>7. \A a \in Accounts : Rests(j, e, a)
    BY <1>10, <2>2, <2>3, <2>5, <2>6 DEF Rests, RowStays
  <2> QED
    BY <1>2, <1>4, <2>5, <2>6, <2>7, NotingKeeps, AccountAssumption DEF AtFirst
<1>12. CASE job[j].dir # "panel_to_bot" /\ phase = "new"
  <2>1. AddClient(j, b, v)
    BY <1>12 DEF Make, b, v
  <2> DEFINE w == IF panel[b] = None THEN [u EXCEPT !.made = @ \cup {b}] ELSE u
  <2>2. rows' = rows /\ Done(j, w)
    BY <2>1 DEF AddClient, u
  <2>3. /\ \A a \in Accounts : panel[a] # None => panel'[a] # None
        /\ panel[b] = None => b \in Clients(panel') \ Clients(panel)
    BY <1>2, <1>3, <2>1, NoneAssumption DEF AddClient, Clients
  <2>4. /\ w \in Snapshots /\ w.deleted = u.deleted /\ w.gone = u.gone
        /\ w.created = u.created
        /\ \A a \in w.made : a \in u.made \/ (a = b /\ panel[b] = None)
    BY <1>2 DEF Snapshots
  <2> HIDE DEF w
  <2> DEFINE e == goes(w)
  <2>5. /\ Goes(j, e) /\ e \in Syncs /\ e.u = w /\ Notable(e)
        /\ \A a : Lessened(a) /\ Noting(j) /\ Holds(job[j].u, a, Passing, Fleeting) =>
             Holds(e.u, a, Passing', Fleeting')
    BY <1>7, <2>2, <2>4
  <2>6. \A a \in AtFirst \ forgotten' : Lessened(a)
    <3>1. \A a \in AtFirst \ forgotten' :
            a \in w.made => a \in u.made \/ (panel[a] = None /\ a \notin ToPutBack)
      BY <1>4, <2>3, <2>4
    <3> QED
      BY <1>9, <2>2, <2>4, <2>5, <3>1
  <2> HIDE DEF e
  <2>7. \A a \in AtFirst \ forgotten' : Rests(j, e, a)
    BY <1>10, <2>2, <2>3, <2>5, <2>6, AccountAssumption DEF Rests, RowStays, AtFirst
  <2> QED
    BY <1>2, <1>4, <2>5, <2>6, <2>7, NotingKeeps
<1> DEFINE w == Noted(j, phase, b, v)
           e == goes(w)
<1>13. ASSUME phase \in {"del", "fields"}, Done(j, w)
       PROVE  /\ Goes(j, e) /\ e \in Syncs /\ e.u = w /\ Notable(e)
              /\ \A a : Lessened(a)
              /\ \A a : Noting(j) /\ Holds(job[j].u, a, Passing, Fleeting) =>
                   Holds(e.u, a, Passing', Fleeting')
  <2>1. w \in Snapshots
    BY <1>5 DEF FromList
  <2>2. /\ u.deleted \subseteq w.deleted /\ u.gone \subseteq w.gone
        /\ w.created = u.created /\ w.made = u.made
    BY <1>2, <1>13 DEF Noted, Snapshots, u
  <2> HIDE DEF w
  <2>3. /\ Goes(j, e) /\ e \in Syncs /\ e.u = w /\ Notable(e)
        /\ \A a : Lessened(a) /\ Noting(j) /\ Holds(job[j].u, a, Passing, Fleeting) =>
             Holds(e.u, a, Passing', Fleeting')
    BY <1>7, <1>13, <2>1, <2>2
  <2>4. \A a : Lessened(a)
    BY <1>9, <1>13, <2>1, <2>2, <2>3
  <2> HIDE DEF e
  <2> QED
    BY <2>3, <2>4
<1>14. ASSUME phase \in {"del", "fields"}, Done(j, w),
              \A a \in AtFirst \ forgotten' : Rests(j, e, a)
       PROVE  KInv'
  <2> HIDE DEF e, w
  <2> QED
    BY <1>2, <1>4, <1>13, <1>14, NotingKeeps
<1>15. CASE job[j].dir = "panel_to_bot" /\ phase = "del"
  <2>1. DropRow(j, b, v)
    BY <1>15 DEF Make, b, v
  <2>2. /\ Done(j, w) /\ panel' = panel /\ rows' = [rows EXCEPT ![i] = None]
    BY <1>15, <2>1 DEF DropRow, i
  <2>3. i \in Ids /\ job[j].B[i] \in RowSet /\ job[j].B[i].acct = b
    BY <1>2, <1>15, OnList DEF i
  <2>4. <<i, job[j].B[i]>> \in w.deleted
    BY <1>2, <1>15 DEF Noted, Snapshots, u, i
  <2>5. /\ Goes(j, e) /\ e.u = w /\ Notable(e) /\ \A a : Lessened(a)
        /\ \A a : Noting(j) /\ Holds(job[j].u, a, Passing, Fleeting) =>
             Holds(e.u, a, Passing', Fleeting')
    BY <1>13, <1>15, <2>2
  <2> HIDE DEF e, w
  <2>6. ASSUME NEW a, RowStays(i, a)
        PROVE  Sure(a)'
    <3>1. Recalls(i, job[j].B[i])
      BY <1>2 DEF Recalls, RecalledBy
    <3>2. rows[i] \in RowSet /\ Recalls(i, rows[i])
      BY <1>3, <2>3, <2>6 DEF RowStays, Recalls
    <3>3. a = b /\ i \notin fresh
      BY <2>3, <2>6, <3>1, <3>2 DEF RowStays, IInv, CodeInv, Identity, Given, Alike
    <3>4. i \notin Passing'
      BY <2>5, <2>6, <3>3 DEF RowStays, Lessened
    <3>5. Holds(e.u, a, Passing', Fleeting')
      BY <2>3, <2>4, <2>5, <3>3, <3>4 DEF Holds, HoldsRow
    <3> QED
      BY <2>5, <3>5, SureByNote DEF Goes
  <2>7. \A a \in AtFirst \ forgotten' : Rests(j, e, a)
    BY <1>3, <1>10, <2>2, <2>5, <2>6 DEF Rests, RowStays
  <2> QED
    BY <1>14, <1>15, <2>2, <2>7
<1>16. CASE job[j].dir # "panel_to_bot" /\ phase = "del"
  <2>1. DropClient(j, b, v)
    BY <1>16 DEF Make, b, v
  <2>2. Done(j, w) /\ rows' = rows /\ panel' = [panel EXCEPT ![b] = None]
    BY <1>16, <2>1 DEF DropClient
  <2>3. <<b, v>> \in w.gone /\ w \in Snapshots
    BY <1>2, <1>5, <1>16 DEF Noted, Snapshots, u, FromList
  <2>4. /\ Goes(j, e) /\ e.u = w /\ Notable(e) /\ \A a : Lessened(a)
        /\ \A a : Noting(j) /\ Holds(job[j].u, a, Passing, Fleeting) =>
             Holds(e.u, a, Passing', Fleeting')
    BY <1>13, <1>16, <2>2
  <2> HIDE DEF e, w
  <2>5. ASSUME NEW a, a = b, panel[a] # None, a \notin Fleeting
        PROVE  Sure(a)'
    <3>1. a \notin Fleeting'
      BY <2>4, <2>5 DEF Lessened
    <3>2. a \in Gone(w)
      BY <2>3, <2>5, NoneAssumption DEF Gone
    <3>3. Holds(e.u, a, Passing', Fleeting')
      BY <2>4, <3>1, <3>2 DEF Holds, HoldsClient
    <3> QED
      BY <2>4, <3>3, SureByNote DEF Goes
  <2>6. \A a \in Accounts : a # b => panel'[a] = panel[a]
    BY <1>3, <2>2
  <2>7. \A a \in AtFirst \ forgotten' : Rests(j, e, a)
    BY <1>3, <1>10, <2>2, <2>4, <2>5, <2>6, AccountAssumption DEF Rests, RowStays, AtFirst
  <2> QED
    BY <1>14, <1>16, <2>2, <2>7
<1>17. CASE phase = "fields"
  <2>1. FieldsToBot(j, b, v) \/ FieldsToPanel(j, b, v)
    BY <1>17 DEF Make, b, v
  <2>2. Done(j, w)
    BY <1>17, <2>1 DEF FieldsToBot, FieldsToPanel
  <2>3. i \in Ids /\ job[j].B[i] \in RowSet
    BY <1>2, <1>17, OnList DEF i
  <2>4. \A k \in Ids : rows[k] # None => rows'[k] # None /\ rows'[k].acct = rows[k].acct
    <3>1. CASE FieldsToBot(j, b, v)
      <4>1. rows' = [rows EXCEPT ![i] = IF @ = None THEN @ ELSE [@ EXCEPT !.val = v]]
        BY <3>1 DEF FieldsToBot, i
      <4>2. \A r \in RowSet : /\ [r EXCEPT !.val = v] \in RowSet
                              /\ [r EXCEPT !.val = v].acct = r.acct
        BY <1>2 DEF RowSet
      <4> QED
        BY <1>3, <2>3, <4>1, <4>2, NoneAssumption
    <3>2. CASE FieldsToPanel(j, b, v)
      BY <3>2 DEF FieldsToPanel
    <3> QED
      BY <2>1, <3>1, <3>2
  <2>5. \A a \in Accounts : panel[a] # None => panel'[a] # None
    <3>1. CASE FieldsToBot(j, b, v)
      BY <3>1 DEF FieldsToBot
    <3>2. CASE FieldsToPanel(j, b, v)
      <4>1. panel' = [panel EXCEPT ![b] = IF @ = None THEN @ ELSE job[j].B[i].val]
        BY <3>2 DEF FieldsToPanel, i
      <4>2. job[j].B[i].val # None
        BY <2>3, NoneAssumption DEF RowSet
      <4> QED
        BY <1>3, <4>1, <4>2
    <3> QED
      BY <2>1, <3>1, <3>2
  <2>6. /\ Goes(j, e) /\ e.u = w /\ Notable(e)
        /\ \A a : Noting(j) /\ Holds(job[j].u, a, Passing, Fleeting) =>
             Holds(e.u, a, Passing', Fleeting')
    BY <1>13, <1>17, <2>2
  <2> HIDE DEF e, w
  <2>7. \A a \in AtFirst \ forgotten' : Rests(j, e, a)
    BY <1>10, <2>4, <2>5, <2>6, AccountAssumption DEF Rests, RowStays, AtFirst
  <2> QED
    BY <1>14, <1>17, <2>2, <2>7
<1> QED
  BY <1>11, <1>12, <1>15, <1>16, <1>17 DEF Phases

(* After a failed call only the requests' shape matters.                   *)
LEMMA UpsetKeeps ==
  ASSUME IInv, KInv, NEW j \in Jobs, NEW e, Goes(j, e), Upset,
         UNCHANGED overtaken, SameUndo(j, e)
  PROVE  KInv'
<1>1. upsets \in Nat /\ upsets' # 0
  BY DEF KInv, Upset
<1>2. overtaken' \subseteq Undoing'
  BY UndoingStep DEF SameUndo, KInv, Goes, Undoing
<1> QED
  BY <1>1, <1>2, KeptStep

LEMMA SkipsKept ==
  ASSUME IInv, KInv, NEW j \in Jobs, NEW phase \in Phases, Skip(j, phase)
  PROVE  KInv'
<1> DEFINE w == Noted(j, phase, job[j].item[1], job[j].item[2])
           e == [job[j] EXCEPT !.item = None, !.u = w]
<1>1. /\ job[j] # None /\ job[j].kind = "sync" /\ job[j].at = phase /\ job[j] \in Syncs
  BY RequestKind DEF Skip
<1>2. /\ job' = [job EXCEPT ![j] = e] /\ Upset /\ UNCHANGED <<forgotten, overtaken>>
  BY DEF Skip, Done, Set, ghosts
<1>3. phase = "new" => w = job[j].u
  BY DEF Noted
<1> HIDE DEF w
<1>4. e.kind = "sync" /\ e.at = phase /\ e.u = w
  BY <1>1 DEF Syncs
<1> HIDE DEF e
<1>5. Early(e)
  BY <1>1, <1>3, <1>4 DEF KInv, Early, Making, Phases
<1>6. Goes(j, e) /\ SameUndo(j, e)
  BY <1>1, <1>2, <1>4, <1>5 DEF Goes, Upset, SameUndo
<1> QED
  BY <1>2, <1>6, UpsetKeeps

LEMMA AddLostKept ==
  ASSUME IInv, KInv, NEW j \in Jobs, AddLost(j)
  PROVE  KInv'
<1> DEFINE w == job[j].u
           e == [job[j] EXCEPT !.item = None, !.u = w]
<1>1. /\ job[j] # None /\ job[j].kind = "sync" /\ job[j].at = "new" /\ job[j] \in Syncs
  BY RequestKind DEF AddLost
<1>2. /\ job' = [job EXCEPT ![j] = e] /\ Upset /\ UNCHANGED overtaken
      /\ forgotten \subseteq forgotten'
  BY DEF AddLost, Done, Set
<1>3. e.kind = "sync" /\ e.at = "new" /\ e.u = job[j].u
  BY <1>1 DEF Syncs
<1> HIDE DEF e
<1>4. Early(e)
  BY <1>1, <1>3 DEF KInv, Early, Making
<1>5. Goes(j, e) /\ SameUndo(j, e)
  BY <1>1, <1>2, <1>3, <1>4 DEF Goes, Upset, SameUndo
<1> QED
  BY <1>2, <1>5, UpsetKeeps

(* The notes of a synchronisation become the snapshot, in place of another *)
(* one.                                                                    *)
LEMMA StoreKept ==
  ASSUME IInv, KInv, NEW j \in Jobs, Store(j)
  PROVE  KInv'
<1>1. /\ job[j] # None /\ job[j].kind = "sync" /\ job[j] \in Syncs
  BY RequestKind DEF Store
<1>2. /\ job' = [job EXCEPT ![j] = None]
      /\ UNCHANGED <<panel, rows, archive, fresh, upsets>>
  BY DEF Store, End
<1>3. Early(None)
  BY DEF Early
<1>4. \A a : InArchive(a) => InArchive(a)'
  BY <1>2 DEF InArchive, Entries
<1>5. CASE job[j].u = Blank
  <2>1. UNCHANGED <<snapshot, forgotten, overtaken>>
    BY <1>5 DEF Store
  <2>2. Goes(j, None) /\ Additive /\ SameNotes(j, None) /\ SameUndo(j, None)
    BY <1>1, <1>2, <1>3, <1>4, <1>5, <2>1
    DEF Goes, Additive, SameNotes, SameUndo, Notable, Blank
  <2> QED
    BY <2>2, AdditiveKeeps
<1>6. CASE job[j].u # Blank
  <2>1. /\ snapshot' = job[j].u /\ forgotten' = forgotten \cup Held(snapshot)
        /\ overtaken' = Undoing
    BY <1>6 DEF Store, Undoing
  <2>2. Noting(j) /\ job[j].u \in Notes
    BY <1>1 DEF Noting, Notes
  <2>3. snapshot' # None /\ snapshot' \in Notes
    BY <2>1, <2>2, NotesTyped, NoneAssumption
  <2>4. Goes(j, None)
    BY <1>2, <1>3, <2>1 DEF Goes
  <2>5. Undoing' = Undoing
    <3>1. \A i \in Jobs : job'[i] = IF i = j THEN None ELSE job[i]
      BY <1>2 DEF IInv, TypeInv, Work
    <3> QED
      BY <1>1, <3>1 DEF Undoing
  <2>6. ASSUME NEW a \in AtFirst \ forgotten', Safe(a)
        PROVE  Safe(a)'
    <3>1. a \in Accounts
      BY AccountAssumption DEF AtFirst
    <3>2. Lessened(a)
      BY <1>2, <2>3, Lessens DEF Notable
    <3>3. ~BySnapshot(a)
      BY <2>1, <2>6 DEF BySnapshot, Holds, HoldsRow, HoldsClient, Held
    <3>4. Sure(a)
      BY <2>6, <3>3 DEF Safe
    <3>5. CASE Holds(job[j].u, a, Passing, Fleeting)
      <4>1. Holds(snapshot', a, Passing', Fleeting')
        BY <2>1, <2>2, <3>2, <3>5, HoldsStill
      <4> QED
        BY <2>1, <2>3, <2>5, <4>1 DEF Safe, BySnapshot
    <3>6. CASE ~Holds(job[j].u, a, Passing, Fleeting)
      <4>1. Rests(j, None, a)
        BY <1>2, <1>4, <3>6 DEF Rests, RowStays
      <4> QED
        BY <1>2, <3>1, <3>2, <3>4, <4>1, SureStill DEF Safe
    <3> QED
      BY <3>5, <3>6
  <2> QED
    BY <1>4, <2>1, <2>4, <2>5, <2>6, KeptStep
<1> QED
  BY <1>5, <1>6

(* The undo takes over what the snapshot holds.                            *)
LEMMA UndoBeginKept ==
  ASSUME IInv, KInv, NEW j \in Jobs, UndoBegin(j)
  PROVE  KInv'
<1> DEFINE e == [kind |-> "undo", at |-> "work", u |-> snapshot]
<1>1. /\ job[j] = None /\ snapshot # None /\ job' = [job EXCEPT ![j] = e]
      /\ UNCHANGED <<panel, rows, archive, snapshot, fresh, upsets, forgotten, overtaken>>
  BY DEF UndoBegin, Enter
<1>2. e.kind = "undo" /\ e.u = snapshot
  OBVIOUS
<1> HIDE DEF e
<1>3. e # None
  <2>1. e \in Undos
    BY <1>1 DEF e, Undos, IInv, TypeInv, Tables
  <2> QED
    BY <2>1, NoneAssumption DEF Asked
<1>4. Goes(j, e) /\ Notable(e)
  BY <1>1, <1>2, <1>3 DEF Goes, Early, Notable
<1>5. overtaken' \subseteq Undoing'
  <2>1. j \notin Undoing
    BY <1>1 DEF Undoing
  <2> QED
    BY <1>1, <2>1, UndoingStep DEF KInv
<1>6. \A a : InArchive(a) => InArchive(a)'
  BY <1>1 DEF InArchive, Entries
<1>7. snapshot' \in Notes /\ e.u \in Notes
  BY <1>1, <1>2 DEF Notes
<1>8. ASSUME NEW a \in AtFirst \ forgotten', Safe(a)
      PROVE  Safe(a)'
  <2>1. a \in Accounts
    BY AccountAssumption DEF AtFirst
  <2>2. Lessened(a)
    BY <1>1, <1>7, Lessens DEF Passing, Fleeting
  <2>3. CASE Sure(a)
    <3>1. Rests(j, e, a)
      BY <1>1, <1>6 DEF Rests, RowStays, Noting
    <3> QED
      BY <1>1, <2>1, <2>2, <2>3, <3>1, SureStill DEF Safe
  <2>4. CASE BySnapshot(a)
    <3>1. Holds(e.u, a, Passing', Fleeting')
      BY <1>1, <1>2, <1>7, <2>2, <2>4, HoldsStill DEF BySnapshot
    <3> QED
      BY <1>1, <1>4, <3>1, SureByNote DEF Safe
  <2> QED
    BY <1>8, <2>3, <2>4 DEF Safe
<1> QED
  BY <1>2, <1>3, <1>4, <1>5, <1>6, <1>8, KeptStep

-----------------------------------------------------------------------------
(* What an undo takes away was noted as passing or fleeting; what it puts  *)
(* back stays, is there, or has its code in a row of an archived account.  *)
LEMMA UndoOneKept ==
  ASSUME IInv, KInv, NEW j \in Jobs, NEW n \in 1 .. 6, UndoOne(j, n)
  PROVE  KInv'
<1> DEFINE u == job[j].u
           p == Parts[n]
<1>1. job[j] # None /\ job[j].kind = "undo" /\ job[j] \in Undos /\ u \in Snapshots
  BY RequestKind DEF UndoOne, Undos
<1>2. p \in {"created", "made", "deleted", "gone", "bot", "pan"}
  BY DEF Parts
<1>3. PICK x \in First(u[p]) :
        /\ job' = [job EXCEPT ![j] = [job[j] EXCEPT !.u[p] = @ \ {x}]]
        /\ \/ Undone(j, n, x) /\ UNCHANGED upsets
           \/ Upset
  BY DEF UndoOne, Set
<1>4. x \in u[p]
  BY DEF First
<1>5. UNCHANGED <<archive, snapshot, fresh, forgotten, overtaken>>
  BY DEF UndoOne
<1> DEFINE s == [u EXCEPT ![p] = @ \ {x}]
           e == [job[j] EXCEPT !.u = s]
<1>6. /\ s \in Snapshots /\ s.created \subseteq u.created /\ s.made \subseteq u.made
      /\ u.deleted \ s.deleted \subseteq (IF p = "deleted" THEN {x} ELSE {})
      /\ u.gone \ s.gone \subseteq (IF p = "gone" THEN {x} ELSE {})
  BY <1>1, <1>2 DEF Snapshots
<1>7. job' = [job EXCEPT ![j] = e]
  BY <1>1, <1>3 DEF Undos
<1> HIDE DEF s
<1>8. e \in Undos /\ e.kind = "undo" /\ e.u = s
  BY <1>1, <1>6 DEF Undos
<1> HIDE DEF e
<1>9. e # None
  BY <1>8, NoneAssumption DEF Asked
<1>10. Goes(j, e) /\ SameUndo(j, e) /\ Notable(e)
  BY <1>1, <1>3, <1>5, <1>7, <1>8, <1>9 DEF Goes, Early, SameUndo, Notable, Upset
<1>11. CASE Upset
  BY <1>5, <1>10, <1>11, UpsetKeeps
<1>12. CASE Undone(j, n, x)
  <2>1. /\ panel \in [Accounts -> Values \cup {None}] /\ rows \in [Ids -> RowSet \cup {None}]
    BY TypesKnown
  <2>2. /\ Notable(job[j]) /\ Noting(j) /\ u \in Notes
        /\ u.created \subseteq Passing /\ u.made \subseteq Fleeting
    BY <1>1 DEF Notable, Noting, Notes, Passing, Fleeting
  <2>3. snapshot' = None \/ snapshot' \in Notes
    BY <1>5 DEF Notes
  <2>4. \A a : Lessened(a)
    BY <1>6, <1>7, <1>8, <2>2, <2>3, Lessens
  <2>5. \A a : InArchive(a) => InArchive(a)'
    BY <1>5 DEF InArchive, Entries
  <2>6. ASSUME NEW a \in Accounts, NEW i \in Ids, RowStays(i, a)
        PROVE  rows'[i] # None /\ rows'[i].acct = a
    <3>1. CASE p = "created"
      <4>1. rows' = [rows EXCEPT ![x] = None] /\ x \in Passing
        BY <1>4, <1>12, <2>2, <3>1 DEF Undone
      <4> QED
        BY <2>1, <2>6, <4>1 DEF RowStays
    <3>2. CASE p = "deleted"
      <4>1. rows' = rows \/ (rows[x[1]] = None /\ rows' = [rows EXCEPT ![x[1]] = x[2]])
        BY <1>12, <3>2 DEF Undone, CanInsert, Insert
      <4> QED
        BY <2>1, <2>6, <4>1 DEF RowStays
    <3>3. CASE p = "bot"
      <4>1. x[1] \in Ids /\ x[2] \in Values
        BY <1>1, <1>4, <3>3 DEF Snapshots
      <4>2. rows' = [rows EXCEPT ![x[1]] = IF @ = None THEN @ ELSE [@ EXCEPT !.val = x[2]]]
        BY <1>12, <3>3 DEF Undone
      <4>3. \A r \in RowSet : /\ [r EXCEPT !.val = x[2]] \in RowSet
                              /\ [r EXCEPT !.val = x[2]].acct = r.acct
        BY <4>1 DEF RowSet
      <4> QED
        BY <2>1, <2>6, <4>1, <4>2, <4>3, NoneAssumption DEF RowStays
    <3>4. CASE p \in {"made", "gone", "pan"}
      BY <1>12, <2>6, <3>4 DEF Undone, RowStays
    <3> QED
      BY <1>2, <3>1, <3>2, <3>3, <3>4
  <2>7. ASSUME NEW a \in Accounts, panel[a] # None, a \notin Fleeting
        PROVE  panel'[a] # None
    <3>1. CASE p = "made"
      <4>1. panel' = [panel EXCEPT ![x] = None] /\ x \in Fleeting
        BY <1>4, <1>12, <2>2, <3>1 DEF Undone
      <4> QED
        BY <2>1, <2>7, <4>1
    <3>2. CASE p = "gone"
      <4>1. panel' = [panel EXCEPT ![x[1]] = IF @ = None THEN x[2] ELSE @]
        BY <1>12, <3>2 DEF Undone
      <4> QED
        BY <2>1, <2>7, <4>1
    <3>3. CASE p = "pan"
      <4>1. panel' = [panel EXCEPT ![x[1]] = IF @ = None THEN @ ELSE x[2]]
        BY <1>12, <3>3 DEF Undone
      <4>2. x[2] # None
        BY <1>1, <1>4, <3>3, NoneAssumption DEF Snapshots
      <4> QED
        BY <2>1, <2>7, <4>1, <4>2
    <3>4. CASE p \in {"created", "deleted", "bot"}
      BY <1>12, <2>7, <3>4 DEF Undone
    <3> QED
      BY <1>2, <3>1, <3>2, <3>3, <3>4
  <2>8. ASSUME NEW a \in Accounts, HoldsRow(u, a, Passing)
        PROVE  Sure(a)' \/ Holds(e.u, a, Passing', Fleeting')
    <3>1. PICK d \in u.deleted : d[2].acct = a /\ d[1] \notin Passing
      BY <2>8 DEF HoldsRow
    <3>2. d[1] \in Ids /\ d[2] \in RowSet /\ d = <<d[1], d[2]>>
      BY <1>1, <3>1 DEF Snapshots
    <3>3. Recalls(d[1], d[2])
      BY <1>1, <3>1, <3>2 DEF Recalls, RecalledBy
    <3>4. d[1] \notin Passing'
      BY <2>4, <3>1, <3>2, <3>3 DEF Lessened, IInv, CodeInv, Given
    <3>5. CASE d \in s.deleted
      BY <1>8, <3>1, <3>4, <3>5 DEF Holds, HoldsRow
    <3>6. CASE d \notin s.deleted
      <4>1. p = "deleted" /\ d = x
        BY <1>6, <3>1, <3>6
      <4>2. CASE rows[d[1]] # None
        <5>1. rows[d[1]] \in RowSet /\ Recalls(d[1], rows[d[1]])
          BY <2>1, <3>2, <4>2 DEF Recalls
        <5>2. rows[d[1]].acct = a
          BY <3>1, <3>2, <3>3, <5>1 DEF IInv, CodeInv, Identity, Alike
        <5>3. rows' = rows
          BY <1>12, <4>1, <4>2 DEF Undone, CanInsert
        <5> QED
          BY <3>2, <3>4, <4>2, <5>2, <5>3 DEF Sure, RowStays
      <4>3. CASE rows[d[1]] = None /\ \E k \in Live(rows) : rows[k].code = d[2].code
        <5>1. PICK k \in Live(rows) : rows[k].code = d[2].code
          BY <4>3
        <5>2. k \in Ids /\ rows[k] \in RowSet /\ Recalls(k, rows[k]) /\ k # d[1]
          BY <2>1, <4>3 DEF Live, Recalls
        <5>3. InArchive(a)
          BY <3>1, <3>2, <3>3, <5>1, <5>2, CodeOfOne DEF IInv, InArchive
        <5> QED
          BY <2>5, <5>3 DEF Sure
      <4>4. CASE CanInsert(d[1], d[2])
        <5>1. rows' = [rows EXCEPT ![d[1]] = d[2]]
          BY <1>12, <4>1, <4>4 DEF Undone, Insert
        <5>2. rows'[d[1]] = d[2] /\ d[2] # None
          BY <2>1, <3>2, <5>1, NoneAssumption
        <5> QED
          BY <3>1, <3>2, <3>4, <5>2 DEF Sure, RowStays
      <4> QED
        BY <4>2, <4>3, <4>4 DEF CanInsert
    <3> QED
      BY <3>5, <3>6
  <2>9. ASSUME NEW a \in Accounts, HoldsClient(u, a, Fleeting)
        PROVE  Sure(a)' \/ Holds(e.u, a, Passing', Fleeting')
    <3>1. a \notin Fleeting'
      <4>1. a \in ToPutBack
        BY <2>2, <2>9 DEF HoldsClient, ToPutBack, Notes
      <4> QED
        BY <2>4, <2>9, <4>1 DEF HoldsClient, Lessened
    <3>2. u # None /\ s # None
      BY <1>1, <1>6, NoneAssumption
    <3>3. PICK g \in u.gone : g[1] = a
      BY <2>9, <3>2 DEF HoldsClient, Gone
    <3>4. CASE g \in s.gone
      BY <1>8, <3>1, <3>2, <3>3, <3>4 DEF Holds, HoldsClient, Gone
    <3>5. CASE g \notin s.gone
      <4>1. p = "gone" /\ g = x
        BY <1>6, <3>3, <3>5
      <4>2. panel' = [panel EXCEPT ![a] = IF @ = None THEN g[2] ELSE @]
        BY <1>12, <3>3, <4>1 DEF Undone
      <4>3. g[2] # None
        BY <1>1, <3>3, NoneAssumption DEF Snapshots
      <4>4. panel'[a] # None
        BY <2>1, <4>2, <4>3
      <4> QED
        BY <3>1, <4>4 DEF Sure, ClientStays
    <3> QED
      BY <3>4, <3>5
  <2>10. ASSUME NEW a \in AtFirst \ forgotten', Safe(a)
         PROVE  Safe(a)'
    <3>1. a \in Accounts
      BY AccountAssumption DEF AtFirst
    <3>2. Holds(u, a, Passing, Fleeting) => Sure(a)' \/ Holds(e.u, a, Passing', Fleeting')
      BY <2>8, <2>9, <3>1 DEF Holds
    <3>3. Rests(j, e, a)
      BY <1>10, <2>5, <2>6, <2>7, <3>1, <3>2 DEF Rests
    <3>4. Undoing' \subseteq Undoing
      BY <1>7, <1>10, UndoingStep DEF SameUndo, NoNewUndo
    <3> QED
      BY <1>5, <1>7, <2>4, <2>10, <3>1, <3>3, <3>4, SureStill, SnapshotStill DEF Safe
  <2>11. overtaken' \subseteq Undoing'
    BY <1>5, <1>7, <1>10, UndoingStep DEF SameUndo, KInv, Undoing
  <2> QED
    BY <1>8, <1>9, <1>10, <2>5, <2>10, <2>11, KeptStep
<1> QED
  BY <1>3, <1>11, <1>12

(* An undo that ends has nothing left to put back.  Only an overtaken one  *)
(* clears a snapshot an account may rest on, and the account is forgotten. *)
LEMMA UndoEndKept ==
  ASSUME IInv, KInv, NEW j \in Jobs, UndoEnd(j)
  PROVE  KInv'
<1>1. /\ job[j] # None /\ job[j].kind = "undo" /\ job[j].u = Blank
  BY RequestKind DEF UndoEnd
<1>2. /\ job' = [job EXCEPT ![j] = None] /\ snapshot' = None
      /\ UNCHANGED <<panel, rows, archive, fresh, upsets>>
      /\ forgotten' = forgotten \cup IF j \in overtaken THEN Held(snapshot) ELSE {}
      /\ overtaken' = overtaken \ {j}
  BY DEF UndoEnd, End
<1>3. Goes(j, None)
  BY <1>2 DEF Goes, Early
<1>4. overtaken' \subseteq Undoing' /\ j \in Undoing
  BY <1>1, <1>2, UndoingStep DEF KInv, Undoing
<1>5. \A a : InArchive(a) => InArchive(a)'
  BY <1>2 DEF InArchive, Entries
<1>6. ASSUME NEW a \in AtFirst \ forgotten', Safe(a)
      PROVE  Safe(a)'
  <2>1. a \in Accounts
    BY AccountAssumption DEF AtFirst
  <2>2. Lessened(a)
    BY <1>2, Lessens DEF Notable
  <2>3. Sure(a)
    BY <1>2, <1>4, <1>6 DEF Safe, BySnapshot, Holds, HoldsRow, HoldsClient, Held
  <2>4. ~Holds(job[j].u, a, Passing, Fleeting)
    BY <1>1 DEF Blank, Holds, HoldsRow, HoldsClient, Gone
  <2>5. Rests(j, None, a)
    BY <1>2, <1>5, <2>4 DEF Rests, RowStays
  <2> QED
    BY <1>2, <2>1, <2>2, <2>3, <2>5, SureStill DEF Safe
<1> QED
  BY <1>3, <1>4, <1>5, <1>6, KeptStep

(* A deletion archives what it finds of the account.                       *)
LEMMA ArchiveKept ==
  ASSUME IInv, KInv, NEW j \in Jobs, Archive(j)
  PROVE  KInv'
<1>1. /\ job[j] # None /\ job[j].kind = "delete" /\ job[j] \in Deletes
  BY RequestKind DEF Archive
<1> DEFINE a == job[j].a
           i == job[j].i
           row == IF i = None THEN None ELSE rows[i]
           unseen == {w \in {"client", "row"} :
                        IF w = "client" THEN panel[a] = None ELSE row = None}
           e == [job[j] EXCEPT !.at = "panel", !.unseen = unseen]
           code == IF row = None THEN None ELSE row.code
           entry(v) == [acct |-> a, val |-> v, done |-> FALSE, code |-> code]
<1>2. /\ job' = [job EXCEPT ![j] = e]
      /\ UNCHANGED <<panel, rows, snapshot, forgotten, overtaken>>
      /\ \/ archive' = archive
         \/ archive' = Append(archive, entry(Found(a, row)))
         \/ archive' = Append(archive, entry(row.val))
      /\ \/ /\ upsets' = upsets
            /\ Found(a, row) # None => archive' = Append(archive, entry(Found(a, row)))
         \/ Upset
  BY DEF Archive, Set
<1>3. /\ panel \in [Accounts -> Values \cup {None}] /\ rows \in [Ids -> RowSet \cup {None}]
      /\ archive \in Seq(Archives)
  BY TypesKnown DEF IInv, TypeInv, Archived
<1>4. e.kind = "delete" /\ e.a = a /\ e.unseen = unseen
  BY <1>1 DEF Deletes
<1>5. i \in Ids \cup {None}
  BY <1>1 DEF Deletes
<1>6. row # None => row.val # None
  BY <1>3, <1>5, NoneAssumption DEF RowSet
<1>7. \A v : entry(v).acct = a
  OBVIOUS
<1>8. Found(a, row) = None => {"client", "row"} \subseteq unseen
  BY <1>6 DEF Found
<1> HIDE DEF a, row, unseen, e, entry
<1>9. \A b : InArchive(b) => InArchive(b)'
  <2>1. archive' = archive \/ \E x : archive' = Append(archive, x)
    BY <1>2
  <2>2. \A k \in Entries : k \in Entries' /\ archive'[k] = archive[k]
    BY <1>3, <2>1 DEF Entries
  <2> QED
    BY <2>2 DEF InArchive
<1>10. ASSUME NEW v, archive' = Append(archive, entry(v))
       PROVE  \E k \in Entries' : archive'[k].acct = a
  <2>1. Len(archive) + 1 \in Entries' /\ archive'[Len(archive) + 1] = entry(v)
    BY <1>3, <1>10 DEF Entries
  <2> QED
    BY <1>7, <2>1
<1>11. Additive
  BY <1>2, <1>9 DEF Additive
<1>12. PICK d : d = e
  OBVIOUS
<1>13. upsets' = 0 => (\E k \in Entries' : archive'[k].acct = d.a) \/ {"client", "row"} \subseteq d.unseen
  BY <1>2, <1>4, <1>8, <1>10, <1>12 DEF Upset, KInv
<1>14. upsets' = 0 => InArchive(d.a)' \/ {"client", "row"} \subseteq d.unseen
  BY <1>13 DEF InArchive
<1> QED
  BY <1>1, <1>2, <1>4, <1>11, <1>12, <1>14, OtherGoes DEF Notable, Upset

(* A deletion takes what is archived, or what it has not seen.             *)
LEMMA TakenKeeps ==
  ASSUME IInv, KInv, NEW j \in Jobs, NEW e, Goes(j, e),
         UNCHANGED <<archive, snapshot, overtaken>>,
         ~Notable(job[j]), e = None \/ e.kind = "delete",
         upsets' = 0 /\ e # None /\ e.at # "archive" =>
           InArchive(e.a) \/ {"client", "row"} \subseteq e.unseen,
         upsets' = 0 => \A a \in Accounts \ forgotten' :
           \/ InArchive(a)
           \/ /\ \A i \in Ids : rows[i] # None /\ rows[i].acct = a => rows'[i] = rows[i]
              /\ panel[a] # None => panel'[a] # None
  PROVE  KInv'
<1>1. SameUndo(j, e) /\ ~Notable(e)
  BY DEF SameUndo, Notable
<1>2. overtaken' \subseteq Undoing' /\ Undoing' \subseteq Undoing
  BY <1>1, UndoingStep DEF SameUndo, NoNewUndo, KInv, Goes, Undoing
<1>3. \A a : InArchive(a) => InArchive(a)'
  BY DEF InArchive, Entries
<1>4. ASSUME upsets' = 0, NEW a \in AtFirst \ forgotten', Safe(a)
      PROVE  Safe(a)'
  <2>1. a \in Accounts
    BY AccountAssumption DEF AtFirst
  <2>2. Lessened(a)
    <3>1. snapshot' = None \/ snapshot' \in Notes
      BY DEF Notes
    <3> QED
      BY <1>1, <3>1, Lessens DEF Goes
  <2>3. CASE InArchive(a)
    BY <1>3, <2>3 DEF Safe, Sure
  <2>4. CASE ~InArchive(a)
    <3>1. Rests(j, e, a)
      BY <1>4, <2>1, <2>4 DEF Rests, RowStays, Notable, Noting
    <3> QED
      BY <1>2, <1>4, <2>1, <2>2, <3>1, SureStill, SnapshotStill DEF Safe, Goes
  <2> QED
    BY <2>3, <2>4
<1> QED
  BY <1>2, <1>3, <1>4, KeptStep

LEMMA DeletesKept ==
  ASSUME IInv, KInv, NEW j \in Jobs, DeleteClient(j) \/ DeleteRow(j)
  PROVE  KInv'
<1>1. /\ job[j] # None /\ job[j].kind = "delete" /\ job[j] \in Deletes
      /\ job[j].at # "archive" /\ ~Notable(job[j])
  BY RequestKind DEF DeleteClient, DeleteRow, Notable
<1>2. /\ panel \in [Accounts -> Values \cup {None}] /\ rows \in [Ids -> RowSet \cup {None}]
  BY TypesKnown
<1>3. /\ UNCHANGED <<archive, snapshot, overtaken>> /\ forgotten \subseteq forgotten'
      /\ upsets' = upsets \/ upsets' = upsets + 1
  BY DEF DeleteClient, DeleteRow, Upset
<1>4. PICK e : /\ job' = [job EXCEPT ![j] = e]
               /\ e = None \/ (e.kind = "delete" /\ e.a = job[j].a /\ e.unseen = job[j].unseen)
  <2> DEFINE e == [job[j] EXCEPT !.at = "row"]
  <2>1. job' = [job EXCEPT ![j] = None] \/ job' = [job EXCEPT ![j] = e]
    BY <1>1 DEF DeleteClient, DeleteRow, End, Move, Deletes
  <2>2. e.kind = "delete" /\ e.a = job[j].a /\ e.unseen = job[j].unseen
    BY <1>1 DEF Deletes
  <2> HIDE DEF e
  <2> QED
    BY <2>1, <2>2
<1>5. Goes(j, e)
  BY <1>3, <1>4 DEF Goes, Early
<1>6. upsets' = 0 => InArchive(job[j].a) \/ {"client", "row"} \subseteq job[j].unseen
  BY <1>1, <1>3 DEF KInv, Steady, Examined
<1>7. ASSUME upsets' = 0, NEW a \in Accounts \ forgotten', ~InArchive(a)
      PROVE  /\ \A i \in Ids : rows[i] # None /\ rows[i].acct = a => rows'[i] = rows[i]
             /\ panel[a] # None => panel'[a] # None
  <2>1. a = job[j].a => "client" \in job[j].unseen /\ "row" \in job[j].unseen
    BY <1>6, <1>7
  <2>2. CASE DeleteClient(j)
    <3>1. rows' = rows
      BY <2>2 DEF DeleteClient
    <3>2. panel' = panel \/ panel' = [panel EXCEPT ![job[j].a] = None]
      BY <2>2 DEF DeleteClient
    <3>3. a = job[j].a => a \notin Clients(panel) \ Clients(panel')
      BY <1>7, <2>1, <2>2 DEF DeleteClient
    <3> QED
      BY <1>2, <3>1, <3>2, <3>3 DEF Clients
  <2>3. CASE DeleteRow(j)
    <3>1. panel' = panel /\ rows' = [rows EXCEPT ![job[j].i] = None]
      BY <2>3 DEF DeleteRow
    <3>2. a # job[j].a
      BY <1>7, <2>1, <2>3 DEF DeleteRow
    <3>3. ASSUME NEW i \in Ids, rows[i] # None, rows[i].acct = a
          PROVE  i # job[j].i
      <4>1. rows[i] \in RowSet /\ Recalls(i, rows[i])
        BY <1>2, <3>3 DEF Recalls
      <4>2. i # None
        BY NoneAssumption
      <4> QED
        BY <1>1, <3>2, <3>3, <4>1, <4>2 DEF IInv, Owning, Owns
    <3> QED
      BY <1>2, <3>1, <3>3
  <2> QED
    BY <2>2, <2>3
<1> QED
  BY <1>1, <1>3, <1>4, <1>5, <1>6, <1>7, TakenKeeps

LEMMA OutsideKept ==
  ASSUME IInv, KInv, PanelEdit \/ Restart
  PROVE  KInv'
<1>1. upsets' \in Nat /\ upsets' # 0
  BY DEF PanelEdit, Restart, Upset, KInv
<1>2. CASE PanelEdit
  BY <1>1, <1>2 DEF PanelEdit, KInv, Steady, Undoing, Early
<1>3. CASE Restart
  BY <1>1, <1>3 DEF Restart, KInv, Steady, Undoing, Early
<1> QED
  BY <1>2, <1>3

LEMMA InitiallyKept == Init => KInv
<1> SUFFICES ASSUME Init
             PROVE  KInv
  OBVIOUS
<1>1. /\ upsets = 0 /\ overtaken = {} /\ forgotten = {} /\ snapshot = None
      /\ \A j \in Jobs : job[j] = None
  BY DEF Init
<1>2. Notes = {} /\ Passing = {} /\ Fleeting = {}
  BY <1>1 DEF Notes, Noting, Passing, Fleeting
<1>3. ASSUME NEW a \in AtFirst
      PROVE  Sure(a)
  <2>1. CASE a \in Stored \cup Foreign
    <3>1. panel[a] = (CHOOSE v \in Values : TRUE) /\ a \in Accounts
      BY <2>1, AccountAssumption DEF Init
    <3>2. panel[a] # None
      BY <3>1, AccountAssumption, NoneAssumption
    <3> QED
      BY <1>2, <3>2 DEF Sure, ClientStays
  <2>2. CASE a \in Orphan
    <3> DEFINE f == CHOOSE f \in Injection(Stored \cup Orphan, Ids) : TRUE
    <3>1. f \in Injection(Stored \cup Orphan, Ids)
      BY IdAssumption
    <3>2. /\ f \in [Stored \cup Orphan -> Ids]
          /\ \A b, c \in Stored \cup Orphan : f[b] = f[c] => b = c
      BY <3>1 DEF Injection, IsInjective
    <3>3. rows = [i \in Ids |->
             IF \E b \in DOMAIN f : f[b] = i
             THEN [acct |-> CHOOSE b \in DOMAIN f : f[b] = i,
                   val |-> CHOOSE v \in Values : TRUE, code |-> i]
             ELSE None]
      BY DEF Init
    <3> HIDE DEF f
    <3>4. PICK i \in Ids : i = f[a]
      BY <2>2, <3>2
    <3>5. (CHOOSE b \in DOMAIN f : f[b] = i) = a
      BY <2>2, <3>2, <3>4
    <3>6. rows[i] = [acct |-> a, val |-> CHOOSE v \in Values : TRUE, code |-> i]
      BY <2>2, <3>2, <3>3, <3>4, <3>5
    <3>7. rows[i] \in RowSet
      BY <2>2, <3>6, AccountAssumption DEF RowSet
    <3> QED
      BY <1>2, <3>6, <3>7, NoneAssumption DEF Sure, RowStays
  <2> QED
    BY <2>1, <2>2 DEF AtFirst
<1> QED
  BY <1>1, <1>3 DEF KInv, Early, Steady, Tracked, Safe, Examined

LEMMA KeptInductive == IInv /\ KInv /\ [Next]_vars => KInv'
<1> SUFFICES ASSUME IInv, KInv, [Next]_vars
             PROVE  KInv'
  OBVIOUS
<1>1. CASE UNCHANGED vars
  <2>1. UNCHANGED <<panel, rows, archive, snapshot, job, upsets, forgotten, overtaken>>
    BY <1>1 DEF vars, ghosts
  <2>2. Notes' = Notes /\ \A j \in Jobs : Noting(j)' <=> Noting(j)
    BY <2>1 DEF Notes, Noting
  <2>3. Passing' = Passing /\ Fleeting' = Fleeting
    BY <2>2 DEF Passing, Fleeting
  <2>4. \A a : InArchive(a)' <=> InArchive(a)
    BY <2>1 DEF InArchive, Entries
  <2>5. Undoing' = Undoing
    BY <2>1 DEF Undoing
  <2>6. ASSUME NEW a, Safe(a)
        PROVE  Safe(a)'
    <3>1. CASE Sure(a)
      BY <2>1, <2>2, <2>3, <2>4, <3>1 DEF Safe, Sure, RowStays, ClientStays
    <3>2. CASE BySnapshot(a)
      BY <2>1, <2>3, <2>5, <3>2 DEF Safe, BySnapshot
    <3> QED
      BY <2>6, <3>1, <3>2 DEF Safe
  <2>7. Steady'
    <3>1. upsets = 0 => Tracked'
      BY <2>1, <2>6 DEF KInv, Steady, Tracked
    <3>2. \A j \in Jobs : Examined(job[j]) => Examined(job[j])'
      BY <2>1, <2>4 DEF Examined
    <3> QED
      BY <2>1, <3>1, <3>2 DEF KInv, Steady
  <2> QED
    BY <2>1, <2>5, <2>7 DEF KInv
<1>2. CASE Next
  <2>1. Step /\ Watch
    BY <1>2 DEF Next
  <2>2. ASSUME NEW j \in Jobs,
               \/ \E dir \in Directions : SyncBegin(j, dir)
               \/ UndoBegin(j)
               \/ \E a \in Accounts : DeleteBegin(j, a) \/ CreateBegin(j, a)
               \/ \E k \in Entries : RestoreBegin(j, k)
        PROVE  KInv'
    BY <2>2, BeginsKept, UndoBeginKept
  <2>3. ASSUME NEW j \in Jobs, Sync(j)
        PROVE  KInv'
    BY <2>1, <2>3, LooksKept, MakesKept, SkipsKept, AddLostKept, StoreKept DEF Sync
  <2>4. ASSUME NEW j \in Jobs, UndoEnd(j) \/ \E n \in 1 .. 6 : UndoOne(j, n)
        PROVE  KInv'
    BY <2>4, UndoEndKept, UndoOneKept
  <2>5. ASSUME NEW j \in Jobs,
               \/ Archive(j) \/ DeleteClient(j) \/ DeleteRow(j)
               \/ RestoreCheck(j) \/ RestoreClient(j) \/ RestoreRow(j) \/ RestoreMark(j)
               \/ CreateClient(j) \/ CreateRow(j)
        PROVE  KInv'
    BY <2>5, ArchiveKept, DeletesKept, RestoresKept
  <2>6. CASE PanelEdit \/ Restart
    BY <2>6, OutsideKept
  <2> QED
    BY <2>1, <2>2, <2>3, <2>4, <2>5, <2>6 DEF Step
<1> QED
  BY <1>1, <1>2

-----------------------------------------------------------------------------
(* As long as no call fails, every account that was there at the start is  *)
(* on a panel, in a row, in the archive or in notes for an undo (deletion  *)
(* archives first, admin-configs.ts:614; a synchronisation notes what it   *)
(* deletes), unless it is forgotten.  The account rests on something that  *)
(* no undo would take away again (Tracked): what a request deletes is in   *)
(* its notes before, and those notes are the snapshot after; an undo puts  *)
(* back what it holds before it clears the snapshot, and a code that is in *)
(* the way belongs to an archived account (Coded).                         *)
THEOREM NothingIsLost == Spec => []NothingVanishes
<1>1. IInv /\ KInv => NothingVanishes
  <2> SUFFICES ASSUME IInv, KInv, upsets = 0, NEW a \in AtFirst \ forgotten
               PROVE  Kept(a)
    BY DEF NothingVanishes, AtFirst
  <2>1. Safe(a)
    BY DEF KInv, Steady, Tracked
  <2>2. ASSUME NEW s \in Notes, Holds(s, a, Passing, Fleeting)
        PROVE  a \in Held(s)
    <3>1. s # None
      BY NotesTyped, NoneAssumption
    <3> QED
      BY <2>2, <3>1 DEF Holds, HoldsRow, HoldsClient, Held
  <2>3. CASE InArchive(a)
    BY <2>3 DEF InArchive, Kept
  <2>4. CASE (\E i \in Ids : RowStays(i, a)) \/ ClientStays(a)
    BY <2>4 DEF RowStays, ClientStays, Kept, Named, Live
  <2>5. CASE \E j \in Jobs : Noting(j) /\ Holds(job[j].u, a, Passing, Fleeting)
    <3>1. PICK j \in Jobs : Noting(j) /\ Holds(job[j].u, a, Passing, Fleeting)
      BY <2>5
    <3>2. job[j].u \in Notes
      BY <3>1 DEF Notes
    <3> QED
      BY <2>2, <3>1, <3>2 DEF Kept
  <2>6. CASE BySnapshot(a)
    BY <2>2, <2>6 DEF BySnapshot, Notes, Kept
  <2> QED
    BY <2>1, <2>3, <2>4, <2>5, <2>6 DEF Safe, Sure
<1>2. Spec => []KInv
  BY InitiallyKept, KeptInductive, Invariant, PTL DEF Spec
<1> QED
  BY <1>1, <1>2, Invariant, PTL

-----------------------------------------------------------------------------
(* Undo.  What was noted of one client, of one row, leads back from what   *)
(* is there now (y) to what was there when the synchronisation began (x).  *)

BackClient(u, a, x, y) ==
  /\ a \in u.made => x = None /\ \A v \in Values : <<a, v>> \notin u.gone
  /\ \A v \in Values : <<a, v>> \in u.gone => x = v
  /\ \A v \in Values : <<a, v>> \in u.pan => x \in {v, None}
  /\ \/ y = x
     \/ a \in u.made
     \/ y = None /\ \E v \in Values : <<a, v>> \in u.gone
     \/ y # None /\ x # None /\ \E v \in Values : <<a, v>> \in u.pan

BackRow(u, i, x, y) ==
  /\ i \in u.created => x = None /\ \A s \in RowSet : <<i, s>> \notin u.deleted
  /\ \A s \in RowSet : <<i, s>> \in u.deleted => x = s
  /\ \A v \in Values : <<i, v>> \in u.bot => x = None \/ x.val = v
  /\ \/ y = x
     \/ i \in u.created
     \/ y = None /\ \E s \in RowSet : <<i, s>> \in u.deleted
     \/ y # None /\ x # None /\ Alike(y, x) /\ \E v \in Values : <<i, v>> \in u.bot

\* The notes u lead from panel p and rows r back to the moment b.
Back(u, b, p, r) ==
  /\ b \in Moments
  /\ \A a \in Accounts : BackClient(u, a, b[1][a], p[a])
  /\ \A i \in Ids : BackRow(u, i, b[2][i], r[i])
  /\ \A i, k \in Ids : b[2][i] # None /\ b[2][k] # None /\ b[2][i].code = b[2][k].code => i = k

\* Accounts a phase has still to deal with.
Left(d) == d.todo \cup IF d.item = None THEN {} ELSE {d.item[1]}

\* A synchronisation that works alone since the moment b.  To the bot, its list
\* of clients is right, and rows it has made are of clients that are there, so
\* that it deletes none of them; a listed row changes in the last phase only.
ToBot(d, b, p, r) ==
  /\ \A a \in Accounts : d.L[a] # None => p[a] = d.L[a]
  /\ \A i \in d.u.created : /\ r[i] # None => p[r[i].acct] # None
                            /\ d.B[i] # None => p[d.B[i].acct] # None
  /\ d.at = "del" /\ d.item # None => p[d.item[1]] = None
  /\ d.at \in {"del", "fields"} => \A i \in Ids :
       /\ d.B[i] = b[2][i] \/ i \in d.u.created
       /\ r[i] # None /\ d.B[i] # None =>
            r[i] = d.B[i] \/ (d.at = "fields" /\ d.B[i].acct \notin Left(d))
  /\ d.at \notin {"fields", "store"} => d.u.bot = {}

\* To the panel, its list of rows is right, and clients it has made have rows.
ToPanel(d, b, p, r) ==
  /\ d.B = r
  /\ \A a \in d.u.made : \E i \in Ids : r[i] # None /\ r[i].acct = a
  /\ d.at \in {"rerows", "del", "fields"} =>
       \A a \in Accounts : d.L[a] # None => d.L[a] = b[1][a] \/ a \in d.u.made
  /\ d.at = "del" /\ d.item # None => d.item[2] = d.L[d.item[1]]
  /\ d.at = "fields" /\ d.item # None => p[d.item[1]] = d.item[2]
  /\ d.at = "fields" => \A a \in Left(d), v \in Values : <<a, v>> \notin d.u.pan
  /\ d.at \notin {"fields", "store"} => d.u.pan = {}

Runs(d, b, p, r) ==
  /\ d.kind = "sync"
  /\ Back(d.u, b, p, r)
  /\ d.item # None => d.item[1] \notin d.todo
  /\ IF d.at \in {"list", "rows"}
     THEN /\ d.u = Blank /\ b = <<p, r>>
          /\ d.at = "rows" => \A a \in Accounts : d.L[a] # None => p[a] = d.L[a]
     ELSE IF d.dir = "panel_to_bot" THEN ToBot(d, b, p, r) ELSE ToPanel(d, b, p, r)

Alone(j) == job[j] # None /\ \A i \in Jobs : i # j => job[i] = None

Running == before # None => \E j \in Jobs : Alone(j) /\ Runs(job[j], before, panel, rows)

\* Nothing else has touched the accounts since the moment the snapshot, or a
\* lone undo, would put back.
Exact == exact =>
  \/ AtRest /\ (snapshot # None => Back(snapshot, base, panel, rows))
  \/ before # None /\ (snapshot # None => Back(snapshot, base, before[1], before[2]))
  \/ \E j \in Jobs : Alone(j) /\ job[j].kind = "undo" /\ Back(job[j].u, base, panel, rows)

UInv == Running /\ Exact

(* With nothing noted, nothing has changed.                                *)
LEMMA BackFromBlank ==
  ASSUME NEW b, NEW p, NEW r, <<p, r>> \in Moments, Back(Blank, b, p, r)
  PROVE  b = <<p, r>>
<1>1. b \in Moments /\ b = <<b[1], b[2]>>
  BY DEF Back, Moments
<1>2. \A a \in Accounts : p[a] = b[1][a]
  BY DEF Back, BackClient, Blank
<1>3. \A i \in Ids : r[i] = b[2][i]
  BY DEF Back, BackRow, Blank
<1>4. p = b[1]
  BY <1>1, <1>2 DEF Moments
<1>5. r = b[2]
  BY <1>1, <1>3 DEF Moments
<1> QED
  BY <1>1, <1>4, <1>5

LEMMA BlankLeadsBack ==
  ASSUME NEW p, NEW r, <<p, r>> \in Moments,
         \A i, k \in Ids : r[i] # None /\ r[k] # None /\ r[i].code = r[k].code => i = k
  PROVE  Back(Blank, <<p, r>>, p, r)
BY DEF Back, BackClient, BackRow, Blank

\* The request d when the account it looked at is dealt with.
After(d, w) == [d EXCEPT !.item = None, !.u = w]

LEMMA AfterIs ==
  ASSUME NEW d \in Syncs, NEW w
  PROVE  /\ After(d, w).kind = "sync" /\ After(d, w).at = d.at /\ After(d, w).dir = d.dir
         /\ After(d, w).todo = d.todo /\ After(d, w).item = None
         /\ After(d, w).L = d.L /\ After(d, w).B = d.B /\ After(d, w).u = w
         /\ Left(After(d, w)) = d.todo
BY DEF After, Syncs, Left

\* A synchronisation at an account of a phase, on panel p and rows r.
At(d, b, p, r, phase) ==
  /\ d \in Syncs /\ <<p, r>> \in Moments /\ Runs(d, b, p, r)
  /\ d.at = phase /\ phase \in Phases /\ d.item # None
  /\ d.item[1] \in Accounts /\ d.item[2] \in Values

LEMMA AtIs ==
  ASSUME NEW d, NEW b, NEW p, NEW r, NEW phase, At(d, b, p, r, phase)
  PROVE  /\ d \in Syncs /\ d.u \in Snapshots /\ d.item # None /\ d.item[1] \notin d.todo
         /\ d.item[1] \in Accounts /\ d.item[2] \in Values /\ d.at = phase
         /\ p \in [Accounts -> Values \cup {None}] /\ r \in [Ids -> RowSet \cup {None}]
         /\ Back(d.u, b, p, r)
         /\ IF d.dir = "panel_to_bot" THEN ToBot(d, b, p, r) ELSE ToPanel(d, b, p, r)
BY DEF At, Runs, Syncs, Moments, Phases

(* A row is made for a client that is there.                               *)
LEMMA ImportRuns ==
  ASSUME NEW d, NEW b, NEW p, NEW r, At(d, b, p, r, "new"), d.dir = "panel_to_bot",
         d.u.deleted = {}, NEW n \in Ids, r[n] = None, d.B[n] = None,
         NEW s \in RowSet, p[s.acct] # None
  PROVE  Runs(After(d, [d.u EXCEPT !.created = @ \cup {n}]), b, p, [r EXCEPT ![n] = s])
<1> DEFINE w == [d.u EXCEPT !.created = @ \cup {n}]
           q == [r EXCEPT ![n] = s]
<1>1. /\ d \in Syncs /\ d.u \in Snapshots /\ d.item # None /\ d.at = "new"
      /\ r \in [Ids -> RowSet \cup {None}]
      /\ Back(d.u, b, p, r) /\ ToBot(d, b, p, r)
  BY AtIs
<1>2. /\ w.created = d.u.created \cup {n} /\ w.deleted = {} /\ w.made = d.u.made
      /\ w.gone = d.u.gone /\ w.bot = d.u.bot /\ w.pan = d.u.pan
  BY <1>1 DEF Snapshots
<1>3. q[n] = s /\ \A i \in Ids : i # n => q[i] = r[i]
  BY <1>1
<1> HIDE DEF w, q
<1>4. \A i \in Ids : BackRow(w, i, b[2][i], q[i])
  <2>1. BackRow(d.u, n, b[2][n], r[n])
    BY <1>1 DEF Back
  <2>2. BackRow(w, n, b[2][n], q[n])
    BY <1>2, <2>1 DEF BackRow
  <2>3. ASSUME NEW i \in Ids, i # n
        PROVE  BackRow(w, i, b[2][i], q[i])
    BY <1>1, <1>2, <1>3, <2>3 DEF Back, BackRow
  <2> QED
    BY <2>2, <2>3
<1>5. \A a \in Accounts : BackClient(w, a, b[1][a], p[a])
  BY <1>1, <1>2 DEF Back, BackClient
<1>6. Back(w, b, p, q)
  BY <1>1, <1>4, <1>5 DEF Back
<1>7. ToBot(After(d, w), b, p, q)
  <2>1. \A i \in w.created : /\ q[i] # None => p[q[i].acct] # None
                             /\ d.B[i] # None => p[d.B[i].acct] # None
    BY <1>1, <1>2, <1>3 DEF ToBot, Snapshots
  <2>2. \A a \in Accounts : d.L[a] # None => p[a] = d.L[a]
    BY <1>1 DEF ToBot
  <2>3. d.u.bot = {}
    BY <1>1 DEF ToBot
  <2> QED
    BY <1>1, <1>2, <2>1, <2>2, <2>3, AfterIs DEF ToBot
<1>8. Runs(After(d, w), b, p, q)
  BY <1>1, <1>6, <1>7, AfterIs DEF Runs, At
<1> QED
  BY <1>8 DEF w, q

(* A client is made where the panel has none.                              *)
LEMMA AddRuns ==
  ASSUME NEW d, NEW b, NEW p, NEW r, At(d, b, p, r, "new"), d.dir # "panel_to_bot",
         d.u.gone = {}, NEW a \in Accounts, p[a] = None, NEW v \in Values,
         \E i \in Ids : r[i] # None /\ r[i].acct = a
  PROVE  Runs(After(d, [d.u EXCEPT !.made = @ \cup {a}]), b, [p EXCEPT ![a] = v], r)
<1> DEFINE w == [d.u EXCEPT !.made = @ \cup {a}]
           q == [p EXCEPT ![a] = v]
<1>1. /\ d \in Syncs /\ d.u \in Snapshots /\ d.item # None /\ d.at = "new"
      /\ p \in [Accounts -> Values \cup {None}]
      /\ Back(d.u, b, p, r) /\ ToPanel(d, b, p, r)
  BY AtIs
<1>2. /\ w.created = d.u.created /\ w.deleted = d.u.deleted /\ w.made = d.u.made \cup {a}
      /\ w.gone = {} /\ w.bot = d.u.bot /\ w.pan = d.u.pan
  BY <1>1 DEF Snapshots
<1>3. q[a] = v /\ \A c \in Accounts : c # a => q[c] = p[c]
  BY <1>1
<1> HIDE DEF w, q
<1>4. \A c \in Accounts : BackClient(w, c, b[1][c], q[c])
  <2>1. BackClient(d.u, a, b[1][a], p[a])
    BY <1>1 DEF Back
  <2>2. BackClient(w, a, b[1][a], q[a])
    BY <1>2, <2>1 DEF BackClient
  <2>3. ASSUME NEW c \in Accounts, c # a
        PROVE  BackClient(w, c, b[1][c], q[c])
    BY <1>1, <1>2, <1>3, <2>3 DEF Back, BackClient
  <2> QED
    BY <2>2, <2>3
<1>5. \A i \in Ids : BackRow(w, i, b[2][i], r[i])
  BY <1>1, <1>2 DEF Back, BackRow
<1>6. Back(w, b, q, r)
  BY <1>1, <1>4, <1>5 DEF Back
<1>7. ToPanel(After(d, w), b, q, r)
  BY <1>1, <1>2, <1>3, AfterIs DEF ToPanel
<1>8. Runs(After(d, w), b, q, r)
  BY <1>1, <1>6, <1>7, AfterIs DEF Runs, At
<1> QED
  BY <1>8 DEF w, q

(* A row that is deleted, or could not be, is as it was listed and as it   *)
(* was at the start.                                                       *)
LEMMA DropRowRuns ==
  ASSUME NEW d, NEW b, NEW p, NEW r, At(d, b, p, r, "del"), d.dir = "panel_to_bot",
         NEW i \in Ids, d.B[i] \in RowSet, d.B[i].acct = d.item[1],
         NEW q, q = r \/ q = [r EXCEPT ![i] = None]
  PROVE  Runs(After(d, [d.u EXCEPT !.deleted = @ \cup {<<i, d.B[i]>>}]), b, p, q)
<1> DEFINE w == [d.u EXCEPT !.deleted = @ \cup {<<i, d.B[i]>>}]
<1>1. /\ d \in Syncs /\ d.u \in Snapshots /\ d.item # None /\ d.at = "del"
      /\ r \in [Ids -> RowSet \cup {None}]
      /\ Back(d.u, b, p, r) /\ ToBot(d, b, p, r)
  BY AtIs
<1>2. /\ w.created = d.u.created /\ w.deleted = d.u.deleted \cup {<<i, d.B[i]>>}
      /\ w.made = d.u.made /\ w.gone = d.u.gone /\ w.bot = d.u.bot /\ w.pan = d.u.pan
  BY <1>1 DEF Snapshots
<1>3. q[i] \in {r[i], None} /\ \A k \in Ids : k # i => q[k] = r[k]
  BY <1>1
<1>4. d.B[i] # None
  BY NoneAssumption
<1>5. i \notin d.u.created
  BY <1>1, <1>4 DEF ToBot
<1>6. b[2][i] = d.B[i]
  BY <1>1, <1>5 DEF ToBot
<1> HIDE DEF w
<1>7. \A k \in Ids : BackRow(w, k, b[2][k], q[k])
  <2>1. BackRow(d.u, i, b[2][i], r[i])
    BY <1>1 DEF Back
  <2>2. BackRow(w, i, b[2][i], q[i])
    BY <1>2, <1>3, <1>5, <1>6, <2>1 DEF BackRow
  <2>3. ASSUME NEW k \in Ids, k # i
        PROVE  BackRow(w, k, b[2][k], q[k])
    <3>1. BackRow(d.u, k, b[2][k], r[k]) /\ q[k] = r[k]
      BY <1>1, <1>3, <2>3 DEF Back
    <3>2. \A s : <<k, s>> \in w.deleted <=> <<k, s>> \in d.u.deleted
      BY <1>2, <2>3
    <3> QED
      BY <1>2, <3>1, <3>2 DEF BackRow
  <2> QED
    BY <2>2, <2>3
<1>8. \A a \in Accounts : BackClient(w, a, b[1][a], p[a])
  BY <1>1, <1>2 DEF Back, BackClient
<1>9. Back(w, b, p, q)
  BY <1>1, <1>7, <1>8 DEF Back
<1>10. ToBot(After(d, w), b, p, q)
  <2>1. \A k \in Ids : q[k] # None => q[k] = r[k]
    BY <1>3
  <2>2. \A k \in d.u.created : /\ q[k] # None => p[q[k].acct] # None
                               /\ d.B[k] # None => p[d.B[k].acct] # None
    BY <1>1, <2>1 DEF ToBot, Snapshots
  <2>3. \A k \in Ids : /\ d.B[k] = b[2][k] \/ k \in d.u.created
                       /\ q[k] # None /\ d.B[k] # None => q[k] = d.B[k]
    BY <1>1, <2>1 DEF ToBot
  <2>4. d.u.bot = {} /\ \A a \in Accounts : d.L[a] # None => p[a] = d.L[a]
    BY <1>1 DEF ToBot
  <2> QED
    BY <1>1, <1>2, <2>2, <2>3, <2>4, AfterIs DEF ToBot
<1>11. Runs(After(d, w), b, p, q)
  BY <1>1, <1>9, <1>10, AfterIs DEF Runs, At
<1> QED
  BY <1>11 DEF w

(* A client that is deleted, or could not be, is none the request has      *)
(* made: it has no row.                                                    *)
LEMMA DropClientRuns ==
  ASSUME NEW d, NEW b, NEW p, NEW r, At(d, b, p, r, "del"), d.dir # "panel_to_bot",
         NEW a, a = d.item[1], d.L[a] # None, \A i \in Ids : r[i] # None => r[i].acct # a,
         NEW q, q = p \/ q = [p EXCEPT ![a] = None]
  PROVE  Runs(After(d, [d.u EXCEPT !.gone = @ \cup {<<a, d.item[2]>>}]), b, q, r)
<1> DEFINE v == d.item[2]
           w == [d.u EXCEPT !.gone = @ \cup {<<a, v>>}]
<1>1. /\ d \in Syncs /\ d.u \in Snapshots /\ d.item # None /\ d.at = "del"
      /\ a \in Accounts /\ v \in Values /\ p \in [Accounts -> Values \cup {None}]
      /\ Back(d.u, b, p, r) /\ ToPanel(d, b, p, r)
  BY AtIs
<1>2. /\ w.created = d.u.created /\ w.deleted = d.u.deleted /\ w.made = d.u.made
      /\ w.gone = d.u.gone \cup {<<a, v>>} /\ w.bot = d.u.bot /\ w.pan = d.u.pan
  BY <1>1 DEF Snapshots
<1>3. q[a] \in {p[a], None} /\ \A c \in Accounts : c # a => q[c] = p[c]
  BY <1>1
<1>4. a \notin d.u.made
  BY <1>1 DEF ToPanel
<1>5. b[1][a] = v
  BY <1>1, <1>4 DEF ToPanel
<1> HIDE DEF w, v
<1>6. \A c \in Accounts : BackClient(w, c, b[1][c], q[c])
  <2>1. BackClient(d.u, a, b[1][a], p[a])
    BY <1>1 DEF Back
  <2>2. BackClient(w, a, b[1][a], q[a])
    BY <1>1, <1>2, <1>3, <1>4, <1>5, <2>1 DEF BackClient
  <2>3. ASSUME NEW c \in Accounts, c # a
        PROVE  BackClient(w, c, b[1][c], q[c])
    <3>1. BackClient(d.u, c, b[1][c], p[c]) /\ q[c] = p[c]
      BY <1>1, <1>3, <2>3 DEF Back
    <3>2. \A x : <<c, x>> \in w.gone <=> <<c, x>> \in d.u.gone
      BY <1>2, <2>3
    <3> QED
      BY <1>2, <3>1, <3>2 DEF BackClient
  <2> QED
    BY <2>2, <2>3
<1>7. \A i \in Ids : BackRow(w, i, b[2][i], r[i])
  BY <1>1, <1>2 DEF Back, BackRow
<1>8. Back(w, b, q, r)
  BY <1>1, <1>6, <1>7 DEF Back
<1>9. ToPanel(After(d, w), b, q, r)
  BY <1>1, <1>2, AfterIs DEF ToPanel
<1>10. Runs(After(d, w), b, q, r)
  BY <1>1, <1>8, <1>9, AfterIs DEF Runs, At
<1> QED
  BY <1>10 DEF w, v

(* A row that gets another value had the listed one.                       *)
LEMMA FieldsToBotRuns ==
  ASSUME NEW d, NEW b, NEW p, NEW r, At(d, b, p, r, "fields"), d.dir = "panel_to_bot",
         NEW i \in Ids, d.B[i] \in RowSet, d.B[i].acct = d.item[1], NEW v \in Values,
         NEW w, \/ v = d.B[i].val /\ w = d.u
                \/ v # d.B[i].val /\ w = [d.u EXCEPT !.bot = @ \cup {<<i, d.B[i].val>>}],
         NEW q, \/ q = r
                \/ q = [r EXCEPT ![i] = IF @ = None THEN @ ELSE [@ EXCEPT !.val = v]]
  PROVE  Runs(After(d, w), b, p, q)
<1>1. /\ d \in Syncs /\ d.u \in Snapshots /\ d.item # None /\ d.at = "fields"
      /\ r \in [Ids -> RowSet \cup {None}] /\ d.item[1] \notin d.todo
      /\ Back(d.u, b, p, r) /\ ToBot(d, b, p, r)
  BY AtIs
<1>2. /\ w.created = d.u.created /\ w.deleted = d.u.deleted /\ w.made = d.u.made
      /\ w.gone = d.u.gone /\ w.pan = d.u.pan
      /\ w.bot = IF v = d.B[i].val THEN d.u.bot ELSE d.u.bot \cup {<<i, d.B[i].val>>}
  BY <1>1 DEF Snapshots
<1>3. \A k \in Ids : k # i => q[k] = r[k]
  BY <1>1
<1>4. d.B[i] # None /\ d.item[1] \in Left(d)
  BY <1>1, NoneAssumption DEF Left
<1>5. r[i] # None => r[i] = d.B[i]
  BY <1>1, <1>4 DEF ToBot
<1>6. \/ q[i] = r[i]
      \/ r[i] # None /\ q[i] = [d.B[i] EXCEPT !.val = v]
  BY <1>1, <1>5
<1>7. [d.B[i] EXCEPT !.val = v] \in RowSet /\ Alike([d.B[i] EXCEPT !.val = v], d.B[i])
  BY DEF RowSet, Alike
<1>8. q[i] = r[i] \/ (v # d.B[i].val /\ r[i] # None /\ q[i] # None /\ Alike(q[i], d.B[i]))
  <2>1. v = d.B[i].val => [d.B[i] EXCEPT !.val = v] = d.B[i]
    BY DEF RowSet
  <2> QED
    BY <1>5, <1>6, <1>7, <2>1, NoneAssumption
<1>9. d.B[i] = b[2][i] \/ i \in d.u.created
  BY <1>1 DEF ToBot
<1>10. \A k \in Ids : BackRow(w, k, b[2][k], q[k])
  <2>1. BackRow(d.u, i, b[2][i], r[i]) /\ d.B[i].val \in Values
    BY <1>1 DEF Back, RowSet
  <2>2. BackRow(w, i, b[2][i], q[i])
    <3>1. CASE i \in d.u.created
      BY <1>2, <2>1, <3>1 DEF BackRow
    <3>2. CASE i \notin d.u.created
      BY <1>2, <1>4, <1>5, <1>8, <1>9, <2>1, <3>2 DEF BackRow
    <3> QED
      BY <3>1, <3>2
  <2>3. ASSUME NEW k \in Ids, k # i
        PROVE  BackRow(w, k, b[2][k], q[k])
    <3>1. BackRow(d.u, k, b[2][k], r[k]) /\ q[k] = r[k]
      BY <1>1, <1>3, <2>3 DEF Back
    <3>2. \A x : <<k, x>> \in w.bot <=> <<k, x>> \in d.u.bot
      BY <1>2, <2>3
    <3> QED
      BY <1>2, <3>1, <3>2 DEF BackRow
  <2> QED
    BY <2>2, <2>3
<1>11. \A a \in Accounts : BackClient(w, a, b[1][a], p[a])
  BY <1>1, <1>2 DEF Back, BackClient
<1>12. Back(w, b, p, q)
  BY <1>1, <1>10, <1>11 DEF Back
<1>13. ToBot(After(d, w), b, p, q)
  <2>1. \A k \in d.u.created : /\ q[k] # None => p[q[k].acct] # None
                               /\ d.B[k] # None => p[d.B[k].acct] # None
    BY <1>1, <1>3, <1>4, <1>5, <1>8 DEF ToBot, Alike, Back, Snapshots
  <2>2. \A k \in Ids : q[k] # None /\ d.B[k] # None =>
          q[k] = d.B[k] \/ d.B[k].acct \notin d.todo
    <3>1. d.B[i].acct \notin d.todo
      BY <1>1
    <3> QED
      BY <1>1, <1>3, <3>1 DEF ToBot, Left
  <2> QED
    BY <1>1, <1>2, <2>1, <2>2, AfterIs DEF ToBot
<1>14. Runs(After(d, w), b, p, q)
  BY <1>1, <1>12, <1>13, AfterIs DEF Runs, At
<1> QED
  BY <1>14

(* A client that gets another value had the one that is noted.             *)
LEMMA FieldsToPanelRuns ==
  ASSUME NEW d, NEW b, NEW p, NEW r, At(d, b, p, r, "fields"), d.dir # "panel_to_bot",
         NEW a, a = d.item[1], NEW v \in Values,
         NEW w, \/ d.item[2] = v /\ w = d.u
                \/ d.item[2] # v /\ w = [d.u EXCEPT !.pan = @ \cup {<<a, d.item[2]>>}],
         NEW q, q = p \/ q = [p EXCEPT ![a] = IF @ = None THEN @ ELSE v]
  PROVE  Runs(After(d, w), b, q, r)
<1>1. /\ d \in Syncs /\ d.u \in Snapshots /\ d.item # None /\ d.at = "fields"
      /\ a \in Accounts /\ d.item[2] \in Values /\ a \notin d.todo
      /\ p \in [Accounts -> Values \cup {None}]
      /\ Back(d.u, b, p, r) /\ ToPanel(d, b, p, r)
  BY AtIs
<1>2. /\ w.created = d.u.created /\ w.deleted = d.u.deleted /\ w.made = d.u.made
      /\ w.gone = d.u.gone /\ w.bot = d.u.bot
      /\ w.pan = IF d.item[2] = v THEN d.u.pan ELSE d.u.pan \cup {<<a, d.item[2]>>}
  BY <1>1 DEF Snapshots
<1>3. p[a] = d.item[2] /\ p[a] # None /\ a \in Left(d)
  BY <1>1, NoneAssumption DEF ToPanel, Left
<1>4. q[a] \in {p[a], v} /\ \A c \in Accounts : c # a => q[c] = p[c]
  BY <1>1
<1>5. \A x \in Values : <<a, x>> \notin d.u.pan
  BY <1>1, <1>3 DEF ToPanel
<1>6. \A c \in Accounts : BackClient(w, c, b[1][c], q[c])
  <2>1. BackClient(d.u, a, b[1][a], p[a])
    BY <1>1 DEF Back
  <2>2. BackClient(w, a, b[1][a], q[a])
    <3>1. CASE a \in d.u.made
      BY <1>2, <2>1, <3>1 DEF BackClient
    <3>2. CASE a \notin d.u.made
      <4>1. b[1][a] = p[a]
        BY <1>3, <1>5, <2>1, <3>2 DEF BackClient
      <4>2. v # None
        BY NoneAssumption
      <4> QED
        BY <1>1, <1>2, <1>3, <1>4, <2>1, <3>2, <4>1, <4>2 DEF BackClient
    <3> QED
      BY <3>1, <3>2
  <2>3. ASSUME NEW c \in Accounts, c # a
        PROVE  BackClient(w, c, b[1][c], q[c])
    <3>1. BackClient(d.u, c, b[1][c], p[c]) /\ q[c] = p[c]
      BY <1>1, <1>4, <2>3 DEF Back
    <3>2. \A x : <<c, x>> \in w.pan <=> <<c, x>> \in d.u.pan
      BY <1>2, <2>3
    <3> QED
      BY <1>2, <3>1, <3>2 DEF BackClient
  <2> QED
    BY <2>2, <2>3
<1>7. \A i \in Ids : BackRow(w, i, b[2][i], r[i])
  BY <1>1, <1>2 DEF Back, BackRow
<1>8. Back(w, b, q, r)
  BY <1>1, <1>6, <1>7 DEF Back
<1>9. ToPanel(After(d, w), b, q, r)
  <2>1. \A c \in d.todo, x \in Values : <<c, x>> \notin w.pan
    <3>1. \A c \in d.todo, x \in Values : <<c, x>> \notin d.u.pan /\ c # a
      BY <1>1 DEF ToPanel, Left
    <3>2. \A c, x : c # a => (<<c, x>> \in w.pan <=> <<c, x>> \in d.u.pan)
      BY <1>2
    <3> QED
      BY <3>1, <3>2
  <2> QED
    BY <1>1, <1>2, <2>1, AfterIs DEF ToPanel
<1>10. Runs(After(d, w), b, q, r)
  BY <1>1, <1>8, <1>9, AfterIs DEF Runs, At
<1> QED
  BY <1>10

(* The request lists the clients.                                          *)
LEMMA ListedRuns ==
  ASSUME NEW d \in Syncs, NEW b, NEW p, NEW r, <<p, r>> \in Moments, Runs(d, b, p, r),
         d.item = None, d.u.deleted = {}, d.u.gone = {}, NEW next,
         (d.at = "list" /\ next = "rows") \/ (d.at = "relist" /\ next = "rerows"),
         NEW L, \A a \in Accounts : L[a] # None => L[a] = p[a]
  PROVE  Runs([d EXCEPT !.at = next, !.L = L], b, p, r)
<1> DEFINE e == [d EXCEPT !.at = next, !.L = L]
<1>1. /\ e.kind = "sync" /\ e.at = next /\ e.dir = d.dir /\ e.item = None /\ e.L = L
      /\ e.B = d.B /\ e.u = d.u
  BY DEF Syncs
<1>2. Back(d.u, b, p, r) /\ d.u \in Snapshots
  BY DEF Runs, Syncs
<1> HIDE DEF e
<1>3. ASSUME d.at = "list"
      PROVE  Runs(e, b, p, r)
  <2>1. d.u = Blank /\ b = <<p, r>>
    BY <1>3 DEF Runs
  <2> QED
    BY <1>1, <1>2, <1>3, <2>1 DEF Runs
<1>4. ASSUME d.at = "relist" /\ d.dir = "panel_to_bot"
      PROVE  Runs(e, b, p, r)
  <2>1. ToBot(d, b, p, r)
    BY <1>4 DEF Runs
  <2>2. ToBot(e, b, p, r)
    BY <1>1, <1>4, <2>1 DEF ToBot
  <2> QED
    BY <1>1, <1>2, <1>4, <2>2 DEF Runs
<1>5. ASSUME d.at = "relist" /\ d.dir # "panel_to_bot"
      PROVE  Runs(e, b, p, r)
  <2>1. ToPanel(d, b, p, r)
    BY <1>5 DEF Runs
  <2>2. \A a \in Accounts : p[a] = b[1][a] \/ a \in d.u.made
    BY <1>2, <1>5, <2>1 DEF Back, BackClient, ToPanel
  <2>3. ToPanel(e, b, p, r)
    BY <1>1, <1>5, <2>1, <2>2 DEF ToPanel
  <2> QED
    BY <1>1, <1>2, <1>5, <2>3 DEF Runs
<1>6. Runs(e, b, p, r)
  BY <1>3, <1>4, <1>5
<1> QED
  BY <1>6 DEF e

(* The request lists the rows.                                             *)
LEMMA ListedRowsRuns ==
  ASSUME NEW d \in Syncs, NEW b, NEW p, NEW r, <<p, r>> \in Moments, Runs(d, b, p, r),
         d.item = None, d.u.deleted = {}, d.u.gone = {}, NEW phase,
         (d.at = "rows" /\ phase = "new") \/ (d.at = "rerows" /\ phase = "del"), NEW T
  PROVE  Runs([d EXCEPT !.at = phase, !.B = r, !.todo = T], b, p, r)
<1> DEFINE e == [d EXCEPT !.at = phase, !.B = r, !.todo = T]
<1>1. /\ e.kind = "sync" /\ e.at = phase /\ e.dir = d.dir /\ e.item = None /\ e.L = d.L
      /\ e.B = r /\ e.u = d.u
  BY DEF Syncs
<1>2. Back(d.u, b, p, r) /\ d.u \in Snapshots
  BY DEF Runs, Syncs
<1> HIDE DEF e
<1>3. ASSUME d.at = "rows"
      PROVE  Runs(e, b, p, r)
  <2>1. d.u = Blank /\ \A a \in Accounts : d.L[a] # None => p[a] = d.L[a]
    BY <1>3 DEF Runs
  <2>2. ToBot(e, b, p, r) /\ ToPanel(e, b, p, r)
    BY <1>1, <1>3, <2>1 DEF ToBot, ToPanel, Blank
  <2> QED
    BY <1>1, <1>2, <1>3, <2>2 DEF Runs
<1>4. ASSUME d.at = "rerows" /\ d.dir = "panel_to_bot"
      PROVE  Runs(e, b, p, r)
  <2>1. ToBot(d, b, p, r)
    BY <1>4 DEF Runs
  <2>2. \A i \in Ids : r[i] = b[2][i] \/ i \in d.u.created
    BY <1>2, <1>4, <2>1 DEF Back, BackRow, ToBot
  <2>3. ToBot(e, b, p, r)
    BY <1>1, <1>4, <2>1, <2>2 DEF ToBot
  <2> QED
    BY <1>1, <1>2, <1>4, <2>3 DEF Runs
<1>5. ASSUME d.at = "rerows" /\ d.dir # "panel_to_bot"
      PROVE  Runs(e, b, p, r)
  <2>1. ToPanel(d, b, p, r)
    BY <1>5 DEF Runs
  <2>2. ToPanel(e, b, p, r)
    BY <1>1, <1>5, <2>1 DEF ToPanel
  <2> QED
    BY <1>1, <1>2, <1>5, <2>2 DEF Runs
<1>6. Runs(e, b, p, r)
  BY <1>3, <1>4, <1>5
<1> QED
  BY <1>6 DEF e

(* The request looks at an account and passes it over, or puts it down.    *)
LEMMA LookedRuns ==
  ASSUME NEW d \in Syncs, NEW b, NEW p, NEW r, Runs(d, b, p, r), d.item = None,
         NEW phase \in Phases, d.at = phase, NEW a \in d.todo, NEW v,
         phase = "del" /\ d.dir = "panel_to_bot" => p[a] = None,
         phase = "del" /\ d.dir # "panel_to_bot" => v = d.L[a],
         phase = "fields" /\ d.dir # "panel_to_bot" => p[a] = v
  PROVE  Runs([[d EXCEPT !.todo = @ \ {a}] EXCEPT !.item = <<a, v>>], b, p, r)
<1> DEFINE e == [[d EXCEPT !.todo = @ \ {a}] EXCEPT !.item = <<a, v>>]
<1>1. /\ e.kind = "sync" /\ e.at = phase /\ e.dir = d.dir /\ e.item = <<a, v>> /\ e.L = d.L
      /\ e.B = d.B /\ e.u = d.u /\ e.todo = d.todo \ {a}
  BY DEF Syncs
<1>2. Left(e) \subseteq d.todo /\ Left(d) = d.todo
  BY <1>1 DEF Left
<1> HIDE DEF e
<1>3. Runs(e, b, p, r)
  <2>1. d.at \notin {"list", "rows"}
    BY DEF Phases
  <2>2. e.item[1] = a /\ e.item[2] = v
    BY <1>1
  <2>3. ToBot(d, b, p, r) /\ d.dir = "panel_to_bot" => ToBot(e, b, p, r)
    BY <1>1, <1>2, <2>2 DEF ToBot
  <2>4. ToPanel(d, b, p, r) /\ d.dir # "panel_to_bot" => ToPanel(e, b, p, r)
    BY <1>1, <1>2, <2>2 DEF ToPanel
  <2> QED
    BY <1>1, <2>1, <2>2, <2>3, <2>4 DEF Runs
<1> QED
  BY <1>3 DEF e

LEMMA PassedRuns ==
  ASSUME NEW d \in Syncs, NEW b, NEW p, NEW r, Runs(d, b, p, r), d.item = None,
         d.at \in Phases, NEW a
  PROVE  Runs([d EXCEPT !.todo = @ \ {a}], b, p, r)
<1> DEFINE e == [d EXCEPT !.todo = @ \ {a}]
<1>1. /\ e.kind = "sync" /\ e.at = d.at /\ e.dir = d.dir /\ e.item = None /\ e.L = d.L
      /\ e.B = d.B /\ e.u = d.u /\ e.todo = d.todo \ {a}
  BY DEF Syncs
<1>2. Left(e) \subseteq Left(d)
  BY <1>1 DEF Left
<1> HIDE DEF e
<1>3. ToBot(d, b, p, r) => ToBot(e, b, p, r)
  BY <1>1, <1>2 DEF ToBot
<1>4. ToPanel(d, b, p, r) => ToPanel(e, b, p, r)
  BY <1>1, <1>2 DEF ToPanel
<1>5. Runs(e, b, p, r)
  BY <1>1, <1>3, <1>4 DEF Runs, Phases
<1> QED
  BY <1>5 DEF e

(* A phase ends.                                                           *)
LEMMA EndedRuns ==
  ASSUME NEW d \in Syncs, NEW b, NEW p, NEW r, Runs(d, b, p, r), d.item = None,
         NEW next, NEW T,
         \/ d.at = "new" /\ next = "relist"
         \/ d.at = "del" /\ next = "fields"
         \/ d.at = "fields" /\ next = "store"
  PROVE  Runs([d EXCEPT !.at = next, !.todo = T], b, p, r)
<1> DEFINE e == [d EXCEPT !.at = next, !.todo = T]
<1>1. /\ e.kind = "sync" /\ e.at = next /\ e.dir = d.dir /\ e.item = None /\ e.L = d.L
      /\ e.B = d.B /\ e.u = d.u
  BY DEF Syncs
<1> HIDE DEF e
<1>3. ToBot(d, b, p, r) => ToBot(e, b, p, r)
  BY <1>1 DEF ToBot
<1>4. ToPanel(d, b, p, r) => ToPanel(e, b, p, r)
  BY <1>1 DEF ToPanel
<1>5. Runs(e, b, p, r)
  BY <1>1, <1>3, <1>4 DEF Runs
<1> QED
  BY <1>5 DEF e

-----------------------------------------------------------------------------
(* Steps of a synchronisation.                                             *)

LEMMA RunsAlone ==
  ASSUME Running, before # None, NEW j \in Jobs, job[j] # None
  PROVE  Alone(j) /\ Runs(job[j], before, panel, rows)
BY DEF Running, Alone

LEMMA NowTyped ==
  ASSUME IInv
  PROVE  <<panel, rows>> \in Moments
BY TypesKnown DEF Moments

(* A synchronisation that goes on keeps the invariant when its notes still *)
(* lead back.                                                              *)
LEMMA GoingOn ==
  ASSUME IInv, UInv, NEW j \in Jobs, NEW e, job[j] # None, job[j].kind = "sync",
         e # None, job' = [job EXCEPT ![j] = e], UNCHANGED <<snapshot, before, base, exact>>,
         Alone(j) /\ Runs(job[j], before, panel, rows) => Runs(e, before, panel', rows')
  PROVE  UInv'
<1>1. \A i \in Jobs : job'[i] = IF i = j THEN e ELSE job[i]
  BY DEF IInv, TypeInv, Work
<1>2. Running'
  <2> SUFFICES ASSUME before # None
               PROVE  \E i \in Jobs : Alone(i)' /\ Runs(job'[i], before, panel', rows')
    BY DEF Running
  <2>1. Alone(j) /\ Runs(job[j], before, panel, rows)
    BY RunsAlone DEF UInv
  <2>2. Alone(j)' /\ Runs(job'[j], before, panel', rows')
    BY <1>1, <2>1 DEF Alone
  <2> QED
    BY <2>2
<1>3. Exact'
  <2> SUFFICES ASSUME exact
               PROVE  before # None /\ (snapshot # None => Back(snapshot, base, before[1], before[2]))
    BY DEF Exact
  <2> QED
    BY DEF UInv, Exact, Alone, AtRest
<1> QED
  BY <1>2, <1>3 DEF UInv


(* A request ends and the accounts stay as they are.                       *)
LEMMA EndingExact ==
  ASSUME IInv, NEW j \in Jobs, Alone(j), job' = [job EXCEPT ![j] = None],
         UNCHANGED <<panel, rows>>, before' = None,
         exact' /\ snapshot' # None => Back(snapshot', base', panel, rows)
  PROVE  UInv'
<1>1. AtRest'
  BY DEF AtRest, Alone, IInv, TypeInv, Work
<1> QED
  BY <1>1 DEF UInv, Running, Exact

(* A synchronisation that ends without storing its notes, when they are    *)
(* blank, leaves panel and rows as they were.                              *)
LEMMA BlankEnds ==
  ASSUME IInv, UInv, NEW j \in Jobs, job[j] # None, job[j].kind = "sync",
         job' = [job EXCEPT ![j] = None], before' = None,
         UNCHANGED <<panel, rows, snapshot, base>>,
         exact' => exact /\ job[j].u = Blank
  PROVE  UInv'
<1>1. CASE exact'
  <2>1. before # None /\ (snapshot # None => Back(snapshot, base, before[1], before[2]))
    BY <1>1 DEF UInv, Exact, Alone, AtRest
  <2>2. Alone(j) /\ Back(Blank, before, panel, rows)
    BY <1>1, <2>1, RunsAlone DEF UInv, Runs
  <2>3. before = <<panel, rows>>
    BY <2>2, NowTyped, BackFromBlank
  <2> QED
    BY <2>1, <2>2, <2>3, EndingExact
<1>2. CASE ~exact'
  BY <1>2 DEF UInv, Running, Exact
<1> QED
  BY <1>1, <1>2

LEMMA ListLeadsBack ==
  ASSUME IInv, KInv, UInv, NEW j \in Jobs, NEW at, NEW next,
         (at = "list" /\ next = "rows") \/ (at = "relist" /\ next = "rerows"),
         List(j, at, next)
  PROVE  UInv'
<1>1. /\ job[j] # None /\ job[j].kind = "sync" /\ job[j].at = at /\ job[j] \in Syncs
  BY RequestKind DEF List
<1>2. job[j].item = None
  BY <1>1 DEF IInv, TypeInv, Work, Listing, Phases
<1>3. UNCHANGED <<panel, rows, snapshot, base>>
  BY DEF List
<1>4. PICK down \in Downs :
        LET L == Listed(down) IN
        IF Clients(L) = {} THEN End(j) /\ before' = None /\ exact' = (exact /\ job[j].u = Blank)
        ELSE /\ UNCHANGED <<before, exact>>
             /\ Set(j, [job[j] EXCEPT !.at = next, !.L = L])
  BY DEF List
<1> DEFINE L == Listed(down)
           e == [job[j] EXCEPT !.at = next, !.L = L]
<1>5. /\ L \in [Accounts -> Values \cup {None}]
      /\ \A a \in Accounts : L[a] # None => L[a] = panel[a]
  BY TypesKnown DEF Listed
<1> HIDE DEF L
<1>8. CASE job' = [job EXCEPT ![j] = e] /\ UNCHANGED <<before, exact>>
  <2>1. e \in Syncs
    BY <1>1, <1>5 DEF Syncs
  <2>2. e # None
    BY <2>1, NoneAssumption DEF Asked
  <2>3. job[j].u.deleted = {} /\ job[j].u.gone = {}
    BY <1>1 DEF KInv, Early, Making
  <2>4. Runs(job[j], before, panel, rows) => Runs(e, before, panel, rows)
    BY <1>1, <1>2, <1>5, <2>3, NowTyped, ListedRuns
  <2> HIDE DEF e
  <2>5. Runs(job[j], before, panel, rows) => Runs(e, before, panel', rows')
    BY <1>3, <2>4
  <2> QED
    BY <1>1, <1>3, <1>8, <2>2, <2>5, GoingOn
<1>9. CASE End(j) /\ before' = None /\ exact' = (exact /\ job[j].u = Blank)
  <2>1. job' = [job EXCEPT ![j] = None]
    BY <1>9 DEF End
  <2> QED
    BY <1>1, <1>3, <1>9, <2>1, BlankEnds
<1> QED
  BY <1>4, <1>8, <1>9 DEF Set, L

LEMMA ListRowsLeadsBack ==
  ASSUME IInv, KInv, UInv, NEW j \in Jobs, NEW at, NEW phase,
         (at = "rows" /\ phase = "new") \/ (at = "rerows" /\ phase = "del"),
         ListRows(j, at, phase)
  PROVE  UInv'
<1>1. /\ job[j] # None /\ job[j].kind = "sync" /\ job[j].at = at /\ job[j] \in Syncs
  BY RequestKind DEF ListRows
<1>2. job[j].item = None /\ job[j].u.deleted = {} /\ job[j].u.gone = {}
  BY <1>1 DEF IInv, TypeInv, Work, Listing, Phases, KInv, Early, Making
<1> DEFINE T == Selected(j, phase, Todo(phase, job[j].dir, job[j].L, rows))
           e == [job[j] EXCEPT !.at = phase, !.B = rows, !.todo = T]
<1>3. UNCHANGED <<panel, rows, snapshot, before, base, exact>> /\ job' = [job EXCEPT ![j] = e]
  BY DEF ListRows, ghosts, Set
<1>4. rows \in [Ids -> RowSet \cup {None}]
  BY TypesKnown
<1>5. T \subseteq Accounts
  BY <1>1, <1>4, NoneAssumption DEF Selected, Todo, Clients, Live, RowSet
<1> HIDE DEF T
<1>6. e \in Syncs
  BY <1>1, <1>4, <1>5 DEF Syncs, Phases
<1>7. e # None
  BY <1>6, NoneAssumption DEF Asked
<1>8. Runs(job[j], before, panel, rows) => Runs(e, before, panel, rows)
  BY <1>1, <1>2, NowTyped, ListedRowsRuns
<1> HIDE DEF e
<1>9. Runs(job[j], before, panel, rows) => Runs(e, before, panel', rows')
  BY <1>3, <1>8
<1> QED
  BY <1>1, <1>3, <1>7, <1>9, GoingOn

LEMMA LookLeadsBack ==
  ASSUME IInv, UInv, Watch, NEW j \in Jobs, NEW phase \in Phases, Look(j, phase)
  PROVE  UInv'
<1>1. /\ job[j] # None /\ job[j].kind = "sync" /\ job[j].at = phase /\ job[j] \in Syncs
      /\ job[j].item = None
  BY RequestKind DEF Look
<1>2. UNCHANGED <<panel, rows, snapshot, before, base, exact>>
  BY DEF Look, ghosts
<1>3. PICK a \in First(job[j].todo) :
        LET toBot == job[j].dir = "panel_to_bot"
            rest == [job[j] EXCEPT !.todo = @ \ {a}]
        IN \/ job' = [job EXCEPT ![j] = rest]
           \/ \E v : /\ job' = [job EXCEPT ![j] = [rest EXCEPT !.item = <<a, v>>]]
                     /\ phase = "del" /\ toBot => panel[a] = None
                     /\ phase = "del" /\ ~toBot => v = job[j].L[a]
                     /\ phase = "fields" /\ ~toBot => panel[a] = v
  <2>1. PICK a \in First(job[j].todo) :
          LET toBot == job[j].dir = "panel_to_bot"
              rest == [job[j] EXCEPT !.todo = @ \ {a}]
              go(v) == Set(j, [rest EXCEPT !.item = <<a, v>>])
          IN CASE phase = "new" /\ toBot ->
                    IF Named(rows, a) # {} THEN Set(j, rest)
                    ELSE go(IF panel[a] = None THEN job[j].L[a] ELSE panel[a])
               [] phase = "new" /\ ~toBot ->
                    IF Missing(a) THEN go(job[j].B[Sub(j, a)].val) ELSE Set(j, rest)
               [] phase = "del" /\ toBot ->
                    IF Missing(a) THEN go(job[j].B[Sub(j, a)].val) ELSE Set(j, rest)
               [] phase = "del" /\ ~toBot -> go(job[j].L[a])
               [] phase = "fields" /\ toBot ->
                    go(IF panel[a] = None THEN job[j].L[a] ELSE panel[a])
               [] phase = "fields" /\ ~toBot ->
                    IF panel[a] = None THEN Set(j, rest) ELSE go(panel[a])
    BY DEF Look
  <2>2. CASE phase = "new"
    BY <2>1, <2>2 DEF Set, Missing
  <2>3. CASE phase = "del"
    BY <2>1, <2>3 DEF Set, Missing
  <2>4. CASE phase = "fields"
    BY <2>1, <2>4 DEF Set, Missing
  <2> QED
    BY <2>2, <2>3, <2>4 DEF Phases
<1>4. a \in job[j].todo
  BY DEF First
<1>5. PICK g : Becomes(j, g) /\ GoesOn(j, g, phase)
  BY LookBecomes
<1>6. job' = [job EXCEPT ![j] = g] /\ g # None
  BY <1>5, NoneAssumption DEF Becomes, GoesOn, Asked
<1> DEFINE rest == [job[j] EXCEPT !.todo = @ \ {a}]
<1>7. PICK e : job' = [job EXCEPT ![j] = e] /\
                (Runs(job[j], before, panel, rows) => Runs(e, before, panel, rows))
  <2>1. CASE job' = [job EXCEPT ![j] = rest]
    <3>1. Runs(job[j], before, panel, rows) => Runs(rest, before, panel, rows)
      BY <1>1, PassedRuns
    <3> QED
      BY <2>1, <3>1
  <2>2. ASSUME NEW v, job' = [job EXCEPT ![j] = [rest EXCEPT !.item = <<a, v>>]],
               phase = "del" /\ job[j].dir = "panel_to_bot" => panel[a] = None,
               phase = "del" /\ job[j].dir # "panel_to_bot" => v = job[j].L[a],
               phase = "fields" /\ job[j].dir # "panel_to_bot" => panel[a] = v
        PROVE  \E e : job' = [job EXCEPT ![j] = e] /\
                 (Runs(job[j], before, panel, rows) => Runs(e, before, panel, rows))
    <3> DEFINE e == [rest EXCEPT !.item = <<a, v>>]
    <3>1. Runs(job[j], before, panel, rows) => Runs(e, before, panel, rows)
      BY <1>1, <1>4, <2>2, LookedRuns
    <3> HIDE DEF e
    <3>2. job' = [job EXCEPT ![j] = e]
      BY <2>2 DEF e
    <3> QED
      BY <3>1, <3>2
  <2> QED
    BY <1>3, <2>1, <2>2
<1>8. e # None
  BY <1>6, <1>7 DEF IInv, TypeInv, Work
<1>9. Runs(job[j], before, panel, rows) => Runs(e, before, panel', rows')
  BY <1>2, <1>7
<1> QED
  BY <1>1, <1>2, <1>7, <1>8, <1>9, GoingOn

LEMMA PhaseEndLeadsBack ==
  ASSUME IInv, UInv, NEW j \in Jobs, NEW phase \in Phases, NEW next,
         \/ phase = "new" /\ next = "relist"
         \/ phase = "del" /\ next = "fields"
         \/ phase = "fields" /\ next = "store",
         PhaseEnds(j, phase, next), Watch
  PROVE  UInv'
<1> DEFINE T == IF next # "fields" THEN {}
                ELSE Selected(j, next, Todo(next, job[j].dir, job[j].L, job[j].B))
           e == [job[j] EXCEPT !.at = next, !.todo = T]
<1>1. /\ job[j] # None /\ job[j].kind = "sync" /\ job[j].at = phase /\ job[j] \in Syncs
      /\ job[j].item = None
  BY RequestKind DEF PhaseEnds
<1>2. UNCHANGED <<panel, rows, snapshot, before, base, exact>> /\ job' = [job EXCEPT ![j] = e]
  BY DEF PhaseEnds, ghosts, Set
<1>3. PICK g : Becomes(j, g) /\ GoesOn(j, g, next)
  BY PhaseEndBecomes
<1>4. job' = [job EXCEPT ![j] = g] /\ g # None
  BY <1>3, NoneAssumption DEF Becomes, GoesOn, Asked
<1>5. Runs(job[j], before, panel, rows) => Runs(e, before, panel, rows)
  <2> HIDE DEF T
  <2> QED
    BY <1>1, EndedRuns
<1> HIDE DEF e
<1>6. e # None
  BY <1>2, <1>4 DEF IInv, TypeInv, Work
<1>7. Runs(job[j], before, panel, rows) => Runs(e, before, panel', rows')
  BY <1>2, <1>5
<1> QED
  BY <1>1, <1>2, <1>6, <1>7, GoingOn


LEMMA DoneLeadsBack ==
  ASSUME IInv, UInv, NEW j \in Jobs, NEW phase \in Phases, Is(j, "sync", phase),
         NEW w \in Snapshots, Done(j, w), UNCHANGED <<snapshot, before, base, exact>>,
         Runs(job[j], before, panel, rows) =>
           Runs(After(job[j], w), before, panel', rows')
  PROVE  UInv'
<1>1. job[j] # None /\ job[j].kind = "sync" /\ job[j] \in Syncs
  BY RequestKind
<1>2. job' = [job EXCEPT ![j] = After(job[j], w)]
  BY DEF Done, Set, After
<1>3. After(job[j], w) \in Syncs
  BY <1>1 DEF After, Syncs
<1>4. After(job[j], w) # None
  BY <1>3, NoneAssumption DEF Asked
<1> QED
  BY <1>1, <1>2, <1>4, GoingOn

LEMMA MakeLeadsBack ==
  ASSUME IInv, KInv, UInv, NEW j \in Jobs, NEW phase \in Phases,
         Make(j, phase) \/ Skip(j, phase), UNCHANGED <<before, exact>>
  PROVE  UInv'
<1> DEFINE d == job[j]
           a == d.item[1]
           v == d.item[2]
           i == Sub(j, a)
<1>1. Is(j, "sync", phase) /\ d.item # None /\ UNCHANGED <<snapshot, before, base, exact>>
  BY DEF Make, Skip, ghosts
<1>2. /\ d # None /\ d.kind = "sync" /\ d \in Syncs /\ d.at = phase /\ d.u \in Snapshots
      /\ a \in Todo(phase, d.dir, d.L, d.B) /\ a \in Accounts /\ v \in Values
  BY <1>1, InPhase DEF Syncs, Is
<1>3. Runs(d, before, panel, rows) => At(d, before, panel, rows, phase)
  BY <1>1, <1>2, NowTyped DEF At
<1>4. Skip(j, phase) => UNCHANGED <<panel, rows>>
  BY DEF Skip
<1>5. Noted(j, phase, a, v) \in Snapshots
  BY <1>1, <1>2, NotedFromList DEF FromList
<1>6. phase = "new" => d.u.deleted = {} /\ d.u.gone = {}
  BY <1>2 DEF KInv, Early, Making
<1>7. /\ \/ phase = "new" /\ d.dir = "panel_to_bot"
         \/ phase = "del" /\ d.dir # "panel_to_bot"
         \/ i \in Ids /\ d.B[i] \in RowSet /\ d.B[i].acct = a
      /\ \/ phase = "new" /\ d.dir # "panel_to_bot"
         \/ phase = "del" /\ d.dir = "panel_to_bot"
         \/ d.L[a] \in Values
  BY <1>2, OnList
<1>8. CASE phase = "new" /\ Skip(j, phase)
  <2>1. Done(j, d.u)
    BY <1>8 DEF Skip, Noted
  <2>2. Runs(d, before, panel, rows) => Runs(After(d, d.u), before, panel, rows)
    <3> SUFFICES ASSUME Runs(d, before, panel, rows)
                 PROVE  Runs(After(d, d.u), before, panel, rows)
      OBVIOUS
    <3>1. ToBot(d, before, panel, rows) => ToBot(After(d, d.u), before, panel, rows)
      BY <1>2, <1>8, AfterIs DEF ToBot
    <3>2. ToPanel(d, before, panel, rows) => ToPanel(After(d, d.u), before, panel, rows)
      BY <1>2, <1>8, AfterIs DEF ToPanel
    <3> QED
      BY <1>2, <1>8, <3>1, <3>2, AfterIs DEF Runs
  <2> HIDE DEF d
  <2>3. Runs(d, before, panel, rows) => Runs(After(d, d.u), before, panel', rows')
    BY <1>4, <1>8, <2>2
  <2> QED
    BY <1>1, <1>2, <2>1, <2>3, DoneLeadsBack DEF d
<1>9. CASE phase = "new" /\ Make(j, phase) /\ d.dir = "panel_to_bot"
  <2> DEFINE n == NextId
             s == [acct |-> a, val |-> v, code |-> n]
             w == [d.u EXCEPT !.created = @ \cup {n}]
  <2>1. ImportClient(j, a, v)
    BY <1>9 DEF Make
  <2>2. /\ n \in fresh /\ rows' = [rows EXCEPT ![n] = s] /\ panel' = panel /\ Done(j, w)
    BY <2>1 DEF ImportClient, Insert, NextId
  <2>3. n \in Ids /\ rows[n] = None /\ s \in RowSet /\ s.acct = a
    BY <1>2, <2>2, TypesKnown DEF RowSet
  <2>4. d.B[n] = None
    <3>1. d.B[n] \in RowSet => Recalls(n, d.B[n])
      BY <1>2 DEF Recalls, RecalledBy
    <3>2. d.B[n] \in RowSet \cup {None}
      BY <1>2, <2>3 DEF Syncs
    <3> QED
      BY <2>2, <2>3, <3>1, <3>2 DEF IInv, CodeInv, Given
  <2>5. w \in Snapshots
    BY <1>2, <2>3 DEF Snapshots
  <2>6. ASSUME At(d, before, panel, rows, "new")
        PROVE  Runs(After(d, w), before, panel, rows')
    <3>1. ToBot(d, before, panel, rows)
      BY <1>9, <2>6, AtIs
    <3>2. panel[a] # None
      BY <1>2, <1>7, <1>9, <3>1, NoneAssumption DEF ToBot
    <3> HIDE DEF d, a, v, n, s
    <3> QED
      BY <1>6, <1>9, <2>2, <2>3, <2>4, <2>6, <3>2, ImportRuns
  <2> HIDE DEF d, w
  <2>7. Runs(d, before, panel, rows) => Runs(After(d, w), before, panel', rows')
    BY <1>3, <1>9, <2>2, <2>6
  <2> QED
    BY <1>1, <2>2, <2>5, <2>7, DoneLeadsBack DEF d
<1>10. CASE phase = "new" /\ Make(j, phase) /\ d.dir # "panel_to_bot"
  <2> DEFINE w == IF panel[a] = None THEN [d.u EXCEPT !.made = @ \cup {a}] ELSE d.u
  <2>1. AddClient(j, a, v)
    BY <1>10 DEF Make
  <2>2. /\ panel' = [panel EXCEPT ![a] = IF @ = None THEN v ELSE @] /\ rows' = rows
        /\ Done(j, w)
    BY <2>1 DEF AddClient
  <2>3. w \in Snapshots
    BY <1>2 DEF Snapshots
  <2>4. ASSUME At(d, before, panel, rows, "new")
        PROVE  Runs(After(d, w), before, panel', rows)
    <3>1. ToPanel(d, before, panel, rows) /\ panel \in [Accounts -> Values \cup {None}]
      BY <1>10, <2>4, AtIs
    <3>2. \E k \in Ids : rows[k] # None /\ rows[k].acct = a
      BY <1>7, <1>10, <3>1, NoneAssumption DEF ToPanel
    <3> HIDE DEF d, a, v
    <3>3. CASE panel[a] = None
      <4>1. panel' = [panel EXCEPT ![a] = v]
        BY <1>2, <2>2, <3>1, <3>3
      <4>2. Runs(After(d, [d.u EXCEPT !.made = @ \cup {a}]), before, [panel EXCEPT ![a] = v], rows)
        BY <1>2, <1>6, <1>10, <2>4, <3>2, <3>3, AddRuns
      <4> QED
        BY <3>3, <4>1, <4>2
    <3>4. CASE panel[a] # None
      <4>1. panel' = panel /\ w = d.u
        BY <1>2, <2>2, <3>1, <3>4
      <4> HIDE DEF w
      <4>2. ToPanel(After(d, d.u), before, panel, rows)
        BY <1>2, <1>10, <3>1, AfterIs DEF ToPanel
      <4>3. Runs(After(d, d.u), before, panel, rows)
        BY <1>2, <1>10, <2>4, <4>2, AfterIs DEF Runs, At
      <4> QED
        BY <4>1, <4>3
    <3> QED
      BY <3>3, <3>4
  <2> HIDE DEF d, w
  <2>5. Runs(d, before, panel, rows) => Runs(After(d, w), before, panel', rows')
    BY <1>3, <1>10, <2>2, <2>4
  <2> QED
    BY <1>1, <2>2, <2>3, <2>5, DoneLeadsBack DEF d
<1>11. CASE phase = "del" /\ d.dir = "panel_to_bot"
  <2> DEFINE w == [d.u EXCEPT !.deleted = @ \cup {<<i, d.B[i]>>}]
  <2>1. w = Noted(j, phase, a, v)
    BY <1>11 DEF Noted
  <2>2. /\ rows' = rows \/ rows' = [rows EXCEPT ![i] = None]
        /\ panel' = panel /\ Done(j, w)
    BY <1>4, <1>11, <2>1 DEF Make, DropRow, Skip
  <2>3. ASSUME At(d, before, panel, rows, "del")
        PROVE  Runs(After(d, w), before, panel, rows')
    <3> HIDE DEF d, a, i
    <3> QED
      BY <1>7, <1>11, <2>2, <2>3, DropRowRuns DEF a
  <2> HIDE DEF d, w
  <2>4. Runs(d, before, panel, rows) => Runs(After(d, w), before, panel', rows')
    BY <1>3, <1>11, <2>2, <2>3
  <2> QED
    BY <1>1, <1>5, <2>1, <2>2, <2>4, DoneLeadsBack DEF d
<1>12. CASE phase = "del" /\ d.dir # "panel_to_bot"
  <2> DEFINE w == [d.u EXCEPT !.gone = @ \cup {<<a, d.item[2]>>}]
  <2>1. w = Noted(j, phase, a, v)
    BY <1>12 DEF Noted
  <2>2. /\ panel' = panel \/ panel' = [panel EXCEPT ![a] = None]
        /\ rows' = rows /\ Done(j, w)
    BY <1>4, <1>12, <2>1 DEF Make, DropClient, Skip
  <2>3. \A k \in Ids : d.B[k] # None => d.B[k].acct # a
    BY <1>2, <1>12 DEF Todo, Live
  <2>4. ASSUME At(d, before, panel, rows, "del")
        PROVE  Runs(After(d, w), before, panel', rows)
    <3>1. ToPanel(d, before, panel, rows)
      BY <1>12, <2>4, AtIs
    <3>2. \A k \in Ids : rows[k] # None => rows[k].acct # a
      BY <2>3, <3>1 DEF ToPanel
    <3>3. d.L[a] # None
      BY <1>7, <1>12, NoneAssumption
    <3> HIDE DEF d, a
    <3> QED
      BY <1>12, <2>2, <2>4, <3>2, <3>3, DropClientRuns DEF a
  <2> HIDE DEF d, w
  <2>5. Runs(d, before, panel, rows) => Runs(After(d, w), before, panel', rows')
    BY <1>3, <1>12, <2>2, <2>4
  <2> QED
    BY <1>1, <1>5, <2>1, <2>2, <2>5, DoneLeadsBack DEF d
<1>13. CASE phase = "fields" /\ d.dir = "panel_to_bot"
  <2> DEFINE w == Noted(j, phase, a, v)
  <2>1. \/ v = d.B[i].val /\ w = d.u
        \/ v # d.B[i].val /\ w = [d.u EXCEPT !.bot = @ \cup {<<i, d.B[i].val>>}]
    BY <1>13 DEF Noted
  <2> HIDE DEF w
  <2>2. /\ \/ rows' = rows
           \/ rows' = [rows EXCEPT ![i] = IF @ = None THEN @ ELSE [@ EXCEPT !.val = v]]
        /\ panel' = panel /\ Done(j, w)
    BY <1>4, <1>13 DEF Make, FieldsToBot, Skip, w
  <2>3. ASSUME At(d, before, panel, rows, "fields")
        PROVE  Runs(After(d, w), before, panel, rows')
    <3> HIDE DEF d, a, i, v
    <3> QED
      BY <1>2, <1>7, <1>13, <2>1, <2>2, <2>3, FieldsToBotRuns DEF a
  <2> HIDE DEF d
  <2>4. Runs(d, before, panel, rows) => Runs(After(d, w), before, panel', rows')
    BY <1>3, <1>13, <2>2, <2>3
  <2>5. w \in Snapshots
    BY <1>5 DEF w
  <2> QED
    BY <1>1, <2>2, <2>4, <2>5, DoneLeadsBack DEF d
<1>14. CASE phase = "fields" /\ d.dir # "panel_to_bot"
  <2> DEFINE w == Noted(j, phase, a, v)
             x == d.B[i].val
  <2>1. \/ d.item[2] = x /\ w = d.u
        \/ d.item[2] # x /\ w = [d.u EXCEPT !.pan = @ \cup {<<a, d.item[2]>>}]
    BY <1>14 DEF Noted
  <2> HIDE DEF w
  <2>2. /\ panel' = panel \/ panel' = [panel EXCEPT ![a] = IF @ = None THEN @ ELSE x]
        /\ rows' = rows /\ Done(j, w)
    BY <1>4, <1>14 DEF Make, FieldsToPanel, Skip, w
  <2>3. x \in Values
    BY <1>7, <1>14 DEF RowSet
  <2>4. ASSUME At(d, before, panel, rows, "fields")
        PROVE  Runs(After(d, w), before, panel', rows)
    <3> HIDE DEF d, a, x
    <3> QED
      BY <1>14, <2>1, <2>2, <2>3, <2>4, FieldsToPanelRuns DEF a
  <2> HIDE DEF d
  <2>5. Runs(d, before, panel, rows) => Runs(After(d, w), before, panel', rows')
    BY <1>3, <1>14, <2>2, <2>4
  <2>6. w \in Snapshots
    BY <1>5 DEF w
  <2> QED
    BY <1>1, <2>2, <2>5, <2>6, DoneLeadsBack DEF d
<1> QED
  BY <1>8, <1>9, <1>10, <1>11, <1>12, <1>13, <1>14 DEF Phases


(* The notes become the snapshot, and the moment they lead back to is the  *)
(* one an undo will restore.                                               *)
LEMMA StoreLeadsBack ==
  ASSUME IInv, UInv, NEW j \in Jobs, Store(j)
  PROVE  UInv'
<1>1. /\ job[j] # None /\ job[j].kind = "sync" /\ job[j] \in Syncs
  BY RequestKind DEF Store
<1>2. /\ job' = [job EXCEPT ![j] = None] /\ before' = None /\ UNCHANGED <<panel, rows>>
  BY DEF Store, End
<1>3. CASE job[j].u = Blank
  <2>1. UNCHANGED <<snapshot, base, exact>>
    BY <1>3 DEF Store
  <2> QED
    BY <1>1, <1>2, <1>3, <2>1, BlankEnds
<1>4. CASE job[j].u # Blank
  <2>1. snapshot' = job[j].u /\ base' = before /\ exact' = (before # None)
    BY <1>4 DEF Store
  <2>2. CASE before # None
    <3>1. Alone(j) /\ Back(job[j].u, before, panel, rows)
      BY <1>1, <2>2, RunsAlone DEF UInv, Runs
    <3>2. Back(snapshot', base', panel, rows)
      BY <2>1, <3>1
    <3> QED
      BY <1>2, <3>1, <3>2, EndingExact
  <2>3. CASE before = None
    BY <1>2, <2>1, <2>3 DEF UInv, Running, Exact
  <2> QED
    BY <2>2, <2>3
<1> QED
  BY <1>3, <1>4

(* A synchronisation begins.                                               *)
LEMMA SyncBeginLeadsBack ==
  ASSUME IInv, UInv, NEW j \in Jobs, NEW dir \in Directions, SyncBegin(j, dir)
  PROVE  UInv'
<1>4. PICK opts \in Options :
        Enter(j, [kind |-> "sync", at |-> "list", dir |-> dir, opts |-> opts, todo |-> {},
                  item |-> None, L |-> NoClients, B |-> NoRows, u |-> Blank])
  BY DEF SyncBegin
<1> DEFINE e == [kind |-> "sync", at |-> "list", dir |-> dir, opts |-> opts, todo |-> {},
                 item |-> None, L |-> NoClients, B |-> NoRows, u |-> Blank]
<1>1. /\ job[j] = None /\ job' = [job EXCEPT ![j] = e]
      /\ UNCHANGED <<panel, rows, snapshot, base>>
      /\ exact' = (exact /\ AtRest)
      /\ before' = IF AtRest THEN <<panel, rows>> ELSE None
  BY <1>4 DEF SyncBegin, Enter
<1>2. CASE ~AtRest
  BY <1>1, <1>2 DEF UInv, Running, Exact
<1>3. CASE AtRest
  <2>1. e \in Syncs
    <3>1. NoClients \in [Accounts -> Values \cup {None}] /\ NoRows \in [Ids -> RowSet \cup {None}]
      BY DEF NoClients, NoRows
    <3> QED
      BY <3>1, BlankType DEF Syncs
  <2>2. e # None
    BY <2>1, NoneAssumption DEF Asked
  <2>3. Back(Blank, <<panel, rows>>, panel, rows)
    <3>1. \A i, k \in Ids : rows[i] # None /\ rows[k] # None /\ rows[i].code = rows[k].code => i = k
      BY DEF IInv, CodeInv, Unique, Live
    <3> QED
      BY <3>1, NowTyped, BlankLeadsBack
  <2>4. Runs(e, <<panel, rows>>, panel, rows)
    BY <2>3 DEF Runs
  <2> HIDE DEF e
  <2>5. \A i \in Jobs : job'[i] = IF i = j THEN e ELSE None
    BY <1>1, <1>3 DEF AtRest, IInv, TypeInv, Work
  <2>6. Alone(j)' /\ before' = <<panel, rows>>
    BY <1>1, <1>3, <2>2, <2>5 DEF Alone
  <2>7. Runs(job'[j], before', panel', rows')
    BY <1>1, <2>4, <2>5, <2>6
  <2>8. Running'
    BY <2>6, <2>7 DEF Running
  <2>9. Exact'
    <3>1. exact' /\ snapshot # None => Back(snapshot, base, panel, rows)
      BY <1>1, <1>3 DEF UInv, Running, Exact, AtRest, Alone
    <3>2. before' # None
      BY <2>6, NowTyped, NoneAssumption
    <3>3. exact' /\ snapshot' # None => Back(snapshot', base', before'[1], before'[2])
      BY <1>1, <2>6, <3>1
    <3> QED
      BY <3>2, <3>3 DEF Exact
  <2> QED
    BY <2>8, <2>9 DEF UInv
<1> QED
  BY <1>2, <1>3

(* An undo begins.                                                         *)
LEMMA UndoBeginLeadsBack ==
  ASSUME IInv, UInv, NEW j \in Jobs, UndoBegin(j)
  PROVE  UInv'
<1> DEFINE e == [kind |-> "undo", at |-> "work", u |-> snapshot]
<1>1. /\ job[j] = None /\ snapshot # None /\ job' = [job EXCEPT ![j] = e]
      /\ UNCHANGED <<panel, rows, base>> /\ exact' = (exact /\ AtRest) /\ before' = None
  BY DEF UndoBegin, Enter
<1>2. CASE exact /\ AtRest
  <2>1. e \in Undos
    BY <1>1 DEF Undos, IInv, TypeInv, Tables
  <2>2. e # None
    BY <2>1, NoneAssumption DEF Asked
  <2>3. Back(e.u, base, panel, rows) /\ e.kind = "undo"
    BY <1>1, <1>2 DEF UInv, Running, Exact, AtRest, Alone
  <2> HIDE DEF e
  <2>4. \A i \in Jobs : job'[i] = IF i = j THEN e ELSE None
    BY <1>1, <1>2 DEF AtRest, IInv, TypeInv, Work
  <2>5. Alone(j)' /\ job'[j].kind = "undo"
    BY <2>2, <2>3, <2>4 DEF Alone
  <2>6. Back(job'[j].u, base', panel', rows')
    BY <1>1, <2>3, <2>4
  <2> QED
    BY <1>1, <2>5, <2>6 DEF UInv, Running, Exact
<1>3. CASE ~(exact /\ AtRest)
  BY <1>1, <1>3 DEF UInv, Running, Exact
<1> QED
  BY <1>2, <1>3

-----------------------------------------------------------------------------
(* Steps of an undo.                                                       *)

LEMMA RowsBack ==
  ASSUME NEW u, NEW s, NEW b, NEW p, NEW r, NEW q, Back(u, b, p, r),
         s.made = u.made, s.gone = u.gone, s.pan = u.pan,
         \A i \in Ids : BackRow(s, i, b[2][i], q[i])
  PROVE  Back(s, b, p, q)
BY DEF Back, BackClient

LEMMA ClientsBack ==
  ASSUME NEW u, NEW s, NEW b, NEW p, NEW r, NEW q, Back(u, b, p, r),
         s.created = u.created, s.deleted = u.deleted, s.bot = u.bot,
         \A a \in Accounts : BackClient(s, a, b[1][a], q[a])
  PROVE  Back(s, b, q, r)
BY DEF Back, BackRow

(* What was made is taken away again.                                      *)
LEMMA CreatedUndone ==
  ASSUME NEW u \in Snapshots, NEW b, NEW p, NEW r, <<p, r>> \in Moments, Back(u, b, p, r),
         NEW i \in u.created
  PROVE  Back([u EXCEPT !.created = @ \ {i}], b, p, [r EXCEPT ![i] = None])
<1> DEFINE s == [u EXCEPT !.created = @ \ {i}]
           q == [r EXCEPT ![i] = None]
<1>1. /\ s.created = u.created \ {i} /\ s.deleted = u.deleted /\ s.bot = u.bot
      /\ s.made = u.made /\ s.gone = u.gone /\ s.pan = u.pan /\ i \in Ids
  BY DEF Snapshots
<1>2. q[i] = None /\ \A k \in Ids : k # i => q[k] = r[k]
  BY <1>1 DEF Moments
<1> HIDE DEF s, q
<1>3. \A k \in Ids : BackRow(s, k, b[2][k], q[k])
  BY <1>1, <1>2 DEF Back, BackRow
<1>4. Back(s, b, p, q)
  BY <1>1, <1>3, RowsBack
<1> QED
  BY <1>4 DEF s, q

LEMMA MadeUndone ==
  ASSUME NEW u \in Snapshots, NEW b, NEW p, NEW r, <<p, r>> \in Moments, Back(u, b, p, r),
         NEW a \in u.made
  PROVE  Back([u EXCEPT !.made = @ \ {a}], b, [p EXCEPT ![a] = None], r)
<1> DEFINE s == [u EXCEPT !.made = @ \ {a}]
           q == [p EXCEPT ![a] = None]
<1>1. /\ s.created = u.created /\ s.deleted = u.deleted /\ s.bot = u.bot
      /\ s.made = u.made \ {a} /\ s.gone = u.gone /\ s.pan = u.pan /\ a \in Accounts
  BY DEF Snapshots
<1>2. q[a] = None /\ \A c \in Accounts : c # a => q[c] = p[c]
  BY <1>1 DEF Moments
<1> HIDE DEF s, q
<1>3. \A c \in Accounts : BackClient(s, c, b[1][c], q[c])
  BY <1>1, <1>2 DEF Back, BackClient
<1>4. Back(s, b, q, r)
  BY <1>1, <1>3, ClientsBack
<1> QED
  BY <1>4 DEF s, q

(* A deleted row is put back.  Its code is not in use: what was made since *)
(* is gone, and at the start no other row had it.                          *)
LEMMA DeletedUndone ==
  ASSUME NEW u \in Snapshots, NEW b, NEW p, NEW r, <<p, r>> \in Moments, Back(u, b, p, r),
         u.created = {}, NEW i, NEW row, <<i, row>> \in u.deleted, NEW q,
         q = IF r[i] = None /\ \A k \in Ids : r[k] # None => r[k].code # row.code
             THEN [r EXCEPT ![i] = row] ELSE r
  PROVE  Back([u EXCEPT !.deleted = @ \ {<<i, row>>}], b, p, q)
<1> DEFINE s == [u EXCEPT !.deleted = @ \ {<<i, row>>}]
<1>1. /\ s.created = {} /\ s.deleted = u.deleted \ {<<i, row>>} /\ s.bot = u.bot
      /\ s.made = u.made /\ s.gone = u.gone /\ s.pan = u.pan /\ i \in Ids /\ row \in RowSet
  BY DEF Snapshots
<1>2. r \in [Ids -> RowSet \cup {None}] /\ row # None
  BY <1>1, NoneAssumption DEF Moments
<1>3. b[2][i] = row
  BY <1>1 DEF Back, BackRow
<1>4. r[i] = None => \A k \in Ids : r[k] # None => r[k].code # row.code
  <2> SUFFICES ASSUME r[i] = None, NEW k \in Ids, r[k] # None, r[k].code = row.code
               PROVE  FALSE
    OBVIOUS
  <2>1. b[2][k] # None /\ b[2][k].code = r[k].code
    BY DEF Back, BackRow, Alike
  <2>2. k = i
    BY <1>1, <1>2, <1>3, <2>1 DEF Back
  <2> QED
    BY <2>2
<1>5. q[i] = IF r[i] = None THEN row ELSE r[i]
  BY <1>1, <1>2, <1>4
<1>6. \A k \in Ids : k # i => q[k] = r[k]
  BY <1>1, <1>2
<1> HIDE DEF s
<1>7. \A k \in Ids : BackRow(s, k, b[2][k], q[k])
  <2>1. BackRow(u, i, b[2][i], r[i])
    BY <1>1 DEF Back
  <2>2. BackRow(s, i, b[2][i], q[i])
    BY <1>1, <1>3, <1>5, <2>1 DEF BackRow
  <2>3. ASSUME NEW k \in Ids, k # i
        PROVE  BackRow(s, k, b[2][k], q[k])
    <3>1. BackRow(u, k, b[2][k], r[k]) /\ q[k] = r[k]
      BY <1>6, <2>3 DEF Back
    <3>2. \A x : <<k, x>> \in s.deleted <=> <<k, x>> \in u.deleted
      BY <1>1, <2>3
    <3> QED
      BY <1>1, <3>1, <3>2 DEF BackRow
  <2> QED
    BY <2>2, <2>3
<1>8. Back(s, b, p, q)
  BY <1>1, <1>7, RowsBack
<1> QED
  BY <1>8 DEF s

LEMMA GoneUndone ==
  ASSUME NEW u \in Snapshots, NEW b, NEW p, NEW r, <<p, r>> \in Moments, Back(u, b, p, r),
         u.made = {}, NEW a, NEW v, <<a, v>> \in u.gone
  PROVE  Back([u EXCEPT !.gone = @ \ {<<a, v>>}], b,
              [p EXCEPT ![a] = IF @ = None THEN v ELSE @], r)
<1> DEFINE s == [u EXCEPT !.gone = @ \ {<<a, v>>}]
           q == [p EXCEPT ![a] = IF @ = None THEN v ELSE @]
<1>1. /\ s.created = u.created /\ s.deleted = u.deleted /\ s.bot = u.bot /\ s.made = {}
      /\ s.gone = u.gone \ {<<a, v>>} /\ s.pan = u.pan /\ a \in Accounts /\ v \in Values
  BY DEF Snapshots
<1>2. q[a] = (IF p[a] = None THEN v ELSE p[a]) /\ \A c \in Accounts : c # a => q[c] = p[c]
  BY <1>1 DEF Moments
<1> HIDE DEF s, q
<1>3. \A c \in Accounts : BackClient(s, c, b[1][c], q[c])
  <2>1. BackClient(u, a, b[1][a], p[a]) /\ v # None
    BY <1>1, NoneAssumption DEF Back
  <2>2. BackClient(s, a, b[1][a], q[a])
    BY <1>1, <1>2, <2>1 DEF BackClient
  <2>3. ASSUME NEW c \in Accounts, c # a
        PROVE  BackClient(s, c, b[1][c], q[c])
    <3>1. BackClient(u, c, b[1][c], p[c]) /\ q[c] = p[c]
      BY <1>2, <2>3 DEF Back
    <3>2. \A x : <<c, x>> \in s.gone <=> <<c, x>> \in u.gone
      BY <1>1, <2>3
    <3> QED
      BY <1>1, <3>1, <3>2 DEF BackClient
  <2> QED
    BY <2>2, <2>3
<1>4. Back(s, b, q, r)
  BY <1>1, <1>3, ClientsBack
<1> QED
  BY <1>4 DEF s, q

(* What was changed gets its value back.                                   *)
LEMMA BotUndone ==
  ASSUME NEW u \in Snapshots, NEW b, NEW p, NEW r, <<p, r>> \in Moments, Back(u, b, p, r),
         u.created = {}, u.deleted = {}, NEW i, NEW v, <<i, v>> \in u.bot
  PROVE  Back([u EXCEPT !.bot = @ \ {<<i, v>>}], b, p,
              [r EXCEPT ![i] = IF @ = None THEN @ ELSE [@ EXCEPT !.val = v]])
<1> DEFINE s == [u EXCEPT !.bot = @ \ {<<i, v>>}]
           q == [r EXCEPT ![i] = IF @ = None THEN @ ELSE [@ EXCEPT !.val = v]]
<1>1. /\ s.created = {} /\ s.deleted = {} /\ s.bot = u.bot \ {<<i, v>>}
      /\ s.made = u.made /\ s.gone = u.gone /\ s.pan = u.pan /\ i \in Ids /\ v \in Values
  BY DEF Snapshots
<1>2. r \in [Ids -> RowSet \cup {None}] /\ b[2] \in [Ids -> RowSet \cup {None}]
  BY DEF Moments, Back
<1>3. q[i] = (IF r[i] = None THEN None ELSE [r[i] EXCEPT !.val = v])
  BY <1>1, <1>2
<1>4. \A k \in Ids : k # i => q[k] = r[k]
  BY <1>1, <1>2
<1> HIDE DEF s, q
<1>5. BackRow(u, i, b[2][i], r[i])
  BY <1>1 DEF Back
<1>6. q[i] = b[2][i]
  <2>1. CASE r[i] = None
    BY <1>1, <1>3, <1>5, <2>1 DEF BackRow
  <2>2. CASE r[i] # None
    <3>1. /\ b[2][i] # None /\ b[2][i].val = v /\ Alike(r[i], b[2][i])
      BY <1>1, <1>5, <2>2 DEF BackRow, Alike
    <3>2. b[2][i] \in RowSet /\ r[i] \in RowSet
      BY <1>1, <1>2, <2>2, <3>1
    <3> QED
      BY <1>3, <2>2, <3>1, <3>2 DEF RowSet, Alike
  <2> QED
    BY <2>1, <2>2
<1>7. \A k \in Ids : BackRow(s, k, b[2][k], q[k])
  <2>2. BackRow(s, i, b[2][i], q[i])
    BY <1>1, <1>5, <1>6 DEF BackRow
  <2>3. ASSUME NEW k \in Ids, k # i
        PROVE  BackRow(s, k, b[2][k], q[k])
    <3>1. BackRow(u, k, b[2][k], r[k]) /\ q[k] = r[k]
      BY <1>4, <2>3 DEF Back
    <3>2. \A x : <<k, x>> \in s.bot <=> <<k, x>> \in u.bot
      BY <1>1, <2>3
    <3> QED
      BY <1>1, <3>1, <3>2 DEF BackRow
  <2> QED
    BY <2>2, <2>3
<1>8. Back(s, b, p, q)
  BY <1>1, <1>7, RowsBack
<1> QED
  BY <1>8 DEF s, q

LEMMA PanUndone ==
  ASSUME NEW u \in Snapshots, NEW b, NEW p, NEW r, <<p, r>> \in Moments, Back(u, b, p, r),
         u.made = {}, u.gone = {}, NEW a, NEW v, <<a, v>> \in u.pan
  PROVE  Back([u EXCEPT !.pan = @ \ {<<a, v>>}], b,
              [p EXCEPT ![a] = IF @ = None THEN @ ELSE v], r)
<1> DEFINE s == [u EXCEPT !.pan = @ \ {<<a, v>>}]
           q == [p EXCEPT ![a] = IF @ = None THEN @ ELSE v]
<1>1. /\ s.created = u.created /\ s.deleted = u.deleted /\ s.bot = u.bot /\ s.made = {}
      /\ s.gone = {} /\ s.pan = u.pan \ {<<a, v>>} /\ a \in Accounts /\ v \in Values
  BY DEF Snapshots
<1>2. q[a] = (IF p[a] = None THEN None ELSE v) /\ \A c \in Accounts : c # a => q[c] = p[c]
  BY <1>1 DEF Moments
<1> HIDE DEF s, q
<1>3. \A c \in Accounts : BackClient(s, c, b[1][c], q[c])
  <2>1. BackClient(u, a, b[1][a], p[a])
    BY <1>1 DEF Back
  <2>2. BackClient(s, a, b[1][a], q[a])
    BY <1>1, <1>2, <2>1 DEF BackClient
  <2>3. ASSUME NEW c \in Accounts, c # a
        PROVE  BackClient(s, c, b[1][c], q[c])
    <3>1. BackClient(u, c, b[1][c], p[c]) /\ q[c] = p[c]
      BY <1>2, <2>3 DEF Back
    <3>2. \A x : <<c, x>> \in s.pan <=> <<c, x>> \in u.pan
      BY <1>1, <2>3
    <3> QED
      BY <1>1, <3>1, <3>2 DEF BackClient
  <2> QED
    BY <2>2, <2>3
<1>4. Back(s, b, q, r)
  BY <1>1, <1>3, ClientsBack
<1> QED
  BY <1>4 DEF s, q


LEMMA UndoOneLeadsBack ==
  ASSUME IInv, UInv, NEW j \in Jobs, NEW n \in 1 .. 6, UndoOne(j, n)
  PROVE  UInv'
<1> DEFINE u == job[j].u
<1>1. job[j] # None /\ job[j].kind = "undo" /\ job[j] \in Undos /\ u \in Snapshots
  BY RequestKind DEF UndoOne, Undos
<1>2. UNCHANGED <<snapshot, before, base>> /\ Turn(j, n)
  BY DEF UndoOne
<1>3. before = None
  BY <1>1, RunsAlone DEF UInv, Runs
<1>4. CASE ~exact'
  BY <1>2, <1>3, <1>4 DEF UInv, Running, Exact
<1>5. CASE exact'
  <2>1. PICK x \in First(u[Parts[n]]) :
          /\ job' = [job EXCEPT ![j] = [job[j] EXCEPT !.u[Parts[n]] = @ \ {x}]]
          /\ Undone(j, n, x) /\ UNCHANGED exact
    BY <1>5 DEF UndoOne, Set
  <2>2. x \in u[Parts[n]]
    BY DEF First
  <2>3. /\ n = 1 => Parts[n] = "created"
        /\ n = 2 => Parts[n] = "made"
        /\ n = 3 => Parts[n] = "deleted" /\ u.created = {}
        /\ n = 4 => Parts[n] = "gone" /\ u.made = {}
        /\ n = 5 => Parts[n] = "bot" /\ u.created = {} /\ u.deleted = {}
        /\ n = 6 => Parts[n] = "pan" /\ u.made = {} /\ u.gone = {}
    <3>1. \A k \in 1 .. (n - 1) : u[Parts[k]] = {}
      BY <1>2 DEF Turn
    <3>2. /\ n > 1 => u["created"] = {}
          /\ n > 2 => u["made"] = {}
          /\ n > 3 => u["deleted"] = {}
          /\ n > 4 => u["gone"] = {}
      BY <3>1 DEF Parts
    <3> QED
      BY <3>2 DEF Parts
  <2> DEFINE s == [u EXCEPT ![Parts[n]] = @ \ {x}]
             e == [job[j] EXCEPT !.u = s]
  <2>4. job' = [job EXCEPT ![j] = e]
    BY <1>1, <2>1 DEF Undos
  <2>5. s \in Snapshots
    BY <1>1, <2>3 DEF Snapshots
  <2>6. Alone(j) /\ Back(u, base, panel, rows)
    BY <1>1, <1>3, <1>5, <2>1 DEF UInv, Exact, Alone, AtRest
  <2>7. Back(s, base, panel', rows')
    <3>1. CASE n = 1
      <4>1. rows' = [rows EXCEPT ![x] = None] /\ panel' = panel /\ x \in u.created
        BY <2>1, <2>2, <2>3, <3>1 DEF Undone
      <4>2. s = [u EXCEPT !.created = @ \ {x}]
        BY <2>3, <3>1
      <4> HIDE DEF s, u
      <4> QED
        BY <1>1, <2>6, <4>1, <4>2, NowTyped, CreatedUndone
    <3>2. CASE n = 2
      <4>1. panel' = [panel EXCEPT ![x] = None] /\ rows' = rows /\ x \in u.made
        BY <2>1, <2>2, <2>3, <3>2 DEF Undone
      <4>2. s = [u EXCEPT !.made = @ \ {x}]
        BY <2>3, <3>2
      <4> HIDE DEF s, u
      <4> QED
        BY <1>1, <2>6, <4>1, <4>2, NowTyped, MadeUndone
    <3>3. CASE n = 3
      <4>1. x \in u.deleted /\ x = <<x[1], x[2]>>
        BY <1>1, <2>2, <2>3, <3>3 DEF Snapshots
      <4>2. /\ panel' = panel
            /\ rows' = IF rows[x[1]] = None /\ \A k \in Ids : rows[k] # None => rows[k].code # x[2].code
                       THEN [rows EXCEPT ![x[1]] = x[2]] ELSE rows
        BY <2>1, <2>3, <3>3 DEF Undone, Insert, CanInsert, Live
      <4>3. s = [u EXCEPT !.deleted = @ \ {<<x[1], x[2]>>}]
        BY <2>3, <3>3, <4>1
      <4> HIDE DEF s, u
      <4>4. <<x[1], x[2]>> \in u.deleted /\ u.created = {}
        BY <2>3, <3>3, <4>1
      <4>5. Back(s, base, panel,
                 IF rows[x[1]] = None /\ \A k \in Ids : rows[k] # None => rows[k].code # x[2].code
                 THEN [rows EXCEPT ![x[1]] = x[2]] ELSE rows)
        BY <1>1, <2>6, <4>3, <4>4, NowTyped, DeletedUndone
      <4> QED
        BY <4>2, <4>5
    <3>4. CASE n = 4
      <4>1. x \in u.gone /\ x = <<x[1], x[2]>> /\ u.made = {}
        BY <1>1, <2>2, <2>3, <3>4 DEF Snapshots
      <4>2. /\ panel' = [panel EXCEPT ![x[1]] = IF @ = None THEN x[2] ELSE @]
            /\ rows' = rows
        BY <2>1, <2>3, <3>4 DEF Undone
      <4>3. s = [u EXCEPT !.gone = @ \ {<<x[1], x[2]>>}]
        BY <2>3, <3>4, <4>1
      <4> HIDE DEF s, u
      <4>4. <<x[1], x[2]>> \in u.gone
        BY <4>1
      <4>5. Back(s, base, [panel EXCEPT ![x[1]] = IF @ = None THEN x[2] ELSE @], rows)
        BY <1>1, <2>6, <4>1, <4>3, <4>4, NowTyped, GoneUndone
      <4> QED
        BY <4>2, <4>5
    <3>5. CASE n = 5
      <4>1. x \in u.bot /\ x = <<x[1], x[2]>>
        BY <1>1, <2>2, <2>3, <3>5 DEF Snapshots
      <4>2. /\ rows' = [rows EXCEPT ![x[1]] = IF @ = None THEN @ ELSE [@ EXCEPT !.val = x[2]]]
            /\ panel' = panel
        BY <2>1, <2>3, <3>5 DEF Undone
      <4>3. s = [u EXCEPT !.bot = @ \ {<<x[1], x[2]>>}]
        BY <2>3, <3>5, <4>1
      <4> HIDE DEF s, u
      <4>4. <<x[1], x[2]>> \in u.bot /\ u.created = {} /\ u.deleted = {}
        BY <2>3, <3>5, <4>1
      <4>5. Back(s, base, panel, [rows EXCEPT ![x[1]] = IF @ = None THEN @ ELSE [@ EXCEPT !.val = x[2]]])
        BY <1>1, <2>6, <4>3, <4>4, NowTyped, BotUndone
      <4> QED
        BY <4>2, <4>5
    <3>6. CASE n = 6
      <4>1. x \in u.pan /\ x = <<x[1], x[2]>>
        BY <1>1, <2>2, <2>3, <3>6 DEF Snapshots
      <4>2. /\ panel' = [panel EXCEPT ![x[1]] = IF @ = None THEN @ ELSE x[2]]
            /\ rows' = rows
        BY <2>1, <2>3, <3>6 DEF Undone
      <4>3. s = [u EXCEPT !.pan = @ \ {<<x[1], x[2]>>}]
        BY <2>3, <3>6, <4>1
      <4> HIDE DEF s, u
      <4>4. <<x[1], x[2]>> \in u.pan /\ u.made = {} /\ u.gone = {}
        BY <2>3, <3>6, <4>1
      <4>5. Back(s, base, [panel EXCEPT ![x[1]] = IF @ = None THEN @ ELSE x[2]], rows)
        BY <1>1, <2>6, <4>3, <4>4, NowTyped, PanUndone
      <4> QED
        BY <4>2, <4>5
    <3> QED
      BY <3>1, <3>2, <3>3, <3>4, <3>5, <3>6
  <2> HIDE DEF s
  <2>8. e \in Undos /\ e.kind = "undo" /\ e.u = s
    BY <1>1, <2>5 DEF Undos
  <2> HIDE DEF e
  <2>9. e # None
    BY <2>8, NoneAssumption DEF Asked
  <2>10. \A i \in Jobs : job'[i] = IF i = j THEN e ELSE job[i]
    BY <2>4 DEF IInv, TypeInv, Work
  <2>11. Alone(j)' /\ job'[j].kind = "undo"
    BY <2>6, <2>8, <2>9, <2>10 DEF Alone
  <2>12. Back(job'[j].u, base', panel', rows')
    BY <1>2, <2>7, <2>8, <2>10
  <2> QED
    BY <1>2, <1>3, <2>11, <2>12 DEF UInv, Running, Exact
<1> QED
  BY <1>4, <1>5

(* At the end of an undo its notes are blank: all is as it was.            *)
LEMMA UndoEndRestores ==
  ASSUME IInv, UInv, NEW j \in Jobs, UndoEnd(j)
  PROVE  /\ UInv'
         /\ exact => <<panel, rows>> = base
<1>1. job[j] # None /\ job[j].kind = "undo" /\ job[j].u = Blank
  BY RequestKind DEF UndoEnd
<1>2. /\ job' = [job EXCEPT ![j] = None] /\ snapshot' = None
      /\ UNCHANGED <<panel, rows, before, base, exact>>
  BY DEF UndoEnd, End
<1>3. before = None
  BY <1>1, RunsAlone DEF UInv, Runs
<1>4. CASE exact
  <2>1. Alone(j) /\ Back(Blank, base, panel, rows)
    BY <1>1, <1>3, <1>4 DEF UInv, Exact, Alone, AtRest
  <2>2. base = <<panel, rows>>
    BY <2>1, NowTyped, BackFromBlank
  <2> QED
    BY <1>2, <1>3, <2>1, <2>2, EndingExact
<1>5. CASE ~exact
  BY <1>2, <1>3, <1>5 DEF UInv, Running, Exact
<1> QED
  BY <1>4, <1>5

-----------------------------------------------------------------------------
(* Other requests are no part of it: while one is at work, nothing is      *)
(* exact.                                                                  *)
LEMMA OthersLeadBack ==
  ASSUME IInv, UInv, NEW j \in Jobs,
         \/ Archive(j) \/ DeleteClient(j) \/ DeleteRow(j)
         \/ RestoreCheck(j) \/ RestoreClient(j) \/ RestoreRow(j) \/ RestoreMark(j)
         \/ CreateClient(j) \/ CreateRow(j)
  PROVE  UInv'
<1>1. job[j] # None /\ job[j].kind \notin {"sync", "undo"}
  BY RequestKind DEF Archive, DeleteClient, DeleteRow, RestoreCheck, RestoreClient, RestoreRow,
     RestoreMark, CreateClient, CreateRow, Is
<1>2. UNCHANGED <<before, exact>>
  BY DEF Archive, DeleteClient, DeleteRow, RestoreCheck, RestoreClient, RestoreRow,
     RestoreMark, CreateClient, CreateRow, ghosts
<1>3. before = None
  BY <1>1, RunsAlone DEF UInv, Runs
<1>4. ~exact
  BY <1>1, <1>3 DEF UInv, Exact, Alone, AtRest
<1> QED
  BY <1>2, <1>3, <1>4 DEF UInv, Running, Exact

LEMMA SpoiltLeadsBack ==
  ASSUME Spoil
  PROVE  UInv'
BY DEF Spoil, UInv, Running, Exact

LEMMA MadeLeadsBack ==
  ASSUME IInv, KInv, UInv, NEW j \in Jobs, NEW phase \in Phases,
         Make(j, phase) \/ Skip(j, phase)
  PROVE  UInv'
<1>1. UNCHANGED <<before, exact>> \/ Spoil
  BY DEF Make, Skip, ghosts
<1> QED
  BY <1>1, MakeLeadsBack, SpoiltLeadsBack

LEMMA UndoInductive == IInv /\ KInv /\ UInv /\ [Next]_vars => UInv'
<1> SUFFICES ASSUME IInv, KInv, UInv, [Next]_vars
             PROVE  UInv'
  OBVIOUS
<1>1. CASE UNCHANGED vars
  <2>1. UNCHANGED <<panel, rows, snapshot, job, before, base, exact>>
    BY <1>1 DEF vars, ghosts
  <2>2. Running'
    BY <2>1 DEF UInv, Running, Alone
  <2>3. Exact'
    BY <2>1 DEF UInv, Exact, AtRest, Alone
  <2> QED
    BY <2>2, <2>3 DEF UInv
<1>2. CASE Next
  <2>1. Step /\ Watch
    BY <1>2 DEF Next
  <2>2. ASSUME NEW j \in Jobs,
               \/ \E dir \in Directions : SyncBegin(j, dir)
               \/ UndoBegin(j)
        PROVE  UInv'
    BY <2>2, SyncBeginLeadsBack, UndoBeginLeadsBack
  <2>3. ASSUME NEW j \in Jobs, Sync(j)
        PROVE  UInv'
    <3>1. CASE List(j, "list", "rows") \/ List(j, "relist", "rerows")
      BY <3>1, ListLeadsBack
    <3>3. CASE ListRows(j, "rows", "new") \/ ListRows(j, "rerows", "del")
      BY <3>3, ListRowsLeadsBack
    <3>4. CASE AddLost(j)
      BY <3>4, SpoiltLeadsBack DEF AddLost
    <3>2. CASE \/ PhaseEnds(j, "new", "relist") \/ PhaseEnds(j, "del", "fields")
               \/ PhaseEnds(j, "fields", "store")
      BY <2>1, <3>2, PhaseEndLeadsBack DEF Phases
    <3> QED
      BY <2>1, <2>3, <3>1, <3>2, <3>3, <3>4, LookLeadsBack, MadeLeadsBack, StoreLeadsBack DEF Sync
  <2>4. ASSUME NEW j \in Jobs, UndoEnd(j) \/ \E n \in 1 .. 6 : UndoOne(j, n)
        PROVE  UInv'
    BY <2>4, UndoEndRestores, UndoOneLeadsBack
  <2>5. ASSUME NEW j \in Jobs,
               \/ Archive(j) \/ DeleteClient(j) \/ DeleteRow(j)
               \/ RestoreCheck(j) \/ RestoreClient(j) \/ RestoreRow(j) \/ RestoreMark(j)
               \/ CreateClient(j) \/ CreateRow(j)
        PROVE  UInv'
    BY <2>5, OthersLeadBack
  <2>6. ASSUME NEW j \in Jobs,
               \/ \E a \in Accounts : DeleteBegin(j, a) \/ CreateBegin(j, a)
               \/ \E k \in Entries : RestoreBegin(j, k)
        PROVE  UInv'
    BY <2>6, SpoiltLeadsBack DEF DeleteBegin, CreateBegin, RestoreBegin, Other
  <2>7. CASE PanelEdit \/ Restart
    BY <2>7, SpoiltLeadsBack DEF PanelEdit, Restart
  <2> QED
    BY <2>1, <2>2, <2>3, <2>4, <2>5, <2>6, <2>7 DEF Step
<1> QED
  BY <1>1, <1>2

-----------------------------------------------------------------------------
(* An undo that ends puts panel and rows back as they were when the last   *)
(* synchronisation that changed anything began, provided that nothing else *)
(* touched the accounts since ("Selective one-way sync with undo           *)
(* snapshot", admin-configs.ts:2216), that no answer was lost of a client  *)
(* it made, and that it wrote or lost no column which its notes leave out: *)
(* the steps that may do so end the exactness (Unnoted).  What has been    *)
(* noted always leads from the panel and the rows of the moment back to    *)
(* those of the beginning: while the synchronisation works alone           *)
(* (Running), and then from the snapshot and from what the undo has still  *)
(* to do (Exact).  That deletions and changes are noted before they are    *)
(* made, that a synchronisation never deletes what it has itself made, and *)
(* that the undo takes away before it puts back are what the argument      *)
(* needs.                                                                  *)
THEOREM UndoPutsBack == Spec => UndoRestores
<1>1. Init => UInv
  BY DEF Init, UInv, Running, Exact
<1>2. IInv /\ UInv => [\A j \in Jobs : UndoEnd(j) /\ exact => <<panel, rows>> = base]_vars
  BY UndoEndRestores
<1>3. Spec => []KInv
  BY InitiallyKept, KeptInductive, Invariant, PTL DEF Spec
<1>4. Spec => []UInv
  BY <1>1, <1>3, UndoInductive, Invariant, PTL DEF Spec
<1> QED
  BY <1>2, <1>4, Invariant, PTL DEF UndoRestores
=============================================================================
