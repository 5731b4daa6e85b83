----------------------------- MODULE SyncProofs -----------------------------
(* Theorems about synchronisation, deletion and restoration, for any       *)
(* accounts, panels, values, ids and requests in flight.                   *)
EXTENDS Sync, FiniteSetTheorems, TLAPS

\* A synchronisation works on accounts its lists name for the phase it is in.
Listing(d) == d.kind = "sync" =>
  IF d.at \in Phases
  THEN /\ d.todo \subseteq Todo(d.at, d.dir, d.L, d.B)
       /\ d.item # None => d.item[1] \in Todo(d.at, d.dir, d.L, d.B)
  ELSE d.item = None

Tables ==
  /\ panel \in [Accounts -> Values \cup {None}]
  /\ rows \in [Ids -> RowSet \cup {None}]
  /\ snapshot # None => snapshot \in Snapshots
  /\ fresh \subseteq Ids

Archived ==
  /\ archive \in Seq(Archives) /\ restored \in Seq(SUBSET Ids)
  /\ Len(restored) = Len(archive)

Work ==
  /\ job \in [Jobs -> Asked \cup {None}]
  /\ \A j \in Jobs : job[j] # None =>
       Listing(job[j]) /\ (job[j].kind = "restore" => job[j].k \in Entries)

\* What is remembered of a row: in the table, in the lists and notes of a
\* request, and in the snapshot.
RecalledBy(d, i, r) ==
  /\ d # None
  /\ \/ d.kind = "sync" /\ d.B[i] = r
     \/ d.kind \in {"sync", "undo"} /\ <<i, r>> \in d.u.deleted
Recalls(i, r) ==
  \/ rows[i] = r
  \/ \E j \in Jobs : RecalledBy(job[j], i, r)
  \/ snapshot # None /\ <<i, r>> \in snapshot.deleted

Alike(r, s) == r.acct = s.acct /\ r.code = s.code

\* Wherever a row is remembered, it has the same account and code.
Identity == \A i \in Ids : \A r, s \in RowSet :
  Recalls(i, r) /\ Recalls(i, s) => Alike(r, s)

\* What is remembered was given out.
Given ==
  /\ \A i \in Ids, r \in RowSet : Recalls(i, r) => i \notin fresh /\ r.code \notin fresh
  /\ \A k \in Entries : archive[k].code \notin fresh /\ restored[k] \cap fresh = {}

\* A restored row has the code of its entry.
Traced == \A k \in Entries : archive[k].code # None =>
  \A i \in Ids, r \in RowSet :
    i \in restored[k] /\ Recalls(i, r) => r.code = archive[k].code

\* A code is its row's own id, or that of an entry the row was restored from;
\* it belongs to one account.
Coded ==
  /\ \A i \in Ids, r \in RowSet : Recalls(i, r) =>
       /\ r.code = i \/ \E k \in Entries : i \in restored[k] /\ archive[k].code = r.code
       /\ \A k \in Entries : archive[k].code = r.code => archive[k].acct = r.acct
  /\ \A k, n \in Entries :
       archive[k].code = archive[n].code /\ archive[k].code # None =>
         archive[k].acct = archive[n].acct

\* The row a deletion is about is one of its account.
Owns(d) == d # None /\ d.kind = "delete" /\ d.i # None =>
  d.i \notin fresh /\ \A r \in RowSet : Recalls(d.i, r) => r.acct = d.a
Owning == \A j \in Jobs : Owns(job[j])

Unique == \A i, k \in Live(rows) : rows[i].code = rows[k].code => i = k

\* A deletion that is decided is of an account seen without its other side.
Decided(d, withoutClient, withoutRow) ==
  d # None /\ d.kind = "sync" /\ d.at = "del" =>
    IF d.dir = "panel_to_bot"
    THEN d.item # None => d.item[1] \in withoutClient
    ELSE /\ d.todo \subseteq withoutRow
         /\ d.item # None => d.item[1] \in withoutRow
Witnessed == \A j \in Jobs : Decided(job[j], clientless, rowless)

TypeInv == Tables /\ Archived /\ Work
CodeInv == Identity /\ Given /\ Traced /\ Coded /\ Unique
IInv == TypeInv /\ CodeInv /\ Owning /\ Witnessed

-----------------------------------------------------------------------------
(* Facts about requests.                                                   *)

LEMMA Kinds ==
  ASSUME NEW d \in Asked
  PROVE  /\ d.kind = "sync" => d \in Syncs
         /\ d.kind = "undo" => d \in Undos
         /\ d.kind = "delete" => d \in Deletes
         /\ d.kind = "restore" => d \in Restores
         /\ d.kind = "create" => d \in Creates
BY DEF Asked, Syncs, Undos, Deletes, Restores, Creates

LEMMA BlankType == Blank \in Snapshots
BY DEF Blank, Snapshots

(* The row a synchronisation has listed for an account.                    *)
LEMMA SubListed ==
  ASSUME NEW j \in Jobs, NEW a, job[j].B \in [Ids -> RowSet \cup {None}],
         a \in {job[j].B[i].acct : i \in Live(job[j].B)}
  PROVE  /\ Sub(j, a) \in Ids /\ job[j].B[Sub(j, a)] \in RowSet
         /\ job[j].B[Sub(j, a)].acct = a
<1>1. PICK i \in Live(job[j].B) : job[j].B[i].acct = a
  OBVIOUS
<1>2. i \in Named(job[j].B, a)
  BY <1>1 DEF Named
<1>3. Sub(j, a) \in Named(job[j].B, a)
  BY <1>2 DEF Sub
<1> QED
  BY <1>3 DEF Named, Live

(* An account on the list of a phase.                                      *)
LEMMA OnList ==
  ASSUME NEW j \in Jobs, job[j] \in Syncs, NEW phase \in Phases,
         NEW a \in Todo(phase, job[j].dir, job[j].L, job[j].B)
  PROVE  /\ a \in Accounts
         /\ \/ phase = "new" /\ job[j].dir = "panel_to_bot"
            \/ phase = "del" /\ job[j].dir # "panel_to_bot"
            \/ /\ Sub(j, a) \in Ids /\ job[j].B[Sub(j, a)] \in RowSet
               /\ job[j].B[Sub(j, a)].acct = a
         /\ \/ phase = "new" /\ job[j].dir # "panel_to_bot"
            \/ phase = "del" /\ job[j].dir = "panel_to_bot"
            \/ job[j].L[a] \in Values
<1> DEFINE rowed == {job[j].B[i].acct : i \in Live(job[j].B)}
           listed == Clients(job[j].L)
<1>1. /\ phase = "new" => a \in (IF job[j].dir = "panel_to_bot"
                                  THEN listed \ rowed ELSE rowed \ listed)
      /\ phase = "del" => a \in (IF job[j].dir = "panel_to_bot"
                                  THEN rowed \ listed ELSE listed \ rowed)
      /\ phase = "fields" => a \in listed \cap rowed
  BY DEF Todo, Phases
<1>2. job[j].B \in [Ids -> RowSet \cup {None}] /\ job[j].L \in [Accounts -> Values \cup {None}]
  BY DEF Syncs
<1>3. a \in listed => a \in Accounts /\ job[j].L[a] \in Values
  BY <1>2 DEF Clients
<1>4. a \in rowed => /\ Sub(j, a) \in Ids /\ job[j].B[Sub(j, a)] \in RowSet
                     /\ job[j].B[Sub(j, a)].acct = a
  BY <1>2, SubListed
<1>5. a \in rowed => a \in Accounts
  BY <1>4 DEF RowSet
<1> HIDE DEF rowed, listed
<1> QED
  BY <1>1, <1>3, <1>4, <1>5 DEF Phases

-----------------------------------------------------------------------------
(* What a step that changes one request has to keep.                       *)

LEMMA WorkStep ==
  ASSUME Work, NEW j \in Jobs, NEW e, job' = [job EXCEPT ![j] = e],
         Entries \subseteq Entries',
         \/ e = None
         \/ e \in Asked /\ Listing(e) /\ (e.kind = "restore" => e.k \in Entries')
  PROVE  Work'
<1>1. job' \in [Jobs -> Asked \cup {None}]
  BY DEF Work
<1>2. ASSUME NEW i \in Jobs, job'[i] # None
      PROVE  Listing(job'[i]) /\ (job'[i].kind = "restore" => job'[i].k \in Entries')
  <2>1. CASE i = j
    BY <2>1, <1>2 DEF Work
  <2>2. CASE i # j
    <3>1. job'[i] = job[i]
      BY <2>2 DEF Work
    <3> QED
      BY <3>1, <1>2 DEF Work
  <2> QED
    BY <2>1, <2>2
<1> QED
  BY <1>1, <1>2 DEF Work

\* A synchronisation that goes on with its notes as they are.
GoesOn(j, e, at) == e \in Syncs /\ e.at = at /\ e.u = job[j].u

\* A row that was remembered before, with another value perhaps.
Known(i, r) == \E s \in RowSet : Recalls(i, s) /\ Alike(r, s)

LEMMA Remembered ==
  ASSUME NEW i \in Ids, NEW r \in RowSet
  PROVE  /\ Recalls(i, r) => Known(i, r)
         /\ rows[i] = r => Known(i, r)
         /\ \A j \in Jobs : RecalledBy(job[j], i, r) => Known(i, r)
         /\ snapshot # None /\ <<i, r>> \in snapshot.deleted => Known(i, r)
BY DEF Known, Alike, Recalls

Carried == \A i \in Ids, r \in RowSet : Recalls(i, r)' => Known(i, r)

LEMMA RequestCarries ==
  ASSUME Work, NEW j \in Jobs, NEW e, job' = [job EXCEPT ![j] = e],
         NEW i \in Ids, NEW r \in RowSet, Recalls(i, r)',
         RecalledBy(e, i, r) => Known(i, r),
         snapshot' # None /\ <<i, r>> \in snapshot'.deleted => Known(i, r)
  PROVE  rows'[i] = r \/ Known(i, r)
<1>1. CASE \E k \in Jobs : RecalledBy(job'[k], i, r)
  <2>1. PICK k \in Jobs : RecalledBy(job'[k], i, r)
    BY <1>1
  <2>2. job'[k] = IF k = j THEN e ELSE job[k]
    BY DEF Work
  <2> QED
    BY <2>1, <2>2, Remembered
<1> QED
  BY <1>1 DEF Recalls, RecalledBy

\* Entries stay but for their mark, and a new one has the code of a row of its account.
SameEntry(k) ==
  /\ archive'[k].code = archive[k].code /\ archive'[k].acct = archive[k].acct
  /\ restored'[k] = restored[k]
NewEntry(k) ==
  /\ archive'[k].code \notin fresh /\ restored'[k] = {}
  /\ archive'[k].code # None => \E i \in Ids, r \in RowSet :
       Recalls(i, r) /\ r.code = archive'[k].code /\ r.acct = archive'[k].acct
EntriesKept ==
  /\ Entries \subseteq Entries'
  /\ \A k \in Entries : SameEntry(k)
  /\ \A k \in Entries' \ Entries : NewEntry(k)

(* Two rows with one code are of one account.                              *)
LEMMA CodeOfOne ==
  ASSUME CodeInv, NEW i \in Ids, NEW r \in RowSet, Recalls(i, r),
         NEW k \in Ids, NEW s \in RowSet, Recalls(k, s), r.code = s.code
  PROVE  /\ r.acct = s.acct
         /\ i # k => \E n \in Entries : archive[n].acct = r.acct
<1>1. CASE i = k
  BY <1>1 DEF CodeInv, Identity, Alike
<1>2. CASE i # k
  <2>1. PICK n \in Entries : archive[n].code = r.code
    BY <1>2 DEF CodeInv, Coded
  <2> QED
    BY <2>1 DEF CodeInv, Coded
<1> QED
  BY <1>1, <1>2

LEMMA CodeKept ==
  ASSUME CodeInv, Carried, fresh' = fresh, Unique', EntriesKept
  PROVE  CodeInv'
<1>1. Identity'
  BY DEF CodeInv, Carried, Identity, Known, Alike
<1>2. Given'
  <2>1. ASSUME NEW i \in Ids, NEW r \in RowSet, Recalls(i, r)'
        PROVE  i \notin fresh /\ r.code \notin fresh
    BY <2>1 DEF CodeInv, Carried, Given, Known, Alike
  <2>2. ASSUME NEW k \in Entries'
        PROVE  archive'[k].code \notin fresh /\ restored'[k] \cap fresh = {}
    BY <2>2 DEF CodeInv, Given, EntriesKept, SameEntry, NewEntry
  <2> QED
    BY <2>1, <2>2 DEF Given
<1>3. Traced'
  <2> SUFFICES ASSUME NEW k \in Entries', archive'[k].code # None,
                      NEW i \in Ids, NEW r \in RowSet, i \in restored'[k], Recalls(i, r)'
               PROVE  r.code = archive'[k].code
    BY DEF Traced
  <2> QED
    BY DEF CodeInv, Carried, Traced, Known, Alike, EntriesKept, SameEntry, NewEntry
<1>4. Coded'
  <2>1. \A k \in Entries' : archive'[k].code # None =>
          \/ k \in Entries /\ SameEntry(k)
          \/ \E i \in Ids, r \in RowSet :
               Recalls(i, r) /\ r.code = archive'[k].code /\ r.acct = archive'[k].acct
    BY DEF EntriesKept, NewEntry
  <2>2. ASSUME NEW k \in Entries', archive'[k].code # None,
               NEW i \in Ids, NEW r \in RowSet, Recalls(i, r), r.code = archive'[k].code
        PROVE  archive'[k].acct = r.acct
    <3>1. CASE k \in Entries /\ SameEntry(k)
      BY <2>2, <3>1 DEF CodeInv, Coded, SameEntry
    <3>2. CASE \E n \in Ids, s \in RowSet :
                 Recalls(n, s) /\ s.code = archive'[k].code /\ s.acct = archive'[k].acct
      BY <2>2, <3>2, CodeOfOne
    <3> QED
      BY <2>1, <2>2, <3>1, <3>2
  <2>3. ASSUME NEW i \in Ids, NEW r \in RowSet, Recalls(i, r)'
        PROVE  /\ r.code = i \/ \E k \in Entries' :
                    i \in restored'[k] /\ archive'[k].code = r.code
               /\ \A k \in Entries' : archive'[k].code = r.code => archive'[k].acct = r.acct
    <3>1. PICK s \in RowSet : Recalls(i, s) /\ Alike(r, s)
      BY <2>3 DEF Carried, Known
    <3>2. s.code = i \/ \E k \in Entries : i \in restored[k] /\ archive[k].code = s.code
      BY <3>1 DEF CodeInv, Coded
    <3>3. r.code # None
      BY NoneAssumption DEF RowSet
    <3> QED
      BY <2>2, <3>1, <3>2, <3>3 DEF Alike, EntriesKept, SameEntry
  <2>4. ASSUME NEW k \in Entries', NEW n \in Entries',
               archive'[k].code = archive'[n].code, archive'[k].code # None
        PROVE  archive'[k].acct = archive'[n].acct
    <3>1. CASE k \in Entries /\ SameEntry(k) /\ n \in Entries /\ SameEntry(n)
      BY <2>4, <3>1 DEF CodeInv, Coded, SameEntry
    <3> QED
      BY <2>1, <2>2, <2>4, <3>1
  <2> QED
    BY <2>3, <2>4 DEF Coded
<1> QED
  BY <1>1, <1>2, <1>3, <1>4 DEF CodeInv

(* Rows that lose their value or go stay apart.                            *)
LEMMA UniqueKept ==
  ASSUME Unique, rows' \in [Ids -> RowSet \cup {None}],
         \A i \in Ids : rows'[i] # None =>
           rows[i] # None /\ rows'[i].code = rows[i].code
  PROVE  Unique'
BY DEF Unique, Live

\* A new row is marked as restored from entries with its code only.
RestoredBy(k, n, w) ==
  \/ restored'[k] = restored[k]
  \/ /\ restored'[k] = restored[k] \cup {n}
     /\ archive[k].code # None => w.code = archive[k].code
RestoredFrom(k, n, w) ==
  n \in restored'[k] /\ archive[k].code = w.code /\ archive[k].acct = w.acct

(* A new row, with a code that no row has.                                 *)
LEMMA CodeAdded ==
  ASSUME CodeInv, Tables, NEW n \in fresh, NEW w \in RowSet,
         rows' = [rows EXCEPT ![n] = w], fresh' = fresh \ {n}, archive' = archive,
         \A i \in Live(rows) : rows[i].code # w.code,
         w.code \notin fresh \ {n},
         \A i \in Ids, r \in RowSet : Recalls(i, r)' => Known(i, r) \/ (i = n /\ Alike(r, w)),
         DOMAIN restored' = DOMAIN restored,
         \A k \in Entries : RestoredBy(k, n, w),
         w.code = n \/ \E k \in Entries : RestoredFrom(k, n, w)
  PROVE  CodeInv'
<1>1. ASSUME NEW r \in RowSet
      PROVE  ~Known(n, r)
  BY DEF CodeInv, Given, Known, Tables
<1>2. Identity'
  <2> SUFFICES ASSUME NEW i \in Ids, NEW r \in RowSet, NEW s \in RowSet,
                      Recalls(i, r)', Recalls(i, s)'
               PROVE  Alike(r, s)
    BY DEF Identity, Alike
  <2>1. CASE i = n
    BY <2>1, <1>1 DEF Alike
  <2>2. CASE i # n
    BY <2>2 DEF CodeInv, Identity, Known, Alike
  <2> QED
    BY <2>1, <2>2
<1>3. Given'
  <2>1. ASSUME NEW i \in Ids, NEW r \in RowSet, Recalls(i, r)'
        PROVE  i \notin fresh' /\ r.code \notin fresh'
    <3>1. CASE Known(i, r)
      BY <3>1 DEF CodeInv, Given, Known, Alike
    <3>2. CASE i = n /\ Alike(r, w)
      BY <3>2 DEF Alike
    <3> QED
      BY <2>1, <3>1, <3>2
  <2>2. ASSUME NEW k \in Entries'
        PROVE  archive'[k].code \notin fresh' /\ restored'[k] \cap fresh' = {}
    BY <2>2 DEF CodeInv, Given, Entries, RestoredBy
  <2> QED
    BY <2>1, <2>2 DEF Given
<1>4. Traced'
  <2> SUFFICES ASSUME NEW k \in Entries, archive[k].code # None,
                      NEW i \in Ids, NEW r \in RowSet, i \in restored'[k], Recalls(i, r)'
               PROVE  r.code = archive[k].code
    BY DEF Traced, Entries
  <2>1. CASE i = n
    <3>1. n \notin restored[k]
      BY DEF CodeInv, Given
    <3>2. Alike(r, w)
      BY <2>1, <1>1
    <3> QED
      BY <2>1, <3>1, <3>2 DEF Alike, RestoredBy
  <2>2. CASE i # n
    BY <2>2 DEF CodeInv, Traced, Known, Alike, RestoredBy
  <2> QED
    BY <2>1, <2>2
<1>5. Unique'
  BY DEF Unique, Live, Tables, CodeInv
<1>6. Coded'
  <2>1. Entries' = Entries /\ \A k \in Entries : restored[k] \subseteq restored'[k]
    BY DEF Entries, RestoredBy
  <2>2. \A k \in Entries : archive[k].code # n
    BY DEF CodeInv, Given
  <2>3. w.code # None
    BY NoneAssumption DEF RowSet
  <2>4. ASSUME NEW k \in Entries, archive[k].code = w.code
        PROVE  archive[k].acct = w.acct
    BY <2>2, <2>3, <2>4 DEF CodeInv, Coded, RestoredFrom
  <2>5. ASSUME NEW i \in Ids, NEW r \in RowSet, Recalls(i, r)'
        PROVE  /\ r.code = i \/ \E k \in Entries :
                    i \in restored'[k] /\ archive[k].code = r.code
               /\ \A k \in Entries : archive[k].code = r.code => archive[k].acct = r.acct
    <3>1. CASE Known(i, r)
      <4>1. PICK s \in RowSet : Recalls(i, s) /\ Alike(r, s)
        BY <3>1 DEF Known
      <4>2. s.code = i \/ \E k \in Entries : i \in restored[k] /\ archive[k].code = s.code
        BY <4>1 DEF CodeInv, Coded
      <4>3. \A k \in Entries : archive[k].code = s.code => archive[k].acct = s.acct
        BY <4>1 DEF CodeInv, Coded
      <4> QED
        BY <2>1, <4>1, <4>2, <4>3 DEF Alike
    <3>2. CASE i = n /\ Alike(r, w)
      BY <2>4, <3>2 DEF Alike, RestoredFrom
    <3> QED
      BY <2>5, <3>1, <3>2
  <2>6. \A k, m \in Entries : archive[k].code = archive[m].code /\ archive[k].code # None =>
          archive[k].acct = archive[m].acct
    BY DEF CodeInv, Coded
  <2> QED
    BY <2>1, <2>5, <2>6 DEF Coded
<1> QED
  BY <1>2, <1>3, <1>4, <1>5, <1>6 DEF CodeInv

(* While a request is in flight, what was seen stays seen.                 *)
LEMMA WitnessStep ==
  ASSUME Work, Witnessed, NEW j \in Jobs, NEW e, job' = [job EXCEPT ![j] = e], Watch,
         Decided(e, clientless', rowless')
  PROVE  Witnessed'
<1> SUFFICES ASSUME NEW i \in Jobs
             PROVE  Decided(job'[i], clientless', rowless')
  BY DEF Witnessed
<1>1. job'[i] = IF i = j THEN e ELSE job[i]
  BY DEF Work
<1>2. CASE i # j /\ job[i] # None
  <2>1. clientless \subseteq clientless' /\ rowless \subseteq rowless'
    BY <1>2 DEF Watch, AtRest
  <2> QED
    BY <1>1, <1>2, <2>1 DEF Witnessed, Decided
<1> QED
  BY <1>1, <1>2 DEF Decided

\* What a request may become.
Proper(e) == e \in Asked /\ Listing(e) /\ (e.kind = "restore" => e.k \in Entries')

\* Rows keep their account and code, or go.
RowsKept ==
  /\ rows' \in [Ids -> RowSet \cup {None}]
  /\ \A i \in Ids : rows'[i] # None => rows[i] # None /\ Alike(rows'[i], rows[i])

\* The snapshot holds rows that are remembered.
SnapshotKnown ==
  /\ snapshot' # None => snapshot' \in Snapshots
  /\ \A i \in Ids, r \in RowSet :
       snapshot' # None /\ <<i, r>> \in snapshot'.deleted => Known(i, r)

Becomes(j, e) ==
  /\ job' = [job EXCEPT ![j] = e]
  /\ e = None \/ Proper(e)
  /\ \A i \in Ids, r \in RowSet : RecalledBy(e, i, r) => Known(i, r)
  /\ Decided(e, clientless', rowless')
  /\ Owns(e)

(* No row is remembered of an account that it was not one of before.       *)
LEMMA OwnsStep ==
  ASSUME IInv, NEW j \in Jobs, NEW e, Becomes(j, e), fresh' \subseteq fresh,
         \A i \in Ids, r \in RowSet : Recalls(i, r)' => Known(i, r) \/ i \in fresh
  PROVE  Owning'
<1> SUFFICES ASSUME NEW k \in Jobs
             PROVE  Owns(job[k])'
  BY DEF Owning
<1>1. PICK d : d = job'[k]
  OBVIOUS
<1>2. d = (IF k = j THEN e ELSE job[k])
  BY <1>1 DEF IInv, TypeInv, Work, Becomes
<1>3. Owns(d)
  BY <1>2 DEF IInv, Owning, Becomes
<1>4. ASSUME d # None, d.kind = "delete", d.i # None
      PROVE  d.i \notin fresh' /\ \A r \in RowSet : Recalls(d.i, r)' => r.acct = d.a
  <2>1. d.i \notin fresh /\ \A r \in RowSet : Recalls(d.i, r) => r.acct = d.a
    BY <1>3, <1>4 DEF Owns
  <2>2. d \in Asked
    BY <1>2, <1>4 DEF IInv, TypeInv, Work, Becomes, Proper
  <2>3. d.i \in Ids
    BY <1>4, <2>2, Kinds DEF Deletes
  <2>4. \A r \in RowSet : Recalls(d.i, r)' => Known(d.i, r)
    BY <2>1, <2>3
  <2> QED
    BY <2>1, <2>4 DEF Known, Alike
<1> QED
  BY <1>1, <1>4 DEF Owns, Recalls, RecalledBy

LEMMA KnownKept == \A i \in Ids, r \in RowSet :
  snapshot # None /\ <<i, r>> \in snapshot.deleted => Known(i, r)
BY Remembered

\* Rows are as they were remembered.
RowsKnown ==
  /\ rows' \in [Ids -> RowSet \cup {None}] /\ Unique'
  /\ \A i \in Ids : rows'[i] # None => Known(i, rows'[i])

(* A request goes on, and no row is made that was not there before.        *)
LEMMA PutsBack ==
  ASSUME IInv, Watch, NEW j \in Jobs, NEW e, Becomes(j, e), RowsKnown, SnapshotKnown,
         panel' \in [Accounts -> Values \cup {None}], fresh' = fresh, Archived',
         EntriesKept
  PROVE  IInv'
<1>1. TypeInv'
  <2>1. Tables'
    BY DEF IInv, TypeInv, Tables, RowsKnown, SnapshotKnown
  <2>2. Work'
    BY WorkStep DEF IInv, TypeInv, Becomes, Proper, EntriesKept
  <2> QED
    BY <2>1, <2>2 DEF TypeInv
<1>2. Carried
  <2> SUFFICES ASSUME NEW i \in Ids, NEW r \in RowSet, Recalls(i, r)'
               PROVE  Known(i, r)
    BY DEF Carried
  <2>1. rows'[i] = r \/ Known(i, r)
    BY RequestCarries DEF IInv, TypeInv, Becomes, SnapshotKnown
  <2> QED
    BY <2>1, NoneAssumption DEF RowsKnown
<1>3. CodeInv'
  BY <1>2, CodeKept DEF IInv, RowsKnown
<1>4. Witnessed'
  BY WitnessStep DEF IInv, TypeInv, Becomes
<1>5. Owning'
  BY <1>2, OwnsStep DEF Carried
<1> QED
  BY <1>1, <1>3, <1>4, <1>5 DEF IInv

(* A request goes on, and rows change their value or go.                   *)
LEMMA Continues ==
  ASSUME IInv, Watch, NEW j \in Jobs, NEW e, Becomes(j, e), RowsKept, SnapshotKnown,
         panel' \in [Accounts -> Values \cup {None}], fresh' = fresh, Archived',
         EntriesKept
  PROVE  IInv'
<1>1. Unique'
  BY UniqueKept DEF RowsKept, Alike, IInv, CodeInv
<1>2. ASSUME NEW i \in Ids, rows'[i] # None
      PROVE  Known(i, rows'[i])
  <2>1. rows[i] # None /\ Alike(rows'[i], rows[i])
    BY <1>2 DEF RowsKept
  <2>2. rows[i] \in RowSet
    BY <2>1 DEF IInv, TypeInv, Tables
  <2> QED
    BY <2>1, <2>2 DEF Known, Recalls
<1>3. RowsKnown
  BY <1>1, <1>2 DEF RowsKnown, RowsKept
<1> QED
  BY <1>3, PutsBack

(* A request makes a row.                                                  *)
LEMMA Inserts ==
  ASSUME IInv, Watch, NEW j \in Jobs, NEW e, Becomes(j, e), NEW n \in fresh, NEW w \in RowSet,
         rows' = [rows EXCEPT ![n] = w], fresh' = fresh \ {n},
         UNCHANGED <<panel, archive, snapshot>>, Archived',
         \A i \in Live(rows) : rows[i].code # w.code,
         w.code \notin fresh \ {n},
         \A k \in Entries : RestoredBy(k, n, w),
         w.code = n \/ \E k \in Entries : RestoredFrom(k, n, w)
  PROVE  IInv'
<1>1. TypeInv'
  <2>1. Tables'
    BY DEF IInv, TypeInv, Tables
  <2>2. Work'
    BY WorkStep DEF IInv, TypeInv, Becomes, Proper, Entries
  <2> QED
    BY <2>1, <2>2 DEF TypeInv
<1>2. \A i \in Ids, r \in RowSet : Recalls(i, r)' => Known(i, r) \/ (i = n /\ Alike(r, w))
  <2> SUFFICES ASSUME NEW i \in Ids, NEW r \in RowSet, Recalls(i, r)'
               PROVE  Known(i, r) \/ (i = n /\ Alike(r, w))
    OBVIOUS
  <2>1. snapshot' # None /\ <<i, r>> \in snapshot'.deleted => Known(i, r)
    BY KnownKept
  <2>2. rows'[i] = r \/ Known(i, r)
    BY <2>1, RequestCarries DEF IInv, TypeInv, Becomes
  <2>3. CASE rows'[i] = r /\ i = n
    BY <2>3 DEF Alike, IInv, TypeInv, Tables
  <2>4. CASE rows'[i] = r /\ i # n
    BY <2>4, Remembered DEF IInv, TypeInv, Tables
  <2> QED
    BY <2>2, <2>3, <2>4
<1>3. DOMAIN restored' = DOMAIN restored
  BY DEF IInv, TypeInv, Archived
<1>4. CodeInv'
  BY <1>2, <1>3, CodeAdded DEF IInv, TypeInv
<1>5. Witnessed'
  BY WitnessStep DEF IInv, TypeInv, Becomes
<1>6. Owning'
  BY <1>2, OwnsStep
<1> QED
  BY <1>1, <1>4, <1>5, <1>6 DEF IInv

(* A request goes on and only looks.                                       *)
LEMMA Looks ==
  ASSUME IInv, Watch, NEW j \in Jobs, NEW e, Becomes(j, e),
         UNCHANGED <<panel, rows, archive, snapshot, fresh, restored>>
  PROVE  IInv'
<1>1. RowsKept
  BY DEF RowsKept, Alike, IInv, TypeInv, Tables
<1>2. SnapshotKnown
  BY KnownKept DEF SnapshotKnown, IInv, TypeInv, Tables
<1>3. Archived' /\ EntriesKept
  BY DEF IInv, TypeInv, Archived, Entries, EntriesKept, SameEntry
<1>4. panel' \in [Accounts -> Values \cup {None}]
  BY DEF IInv, TypeInv, Tables
<1> QED
  BY <1>1, <1>2, <1>3, <1>4, Continues

(* A request that ends, or has nothing to do with synchronisation.         *)
LEMMA Apart ==
  ASSUME NEW j \in Jobs, NEW e, job' = [job EXCEPT ![j] = e],
         \/ e = None
         \/ Proper(e) /\ e.kind \in {"delete", "restore", "create"},
         Owns(e)
  PROVE  Becomes(j, e)
BY DEF Becomes, RecalledBy, Decided

(* A request that remembers nothing new.                                   *)
LEMMA NothingNew ==
  ASSUME NEW j \in Jobs, NEW e, e # None => job[j] # None /\ e.kind = job[j].kind,
         e # None /\ e.kind = "sync" => e.B = job[j].B,
         e # None /\ e.kind \in {"sync", "undo"} => e.u.deleted \subseteq job[j].u.deleted,
         NEW i \in Ids, NEW r \in RowSet, RecalledBy(e, i, r)
  PROVE  Known(i, r)
<1>1. RecalledBy(job[j], i, r)
  BY DEF RecalledBy
<1> QED
  BY <1>1, Remembered

-----------------------------------------------------------------------------
(* The actions.                                                            *)

LEMMA Initial == Init => IInv
<1> SUFFICES ASSUME Init
             PROVE  IInv
  OBVIOUS
<1> DEFINE f == CHOOSE f \in Injection(Stored \cup Orphan, Ids) : TRUE
           v == CHOOSE v \in Values : TRUE
<1>1. f \in Injection(Stored \cup Orphan, Ids)
  BY IdAssumption
<1>2. v \in Values
  BY AccountAssumption
<1>3. f \in [Stored \cup Orphan -> Ids]
  BY <1>1 DEF Injection
<1>4. rows = [i \in Ids |-> IF \E a \in DOMAIN f : f[a] = i
                            THEN [acct |-> CHOOSE a \in DOMAIN f : f[a] = i,
                                  val |-> v, code |-> i]
                            ELSE None]
  BY DEF Init
<1> HIDE DEF f, v
<1>5. \A i \in Ids : (rows[i] \in RowSet /\ rows[i].code = i) \/ rows[i] = None
  <2> SUFFICES ASSUME NEW i \in Ids
               PROVE  (rows[i] \in RowSet /\ rows[i].code = i) \/ rows[i] = None
    OBVIOUS
  <2>1. CASE \E a \in DOMAIN f : f[a] = i
    <3>1. (CHOOSE a \in DOMAIN f : f[a] = i) \in Accounts
      BY <2>1, <1>3, AccountAssumption
    <3> QED
      BY <3>1, <2>1, <1>2, <1>4 DEF RowSet
  <2>2. CASE ~ \E a \in DOMAIN f : f[a] = i
    BY <2>2, <1>4
  <2> QED
    BY <2>1, <2>2
<1>6. rows \in [Ids -> RowSet \cup {None}]
  BY <1>4, <1>5
<1>7. TypeInv
  <2>1. Tables
    BY <1>2, <1>6 DEF Init, Tables
  <2>2. Archived
    BY DEF Init, Archived
  <2>3. Work
    BY DEF Init, Work
  <2> QED
    BY <2>1, <2>2, <2>3 DEF TypeInv
<1>8. \A i \in Ids, r \in RowSet : Recalls(i, r) => rows[i] = r
  BY DEF Recalls, RecalledBy, Init
<1>9. CodeInv
  <2>1. Identity
    BY <1>8 DEF Identity, Alike
  <2>2. Given
    <3>1. fresh = {i \in Ids : rows[i] = None} /\ Entries = {}
      BY DEF Init, Entries
    <3>2. ASSUME NEW i \in Ids, NEW r \in RowSet, Recalls(i, r)
          PROVE  i \notin fresh /\ r.code \notin fresh
      BY <3>1, <3>2, <1>8, <1>5, NoneAssumption
    <3> QED
      BY <3>1, <3>2 DEF Given
  <2>3. Traced
    BY DEF Traced, Entries, Init
  <2>4. Unique
    BY <1>5 DEF Unique, Live
  <2>5. Coded
    <3>1. Entries = {}
      BY DEF Init, Entries
    <3>2. \A i \in Ids, r \in RowSet : Recalls(i, r) => r.code = i
      BY <1>5, <1>8, NoneAssumption
    <3> QED
      BY <3>1, <3>2 DEF Coded
  <2> QED
    BY <2>1, <2>2, <2>3, <2>4, <2>5 DEF CodeInv
<1>10. Witnessed /\ Owning
  BY DEF Witnessed, Decided, Owning, Owns, Init
<1> QED
  BY <1>7, <1>9, <1>10 DEF IInv

(* A request begins: a synchronisation with the rows as they are, an undo  *)
(* with the snapshot.                                                      *)
LEMMA BeginKeeps ==
  ASSUME IInv, Watch, NEW j \in Jobs,
         \/ \E dir \in Directions : SyncBegin(j, dir)
         \/ UndoBegin(j)
         \/ \E a \in Accounts : DeleteBegin(j, a) \/ CreateBegin(j, a)
         \/ \E k \in Entries : RestoreBegin(j, k)
  PROVE  IInv'
<1>1. CASE \E dir \in Directions : SyncBegin(j, dir)
  <2>1. PICK dir \in Directions : SyncBegin(j, dir)
    BY <1>1
  <2>7. PICK opts \in Options :
          Enter(j, [kind |-> "sync", at |-> "list", dir |-> dir, opts |-> opts, todo |-> {},
                    item |-> None, L |-> NoClients, B |-> NoRows, u |-> Blank])
    BY <2>1 DEF SyncBegin
  <2> DEFINE e == [kind |-> "sync", at |-> "list", dir |-> dir, opts |-> opts, todo |-> {},
                   item |-> None, L |-> NoClients, B |-> NoRows, u |-> Blank]
  <2>2. e \in Syncs
    <3>1. NoClients \in [Accounts -> Values \cup {None}] /\ NoRows \in [Ids -> RowSet \cup {None}]
      BY DEF NoClients, NoRows
    <3> QED
      BY <3>1, BlankType DEF Syncs
  <2>3. Proper(e)
    BY <2>2 DEF Proper, Asked, Listing, Phases
  <2>4. \A i \in Ids, r \in RowSet : RecalledBy(e, i, r) => Known(i, r)
    BY NoneAssumption DEF RecalledBy, Blank, NoRows
  <2>5. Becomes(j, e)
    BY <2>7, <2>3, <2>4 DEF Becomes, Enter, Decided, Owns
  <2>6. UNCHANGED <<panel, rows, archive, snapshot, fresh, restored>>
    BY <2>1 DEF SyncBegin, Enter
  <2> QED
    BY <2>5, <2>6, Looks
<1>2. CASE UndoBegin(j)
  <2> DEFINE e == [kind |-> "undo", at |-> "work", u |-> snapshot]
  <2>1. e \in Undos
    BY <1>2 DEF Undos, UndoBegin, IInv, TypeInv, Tables
  <2>2. Proper(e)
    BY <2>1 DEF Proper, Asked, Listing
  <2>3. \A i \in Ids, r \in RowSet : RecalledBy(e, i, r) => Known(i, r)
    BY <1>2, KnownKept DEF RecalledBy, UndoBegin
  <2>4. Becomes(j, e)
    BY <1>2, <2>2, <2>3 DEF Becomes, UndoBegin, Enter, Decided, Owns
  <2>5. UNCHANGED <<panel, rows, archive, snapshot, fresh, restored>>
    BY <1>2 DEF UndoBegin, Enter
  <2> QED
    BY <2>4, <2>5, Looks
<1>3. ASSUME NEW a \in Accounts, DeleteBegin(j, a)
      PROVE  IInv'
  <2> DEFINE n == IF Named(rows, a) = {} THEN None ELSE CHOOSE i \in Named(rows, a) : TRUE
             e == [kind |-> "delete", at |-> "archive", a |-> a, unseen |-> {}, i |-> n]
  <2>1. n \in Ids \cup {None}
    BY DEF Named, Live
  <2> HIDE DEF n
  <2>2. e \in Deletes
    BY <2>1 DEF Deletes
  <2>3. Proper(e)
    BY <2>2 DEF Proper, Asked, Listing
  <2>4. job' = [job EXCEPT ![j] = e]
    BY <1>3 DEF DeleteBegin, Other, Enter, n
  <2>5. UNCHANGED <<panel, rows, archive, snapshot, fresh, restored>>
    BY <1>3 DEF DeleteBegin, Other, Enter
  <2>6. Owns(e)
    <3> SUFFICES ASSUME n # None
                 PROVE  n \notin fresh /\ \A r \in RowSet : Recalls(n, r) => r.acct = a
      BY DEF Owns
    <3>1. n \in Ids /\ rows[n] \in RowSet /\ rows[n].acct = a
      BY DEF n, Named, Live, IInv, TypeInv, Tables
    <3>2. Recalls(n, rows[n])
      BY DEF Recalls
    <3> QED
      BY <3>1, <3>2 DEF IInv, CodeInv, Identity, Given, Alike
  <2> HIDE DEF e
  <2>7. Becomes(j, e)
    BY <2>2, <2>3, <2>4, <2>6, Apart DEF Deletes
  <2> QED
    BY <2>5, <2>7, Looks
<1>4. ASSUME NEW a \in Accounts, CreateBegin(j, a)
      PROVE  IInv'
  <2> DEFINE v == CHOOSE v \in Values : TRUE
             e == [kind |-> "create", at |-> "client", a |-> a, v |-> v]
  <2>1. v \in Values
    BY AccountAssumption
  <2> HIDE DEF v
  <2>2. e \in Creates
    BY <2>1 DEF Creates
  <2>3. Proper(e)
    BY <2>2 DEF Proper, Asked, Listing
  <2>4. job' = [job EXCEPT ![j] = e]
    BY <1>4 DEF CreateBegin, Other, Enter, v
  <2>5. UNCHANGED <<panel, rows, archive, snapshot, fresh, restored>>
    BY <1>4 DEF CreateBegin, Other, Enter
  <2>6. Owns(e)
    BY DEF Owns
  <2> QED
    BY <2>3, <2>4, <2>5, <2>6, Looks, Apart
<1>5. ASSUME NEW k \in Entries, RestoreBegin(j, k)
      PROVE  IInv'
  <2> DEFINE e == [kind |-> "restore", at |-> "check", k |-> k, caught |-> FALSE]
  <2>1. k \in Nat
    BY DEF Entries, IInv, TypeInv, Archived
  <2>2. e \in Restores
    BY <2>1 DEF Restores
  <2>3. UNCHANGED <<panel, rows, archive, snapshot, fresh, restored>>
    BY <1>5 DEF RestoreBegin, Other, Enter
  <2>4. Proper(e)
    BY <2>2, <2>3 DEF Proper, Asked, Listing, Entries
  <2>5. job' = [job EXCEPT ![j] = e]
    BY <1>5 DEF RestoreBegin, Other, Enter
  <2>6. Owns(e)
    BY DEF Owns
  <2> QED
    BY <2>3, <2>4, <2>5, <2>6, Looks, Apart
<1> QED
  BY <1>1, <1>2, <1>3, <1>4, <1>5

(* The clients are listed.                                                 *)
LEMMA ListBecomes ==
  ASSUME IInv, Watch, NEW j \in Jobs, NEW at \in {"list", "relist"},
         NEW next \in {"rows", "rerows"}, List(j, at, next)
  PROVE  \E e : Becomes(j, e) /\ (e = None \/ GoesOn(j, e, next))
<1>1. job[j] # None /\ job[j].kind = "sync" /\ job[j].at = at
  BY DEF List, Is
<1>2. job[j] \in Syncs /\ job[j].item = None
  BY <1>1, Kinds DEF IInv, TypeInv, Work, Listing, Phases
<1>3. PICK down \in Downs :
        IF Clients(Listed(down)) = {} THEN End(j)
        ELSE Set(j, [job[j] EXCEPT !.at = next, !.L = Listed(down)])
  BY DEF List
<1> DEFINE L == Listed(down)
           e == [job[j] EXCEPT !.at = next, !.L = L]
<1>4. L \in [Accounts -> Values \cup {None}]
  BY DEF Listed, IInv, TypeInv, Tables
<1> HIDE DEF L
<1>5. CASE job' = [job EXCEPT ![j] = e]
  <2>1. /\ e \in Syncs /\ e.at = next /\ e.item = None /\ e.kind = "sync"
        /\ e.u = job[j].u /\ e.B = job[j].B
    BY <1>2, <1>4 DEF Syncs
  <2> HIDE DEF e
  <2>2. Proper(e)
    BY <2>1 DEF Proper, Asked, Listing, Phases
  <2>3. \A i \in Ids, r \in RowSet : RecalledBy(e, i, r) => Known(i, r)
    BY <1>1, <2>1, NothingNew
  <2>4. Decided(e, clientless', rowless') /\ Owns(e)
    BY <2>1 DEF Decided, Owns
  <2> QED
    BY <1>5, <2>1, <2>2, <2>3, <2>4 DEF Becomes, GoesOn
<1>6. CASE job' = [job EXCEPT ![j] = None]
  BY <1>6, Apart DEF Owns
<1> QED
  BY <1>3, <1>5, <1>6 DEF Set, End, L

(* The rows are read: only now do they get into the list.                  *)
LEMMA ListRowsBecomes ==
  ASSUME IInv, Watch, NEW j \in Jobs, NEW at \in {"rows", "rerows"},
         NEW phase \in {"new", "del"}, ListRows(j, at, phase)
  PROVE  \E e : Becomes(j, e) /\ GoesOn(j, e, phase)
<1>1. job[j] # None /\ job[j].kind = "sync" /\ job[j].at = at
  BY DEF ListRows, Is
<1>2. job[j] \in Syncs /\ job[j].item = None
  BY <1>1, Kinds DEF IInv, TypeInv, Work, Listing, Phases
<1>3. UNCHANGED <<panel, rows, archive, snapshot, fresh, restored>>
  BY DEF ListRows, ghosts
<1> DEFINE L == job[j].L
           t == Selected(j, phase, Todo(phase, job[j].dir, L, rows))
           e == [job[j] EXCEPT !.at = phase, !.B = rows, !.todo = t]
<1>4. job' = [job EXCEPT ![j] = e]
  BY DEF ListRows, Set
<1>5. t \subseteq Todo(phase, job[j].dir, L, rows)
  BY DEF Selected
<1>6. rows \in [Ids -> RowSet \cup {None}]
  BY DEF IInv, TypeInv, Tables
<1>7. Todo(phase, job[j].dir, L, rows) \subseteq Accounts
  BY <1>6, NoneAssumption DEF Todo, Clients, Live, RowSet
<1> HIDE DEF t
<1>8. /\ e \in Syncs /\ e.at = phase /\ e.item = None /\ e.kind = "sync"
      /\ e.u = job[j].u /\ e.B = rows /\ e.todo = t /\ e.dir = job[j].dir /\ e.L = L
  BY <1>2, <1>5, <1>6, <1>7 DEF Syncs, Phases
<1> HIDE DEF e
<1>9. Proper(e)
  BY <1>5, <1>8 DEF Proper, Asked, Listing
<1>10. \A i \in Ids, r \in RowSet : RecalledBy(e, i, r) => Known(i, r)
  <2> SUFFICES ASSUME NEW i \in Ids, NEW r \in RowSet, RecalledBy(e, i, r)
               PROVE  Known(i, r)
    OBVIOUS
  <2>1. rows[i] = r \/ RecalledBy(job[j], i, r)
    BY <1>1, <1>8 DEF RecalledBy
  <2> QED
    BY <2>1, Remembered
<1>11. Decided(e, clientless', rowless')
  <2>1. phase = "del" /\ job[j].dir # "panel_to_bot" =>
          t \subseteq {a \in Accounts : Named(rows, a) = {}}
    BY <1>2, <1>5, <1>7 DEF Todo, Syncs, Named
  <2> QED
    BY <1>3, <1>8, <2>1 DEF Decided, Watch
<1>12. Owns(e)
  BY <1>8 DEF Owns
<1> QED
  BY <1>4, <1>8, <1>9, <1>10, <1>11, <1>12 DEF Becomes, GoesOn

(* What is known of a synchronisation in a phase.                          *)
LEMMA InPhase ==
  ASSUME IInv, NEW j \in Jobs, NEW phase \in Phases, Is(j, "sync", phase)
  PROVE  /\ job[j] \in Syncs /\ job[j].at = phase
         /\ job[j].todo \subseteq Todo(phase, job[j].dir, job[j].L, job[j].B)
         /\ job[j].item # None =>
              /\ job[j].item[1] \in Todo(phase, job[j].dir, job[j].L, job[j].B)
              /\ job[j].item[1] \in Accounts /\ job[j].item[2] \in Values
<1>1. job[j] # None /\ job[j].kind = "sync" /\ job[j].at = phase
  BY DEF Is
<1>2. job[j] \in Syncs /\ Listing(job[j])
  BY <1>1, Kinds DEF IInv, TypeInv, Work
<1> QED
  BY <1>1, <1>2 DEF Listing, Syncs

(* Looking at one account: what is put down for it is a value, and for a   *)
(* deletion to the bot the client is missing.                              *)
LEMMA LookBecomes ==
  ASSUME IInv, Watch, NEW j \in Jobs, NEW phase \in Phases, Look(j, phase)
  PROVE  \E e : Becomes(j, e) /\ GoesOn(j, e, phase)
<1>1. Is(j, "sync", phase) /\ job[j].item = None
  BY DEF Look
<1>2. /\ job[j] \in Syncs /\ job[j].at = phase
      /\ job[j].todo \subseteq Todo(phase, job[j].dir, job[j].L, job[j].B)
  BY <1>1, InPhase
<1>3. PICK a \in First(job[j].todo) :
        LET toBot == job[j].dir = "panel_to_bot"
            rest == [job[j] EXCEPT !.todo = @ \ {a}]
        IN \/ job' = [job EXCEPT ![j] = rest]
           \/ \E v : /\ job' = [job EXCEPT ![j] = [rest EXCEPT !.item = <<a, v>>]]
                     /\ \/ panel[a] # None /\ v = panel[a]
                        \/ phase \in {"new", "fields"} /\ toBot /\ v = job[j].L[a]
                        \/ phase = "del" /\ ~toBot /\ v = job[j].L[a]
                        \/ phase = "new" /\ ~toBot /\ v = job[j].B[Sub(j, a)].val
                        \/ phase = "del" /\ toBot /\ v = job[j].B[Sub(j, a)].val
                     /\ phase = "del" /\ toBot => panel[a] = None
  <2>1. PICK a \in First(job[j].todo) :
          LET toBot == job[j].dir = "panel_to_bot"
              rest == [job[j] EXCEPT !.todo = @ \ {a}]
              go(v) == Set(j, [rest EXCEPT !.item = <<a, v>>])
          IN CASE phase = "new" /\ toBot ->
                    IF Named(rows, a) # {} THEN Set(j, rest)
                    ELSE go(IF panel[a] = None THEN job[j].L[a] ELSE panel[a])
               [] phase = "new" /\ ~toBot ->
                    IF Missing(a) THEN go(job[j].B[Sub(j, a)].val) ELSE Set(j, rest)
               [] phase = "del" /\ toBot ->
                    IF Missing(a) THEN go(job[j].B[Sub(j, a)].val) ELSE Set(j, rest)
               [] phase = "del" /\ ~toBot -> go(job[j].L[a])
               [] phase = "fields" /\ toBot ->
                    go(IF panel[a] = None THEN job[j].L[a] ELSE panel[a])
               [] phase = "fields" /\ ~toBot ->
                    IF panel[a] = None THEN Set(j, rest) ELSE go(panel[a])
    BY DEF Look
  <2> QED
    BY <2>1 DEF Set, Missing, Phases
<1>4. a \in job[j].todo /\ a \in Todo(phase, job[j].dir, job[j].L, job[j].B)
  BY <1>2 DEF First
<1>5. UNCHANGED <<panel, rows, archive, snapshot, fresh, restored>>
  BY DEF Look, ghosts
<1> DEFINE rest == [job[j] EXCEPT !.todo = @ \ {a}]
<1>6. rest \in Syncs /\ Proper(rest)
  BY <1>1, <1>2 DEF Syncs, Proper, Asked, Listing
<1>7. job[j] # None
  BY <1>1 DEF Is
<1>8. Decided(job[j], clientless, rowless) /\ rowless \subseteq rowless'
  BY <1>7 DEF IInv, Witnessed, Watch, AtRest
<1>9. CASE job' = [job EXCEPT ![j] = rest]
  <2>1. Decided(rest, clientless', rowless')
    BY <1>1, <1>2, <1>7, <1>8 DEF Decided, Syncs
  <2>2. \A i \in Ids, r \in RowSet : RecalledBy(rest, i, r) => Known(i, r)
    BY <1>2, <1>7, NothingNew DEF Syncs
  <2>3. Owns(rest)
    BY <1>2 DEF Owns, Syncs
  <2>4. GoesOn(j, rest, phase)
    BY <1>2, <1>6 DEF GoesOn, Syncs
  <2> QED
    BY <1>6, <1>9, <2>1, <2>2, <2>3, <2>4 DEF Becomes
<1>10. ASSUME NEW v, job' = [job EXCEPT ![j] = [rest EXCEPT !.item = <<a, v>>]],
              \/ panel[a] # None /\ v = panel[a]
              \/ phase \in {"new", "fields"} /\ job[j].dir = "panel_to_bot" /\ v = job[j].L[a]
              \/ phase = "del" /\ job[j].dir # "panel_to_bot" /\ v = job[j].L[a]
              \/ /\ phase = "new" /\ job[j].dir # "panel_to_bot"
                 /\ v = job[j].B[Sub(j, a)].val
              \/ /\ phase = "del" /\ job[j].dir = "panel_to_bot"
                 /\ v = job[j].B[Sub(j, a)].val,
              phase = "del" /\ job[j].dir = "panel_to_bot" => panel[a] = None
       PROVE  \E e : Becomes(j, e) /\ GoesOn(j, e, phase)
  <2> DEFINE e == [rest EXCEPT !.item = <<a, v>>]
  <2>1. a \in Accounts /\ v \in Values
    BY <1>2, <1>4, <1>10, OnList DEF IInv, TypeInv, Tables, RowSet
  <2>2. e \in Syncs /\ Proper(e)
    BY <1>2, <1>4, <1>6, <2>1 DEF Syncs, Proper, Asked, Listing
  <2>3. Decided(e, clientless', rowless')
    <3>1. phase = "del" /\ job[j].dir = "panel_to_bot" => a \in clientless'
      BY <1>5, <1>10, <2>1 DEF Watch, Clients
    <3>2. phase = "del" /\ job[j].dir # "panel_to_bot" =>
            a \in rowless' /\ job[j].todo \subseteq rowless'
      BY <1>2, <1>4, <1>7, <1>8 DEF Decided, Syncs
    <3> QED
      BY <1>2, <3>1, <3>2 DEF Decided, Syncs
  <2>4. \A i \in Ids, r \in RowSet : RecalledBy(e, i, r) => Known(i, r)
    BY <1>2, <1>7, NothingNew DEF Syncs
  <2>5. Owns(e)
    BY <1>2 DEF Owns, Syncs
  <2>6. GoesOn(j, e, phase)
    BY <1>2, <2>2 DEF GoesOn, Syncs
  <2> QED
    BY <1>10, <2>2, <2>3, <2>4, <2>5, <2>6 DEF Becomes
<1> QED
  BY <1>3, <1>9, <1>10

\* Notes of rows that the request has on its list.
FromList(j, w) ==
  /\ w \in Snapshots
  /\ \A i \in Ids, r \in RowSet :
       <<i, r>> \in w.deleted => <<i, r>> \in job[j].u.deleted \/ job[j].B[i] = r

LEMMA NotedFromList ==
  ASSUME IInv, NEW j \in Jobs, NEW phase \in Phases, Is(j, "sync", phase),
         NEW a \in Todo(phase, job[j].dir, job[j].L, job[j].B), NEW v \in Values
  PROVE  FromList(j, Noted(j, phase, a, v))
<1> DEFINE w == Noted(j, phase, a, v)
           i == Sub(j, a)
<1>1. job[j] \in Syncs /\ job[j].u \in Snapshots
  BY InPhase DEF Syncs
<1>2. a \in Accounts
  BY <1>1, OnList
<1>3. CASE phase = "new" \/ w = job[j].u
  BY <1>1, <1>3 DEF FromList, Noted
<1>4. CASE phase = "del" /\ job[j].dir # "panel_to_bot"
  <2>1. w = [job[j].u EXCEPT !.gone = @ \cup {<<a, v>>}]
    BY <1>4 DEF Noted
  <2> QED
    BY <1>1, <1>2, <2>1 DEF FromList, Snapshots
<1>5. CASE phase = "del" /\ job[j].dir = "panel_to_bot"
  <2>1. w = [job[j].u EXCEPT !.deleted = @ \cup {<<i, job[j].B[i]>>}]
    BY <1>5 DEF Noted
  <2>2. i \in Ids /\ job[j].B[i] \in RowSet
    BY <1>1, <1>5, OnList
  <2> HIDE DEF i
  <2> QED
    BY <1>1, <2>1, <2>2 DEF FromList, Snapshots
<1>6. CASE phase = "fields" /\ w # job[j].u
  <2>1. i \in Ids /\ job[j].B[i].val \in Values
    BY <1>1, <1>6, OnList DEF RowSet
  <2>2. \/ w = [job[j].u EXCEPT !.bot = @ \cup {<<i, job[j].B[i].val>>}]
        \/ w = [job[j].u EXCEPT !.pan = @ \cup {<<a, v>>}]
    BY <1>6 DEF Noted
  <2> HIDE DEF i, w
  <2>3. w \in Snapshots /\ w.deleted = job[j].u.deleted
    BY <1>1, <1>2, <2>1, <2>2 DEF Snapshots
  <2>4. FromList(j, w)
    BY <2>3 DEF FromList
  <2> QED
    BY <2>4 DEF w
<1> QED
  BY <1>3, <1>4, <1>5, <1>6 DEF Phases

(* An account is dealt with.                                               *)
LEMMA DoneBecomes ==
  ASSUME IInv, Watch, NEW j \in Jobs, NEW phase \in Phases, Is(j, "sync", phase),
         NEW w, FromList(j, w), Done(j, w)
  PROVE  Becomes(j, [job[j] EXCEPT !.item = None, !.u = w])
<1> DEFINE e == [job[j] EXCEPT !.item = None, !.u = w]
<1>1. job[j] # None
  BY DEF Is
<1>2. /\ job[j] \in Syncs /\ job[j].at = phase
      /\ job[j].todo \subseteq Todo(phase, job[j].dir, job[j].L, job[j].B)
  BY InPhase
<1>3. e \in Syncs /\ Proper(e)
  BY <1>2 DEF Syncs, FromList, Proper, Asked, Listing
<1>4. \A i \in Ids, r \in RowSet : RecalledBy(e, i, r) => Known(i, r)
  <2> SUFFICES ASSUME NEW i \in Ids, NEW r \in RowSet, RecalledBy(e, i, r)
               PROVE  RecalledBy(job[j], i, r)
    BY Remembered
  <2>1. e.B = job[j].B /\ e.u = w /\ e.kind = "sync" /\ job[j].kind = "sync"
    BY <1>2 DEF Syncs
  <2> QED
    BY <1>1, <2>1 DEF RecalledBy, FromList
<1>5. Decided(e, clientless', rowless')
  <2>1. Decided(job[j], clientless, rowless) /\ rowless \subseteq rowless'
    BY <1>1 DEF IInv, Witnessed, Watch, AtRest
  <2> QED
    BY <1>1, <1>2, <2>1 DEF Decided, Syncs
<1>6. Owns(e)
  BY <1>2 DEF Owns, Syncs
<1> QED
  BY <1>3, <1>4, <1>5, <1>6 DEF Becomes, Done, Set

LEMMA SkipKeeps ==
  ASSUME IInv, Watch, NEW j \in Jobs, NEW phase \in Phases, Skip(j, phase)
  PROVE  IInv'
<1>1. Is(j, "sync", phase) /\ job[j].item # None
  BY DEF Skip
<1>2. /\ job[j].item[1] \in Todo(phase, job[j].dir, job[j].L, job[j].B)
      /\ job[j].item[2] \in Values
  BY <1>1, InPhase
<1>3. FromList(j, Noted(j, phase, job[j].item[1], job[j].item[2]))
  BY <1>1, <1>2, NotedFromList
<1>4. Done(j, Noted(j, phase, job[j].item[1], job[j].item[2]))
  BY DEF Skip
<1>5. UNCHANGED <<panel, rows, archive, snapshot, fresh, restored>>
  BY DEF Skip, ghosts
<1> QED
  BY <1>1, <1>3, <1>4, <1>5, DoneBecomes, Looks

LEMMA AddLostKeeps ==
  ASSUME IInv, Watch, NEW j \in Jobs, AddLost(j)
  PROVE  IInv'
<1>1. Is(j, "sync", "new") /\ job[j].item # None
  BY DEF AddLost
<1>2. job[j] \in Syncs /\ job[j].item[2] \in Values
  BY <1>1, InPhase DEF Phases
<1>3. FromList(j, job[j].u) /\ Done(j, job[j].u)
  BY <1>2 DEF FromList, AddLost, Syncs
<1>4. Becomes(j, [job[j] EXCEPT !.item = None, !.u = job[j].u])
  BY <1>1, <1>3, DoneBecomes DEF Phases
<1>5. panel' \in [Accounts -> Values \cup {None}]
  BY <1>2 DEF AddLost, IInv, TypeInv, Tables
<1>6. /\ UNCHANGED <<rows, archive, restored, snapshot, fresh>> /\ Archived' /\ SnapshotKnown
      /\ EntriesKept /\ RowsKept
  BY KnownKept DEF AddLost, IInv, TypeInv, Tables, Archived, SnapshotKnown, Entries,
     EntriesKept, SameEntry, RowsKept, Alike
<1> QED
  BY <1>4, <1>5, <1>6, Continues

(* Codes in use are not given out again.                                   *)
LEMMA CodesInUse ==
  ASSUME TypeInv, CodeInv
  PROVE  \A i \in Live(rows) : rows[i].code \notin fresh /\ i \notin fresh
<1> SUFFICES ASSUME NEW i \in Live(rows)
             PROVE  rows[i].code \notin fresh /\ i \notin fresh
  OBVIOUS
<1>1. i \in Ids /\ rows[i] \in RowSet
  BY DEF Live, TypeInv, Tables
<1>2. Recalls(i, rows[i])
  BY DEF Recalls
<1> QED
  BY <1>1, <1>2 DEF CodeInv, Given

(* What a synchronisation changes of one account.                          *)
LEMMA MakeKeeps ==
  ASSUME IInv, Watch, NEW j \in Jobs, NEW phase \in Phases, Make(j, phase)
  PROVE  IInv'
<1> DEFINE a == job[j].item[1]
           v == job[j].item[2]
           i == Sub(j, a)
           u == job[j].u
<1>1. Is(j, "sync", phase) /\ job[j].item # None
  BY DEF Make
<1>2. /\ job[j] \in Syncs /\ u \in Snapshots
      /\ a \in Todo(phase, job[j].dir, job[j].L, job[j].B)
      /\ a \in Accounts /\ v \in Values
  BY <1>1, InPhase DEF Syncs
<1>3. /\ panel \in [Accounts -> Values \cup {None}] /\ rows \in [Ids -> RowSet \cup {None}]
      /\ fresh \subseteq Ids
  BY DEF IInv, TypeInv, Tables
<1>4. /\ UNCHANGED <<archive, restored, snapshot>> /\ Archived' /\ SnapshotKnown
      /\ EntriesKept
  BY KnownKept DEF Make, IInv, TypeInv, Tables, Archived, SnapshotKnown, Entries,
     EntriesKept, SameEntry
<1>5. FromList(j, Noted(j, phase, a, v))
  BY <1>1, <1>2, NotedFromList
<1>6. CASE job[j].dir = "panel_to_bot" /\ phase = "new"
  <2> DEFINE n == NextId
             w == [acct |-> a, val |-> v, code |-> n]
             e == [job[j] EXCEPT !.item = None, !.u = [u EXCEPT !.created = @ \cup {n}]]
  <2>1. ImportClient(j, a, v)
    BY <1>6 DEF Make
  <2>2. n \in fresh /\ w \in RowSet
    BY <1>2, <1>3, <2>1 DEF ImportClient, NextId, RowSet
  <2>3. FromList(j, [u EXCEPT !.created = @ \cup {n}])
    BY <1>2, <1>3, <2>2 DEF FromList, Snapshots
  <2>4. Becomes(j, e)
    BY <1>1, <2>1, <2>3, DoneBecomes DEF ImportClient
  <2>5. \A k \in Live(rows) : rows[k].code # w.code
    BY <2>2, CodesInUse DEF IInv
  <2>6. rows' = [rows EXCEPT ![n] = w] /\ fresh' = fresh \ {n} /\ panel' = panel
    BY <2>1 DEF ImportClient, Insert
  <2>7. \A k \in Entries : RestoredBy(k, n, w)
    BY <1>4 DEF RestoredBy
  <2> HIDE DEF n, e
  <2> QED
    BY <1>4, <2>2, <2>4, <2>5, <2>6, <2>7, Inserts
<1>7. CASE job[j].dir # "panel_to_bot" /\ phase = "new"
  <2>1. AddClient(j, a, v)
    BY <1>7 DEF Make
  <2> DEFINE x == IF panel[a] = None THEN [u EXCEPT !.made = @ \cup {a}] ELSE u
  <2>2. FromList(j, x)
    BY <1>2 DEF FromList, Snapshots
  <2>3. Becomes(j, [job[j] EXCEPT !.item = None, !.u = x])
    BY <1>1, <2>1, <2>2, DoneBecomes DEF AddClient
  <2>4. RowsKept /\ fresh' = fresh
    BY <1>3, <2>1 DEF AddClient, RowsKept, Alike
  <2>5. panel' \in [Accounts -> Values \cup {None}]
    BY <1>2, <1>3, <2>1 DEF AddClient
  <2> QED
    BY <1>4, <2>3, <2>4, <2>5, Continues
<1>8. CASE job[j].dir = "panel_to_bot" /\ phase = "del"
  <2>1. DropRow(j, a, v)
    BY <1>8 DEF Make
  <2>2. Becomes(j, [job[j] EXCEPT !.item = None, !.u = Noted(j, phase, a, v)])
    BY <1>1, <1>5, <1>8, <2>1, DoneBecomes DEF DropRow
  <2>3. RowsKept /\ fresh' = fresh /\ panel' = panel
    BY <1>3, <2>1 DEF DropRow, RowsKept, Alike
  <2> QED
    BY <1>3, <1>4, <2>2, <2>3, Continues
<1>9. CASE job[j].dir # "panel_to_bot" /\ phase = "del"
  <2>1. DropClient(j, a, v)
    BY <1>9 DEF Make
  <2>2. Becomes(j, [job[j] EXCEPT !.item = None, !.u = Noted(j, phase, a, v)])
    BY <1>1, <1>5, <1>9, <2>1, DoneBecomes DEF DropClient
  <2>3. RowsKept /\ fresh' = fresh
    BY <1>3, <2>1 DEF DropClient, RowsKept, Alike
  <2>4. panel' \in [Accounts -> Values \cup {None}]
    BY <1>3, <2>1 DEF DropClient
  <2> QED
    BY <1>4, <2>2, <2>3, <2>4, Continues
<1>10. CASE job[j].dir = "panel_to_bot" /\ phase = "fields"
  <2>1. FieldsToBot(j, a, v)
    BY <1>10 DEF Make
  <2>2. Becomes(j, [job[j] EXCEPT !.item = None, !.u = Noted(j, phase, a, v)])
    BY <1>1, <1>5, <1>10, <2>1, DoneBecomes DEF FieldsToBot
  <2>3. i \in Ids
    BY <1>2, <1>10, OnList
  <2>4. RowsKept
    <3> HIDE DEF i, a, v
    <3>1. rows' = [rows EXCEPT ![i] = IF @ = None THEN @ ELSE [@ EXCEPT !.val = v]]
      BY <2>1 DEF FieldsToBot, i
    <3> QED
      BY <1>2, <1>3, <2>3, <3>1 DEF RowsKept, Alike, RowSet
  <2>5. fresh' = fresh /\ panel' = panel
    BY <2>1 DEF FieldsToBot
  <2> QED
    BY <1>3, <1>4, <2>2, <2>4, <2>5, Continues
<1>11. CASE job[j].dir # "panel_to_bot" /\ phase = "fields"
  <2>1. FieldsToPanel(j, a, v)
    BY <1>11 DEF Make
  <2>2. Becomes(j, [job[j] EXCEPT !.item = None, !.u = Noted(j, phase, a, v)])
    BY <1>1, <1>5, <1>11, <2>1, DoneBecomes DEF FieldsToPanel
  <2>3. RowsKept /\ fresh' = fresh
    BY <1>3, <2>1 DEF FieldsToPanel, RowsKept, Alike
  <2>4. panel' \in [Accounts -> Values \cup {None}]
    <3>1. job[j].B[i].val \in Values
      BY <1>2, <1>11, OnList DEF RowSet
    <3> QED
      BY <1>2, <1>3, <2>1, <3>1 DEF FieldsToPanel
  <2> QED
    BY <1>4, <2>2, <2>3, <2>4, Continues
<1> QED
  BY <1>6, <1>7, <1>8, <1>9, <1>10, <1>11 DEF Phases

LEMMA PhaseEndBecomes ==
  ASSUME IInv, Watch, NEW j \in Jobs, NEW phase \in Phases,
         NEW next \in {"relist", "fields", "store"}, PhaseEnds(j, phase, next)
  PROVE  \E e : Becomes(j, e) /\ GoesOn(j, e, next)
<1> DEFINE t == IF next # "fields" THEN {}
                ELSE Selected(j, next, Todo(next, job[j].dir, job[j].L, job[j].B))
           e == [job[j] EXCEPT !.at = next, !.todo = t]
<1>1. /\ Is(j, "sync", phase) /\ job[j].item = None /\ job' = [job EXCEPT ![j] = e]
      /\ UNCHANGED <<panel, rows, archive, snapshot, fresh, restored>>
  BY DEF PhaseEnds, Set, ghosts
<1>2. job[j] \in Syncs /\ job[j] # None
  BY <1>1, InPhase DEF Is
<1>3. t \subseteq Accounts
  BY <1>2 DEF Todo, Clients, Syncs, Selected
<1>4. Proper(e) /\ GoesOn(j, e, next)
  <2>1. e \in Syncs /\ e.at = next /\ e.item = None /\ e.u = job[j].u
    BY <1>1, <1>2, <1>3 DEF Syncs, Phases
  <2>2. e.todo = t /\ e.L = job[j].L /\ e.B = job[j].B /\ e.dir = job[j].dir
    BY <1>2 DEF Syncs
  <2> HIDE DEF e
  <2> QED
    BY <2>1, <2>2 DEF Proper, Asked, Listing, Phases, Syncs, GoesOn, Selected
<1>5. \A i \in Ids, r \in RowSet : RecalledBy(e, i, r) => Known(i, r)
  BY <1>2, NothingNew DEF Syncs
<1>6. Decided(e, clientless', rowless') /\ Owns(e)
  BY <1>2 DEF Decided, Owns, Syncs
<1> QED
  BY <1>1, <1>4, <1>5, <1>6 DEF Becomes

(* The notes of a request become the snapshot.                             *)
LEMMA StoreKeeps ==
  ASSUME IInv, Watch, NEW j \in Jobs, Store(j)
  PROVE  IInv'
<1>1. /\ job[j] # None /\ job[j].kind = "sync" /\ job' = [job EXCEPT ![j] = None]
      /\ UNCHANGED <<panel, rows, archive, fresh, restored>>
      /\ snapshot' = snapshot \/ snapshot' = job[j].u
  BY DEF Store, Is, End
<1>2. job[j] \in Syncs /\ job[j].u \in Snapshots
  BY <1>1, Kinds DEF IInv, TypeInv, Work, Syncs
<1>3. SnapshotKnown
  <2>1. \A i \in Ids, r \in RowSet : <<i, r>> \in job[j].u.deleted => Known(i, r)
    BY <1>1, Remembered DEF RecalledBy
  <2> QED
    BY <1>1, <1>2, <2>1, KnownKept DEF SnapshotKnown, IInv, TypeInv, Tables
<1>4. RowsKept /\ Archived' /\ EntriesKept /\ panel' \in [Accounts -> Values \cup {None}]
  BY <1>1 DEF RowsKept, Alike, IInv, TypeInv, Tables, Archived, EntriesKept, SameEntry, Entries
<1>5. Becomes(j, None)
  BY <1>1, Apart DEF Owns
<1> QED
  BY <1>1, <1>3, <1>4, <1>5, Continues

LEMMA SyncKeeps ==
  ASSUME IInv, Watch, NEW j \in Jobs, Sync(j)
  PROVE  IInv'
<1>1. CASE List(j, "list", "rows") \/ List(j, "relist", "rerows")
  <2>1. UNCHANGED <<panel, rows, archive, snapshot, fresh, restored>>
    BY <1>1 DEF List
  <2> QED
    BY <1>1, <2>1, ListBecomes, Looks
<1>6. CASE ListRows(j, "rows", "new") \/ ListRows(j, "rerows", "del")
  <2>1. UNCHANGED <<panel, rows, archive, snapshot, fresh, restored>>
    BY <1>6 DEF ListRows, ghosts
  <2> QED
    BY <1>6, <2>1, ListRowsBecomes, Looks
<1>7. CASE AddLost(j)
  BY <1>7, AddLostKeeps
<1>2. ASSUME NEW phase \in Phases, Look(j, phase)
      PROVE  IInv'
  <2>1. UNCHANGED <<panel, rows, archive, snapshot, fresh, restored>>
    BY <1>2 DEF Look, ghosts
  <2> QED
    BY <1>2, <2>1, LookBecomes, Looks
<1>5. ASSUME NEW phase \in Phases, Make(j, phase) \/ Skip(j, phase)
      PROVE  IInv'
  BY <1>5, MakeKeeps, SkipKeeps
<1>3. CASE \/ PhaseEnds(j, "new", "relist") \/ PhaseEnds(j, "del", "fields")
           \/ PhaseEnds(j, "fields", "store")
  <2>1. UNCHANGED <<panel, rows, archive, snapshot, fresh, restored>>
    BY <1>3 DEF PhaseEnds, ghosts
  <2> QED
    BY <1>3, <2>1, PhaseEndBecomes, Looks DEF Phases
<1>4. CASE Store(j)
  BY <1>4, StoreKeeps
<1> QED
  BY <1>1, <1>2, <1>3, <1>4, <1>5, <1>6, <1>7 DEF Sync

LEMMA UndoEndKeeps ==
  ASSUME IInv, Watch, NEW j \in Jobs, UndoEnd(j)
  PROVE  IInv'
<1>1. /\ job' = [job EXCEPT ![j] = None] /\ snapshot' = None
      /\ UNCHANGED <<panel, rows, archive, fresh, restored>>
  BY DEF UndoEnd, End
<1>2. /\ RowsKept /\ SnapshotKnown /\ Archived' /\ EntriesKept
      /\ panel' \in [Accounts -> Values \cup {None}]
  BY <1>1 DEF RowsKept, SnapshotKnown, Alike, IInv, TypeInv, Tables, Archived, EntriesKept,
     SameEntry, Entries
<1>3. Becomes(j, None)
  BY <1>1, Apart DEF Owns
<1> QED
  BY <1>1, <1>2, <1>3, Continues

(* One step of an undo.  A row it puts back is one that is remembered, and *)
(* is refused when its code is in use.                                     *)
LEMMA UndoKeeps ==
  ASSUME IInv, Watch, NEW j \in Jobs, NEW n \in 1 .. 6, UndoOne(j, n)
  PROVE  IInv'
<1> DEFINE u == job[j].u
           p == Parts[n]
<1>1. job[j] # None /\ job[j].kind = "undo"
  BY DEF UndoOne, Is
<1>2. job[j] \in Undos /\ u \in Snapshots
  BY <1>1, Kinds DEF IInv, TypeInv, Work, Undos
<1>3. p \in {"created", "made", "deleted", "gone", "bot", "pan"}
  BY DEF Parts
<1>4. PICK x \in First(u[p]) :
        /\ job' = [job EXCEPT ![j] = [job[j] EXCEPT !.u[p] = @ \ {x}]]
        /\ Undone(j, n, x) \/ UNCHANGED <<panel, rows>>
  BY DEF UndoOne, Set
<1>5. x \in u[p]
  BY DEF First
<1>6. UNCHANGED <<archive, snapshot, fresh, restored>>
  BY DEF UndoOne
<1> DEFINE s == [u EXCEPT ![p] = @ \ {x}]
           e == [job[j] EXCEPT !.u = s]
<1>7. s \in Snapshots /\ s.deleted \subseteq u.deleted
  BY <1>2, <1>3 DEF Snapshots
<1>8. job' = [job EXCEPT ![j] = e]
  BY <1>2, <1>4 DEF Undos
<1> HIDE DEF s
<1>9. Becomes(j, e)
  <2>1. e \in Undos /\ Proper(e)
    BY <1>2, <1>7 DEF Undos, Proper, Asked, Listing
  <2>2. \A i \in Ids, r \in RowSet : RecalledBy(e, i, r) => Known(i, r)
    BY <1>1, <1>2, <1>7, NothingNew DEF Undos
  <2> QED
    BY <1>8, <2>1, <2>2 DEF Becomes, Decided, Owns, Undos
<1>10. /\ rows \in [Ids -> RowSet \cup {None}]
       /\ panel \in [Accounts -> Values \cup {None}]
  BY DEF IInv, TypeInv, Tables
<1>11. SnapshotKnown /\ Archived' /\ EntriesKept
  BY <1>6, KnownKept DEF IInv, TypeInv, Tables, SnapshotKnown, Archived, Entries,
     EntriesKept, SameEntry
<1>12. CASE UNCHANGED <<panel, rows>>
  BY <1>6, <1>9, <1>12, Looks
<1>13. CASE Undone(j, n, x) /\ p # "deleted"
  <2>1. RowsKept
    <3>1. CASE p = "created"
      BY <1>2, <1>5, <1>10, <1>13, <3>1 DEF Undone, RowsKept, Alike, Snapshots
    <3>2. CASE p = "bot"
      <4>1. x[1] \in Ids /\ x[2] \in Values
        BY <1>2, <1>5, <3>2 DEF Snapshots
      <4>2. rows' = [rows EXCEPT ![x[1]] = IF @ = None THEN @ ELSE [@ EXCEPT !.val = x[2]]]
        BY <1>13, <3>2 DEF Undone
      <4> QED
        BY <1>10, <4>1, <4>2 DEF RowsKept, Alike, RowSet
    <3>3. CASE p \in {"made", "gone", "pan"}
      BY <1>10, <1>13, <3>3 DEF Undone, RowsKept, Alike
    <3> QED
      BY <1>3, <1>13, <3>1, <3>2, <3>3
  <2>2. panel' \in [Accounts -> Values \cup {None}]
    <3>1. CASE p = "made"
      BY <1>10, <1>13, <3>1 DEF Undone
    <3>2. CASE p \in {"gone", "pan"}
      <4>1. x[1] \in Accounts /\ x[2] \in Values
        BY <1>2, <1>5, <3>2 DEF Snapshots
      <4> QED
        BY <1>10, <1>13, <3>2, <4>1 DEF Undone
    <3>3. CASE p \in {"created", "bot"}
      BY <1>10, <1>13, <3>3 DEF Undone
    <3> QED
      BY <1>3, <1>13, <3>1, <3>2, <3>3
  <2> QED
    BY <1>6, <1>9, <1>11, <2>1, <2>2, Continues
<1>14. CASE Undone(j, n, x) /\ p = "deleted"
  <2>1. x \in Ids \X RowSet /\ x = <<x[1], x[2]>> /\ x \in u.deleted
    BY <1>2, <1>5, <1>14 DEF Snapshots
  <2>2. Known(x[1], x[2])
    BY <1>1, <2>1, Remembered DEF RecalledBy
  <2>3. /\ panel' = panel
        /\ rows' = rows \/ (CanInsert(x[1], x[2]) /\ rows' = [rows EXCEPT ![x[1]] = x[2]])
    BY <1>14 DEF Undone, Insert
  <2>4. CASE rows' = rows
    BY <1>6, <1>9, <2>3, <2>4, Looks
  <2>5. CASE CanInsert(x[1], x[2]) /\ rows' = [rows EXCEPT ![x[1]] = x[2]]
    <3>1. Unique'
      BY <1>10, <2>1, <2>5 DEF CanInsert, Unique, Live, IInv, CodeInv
    <3>2. \A i \in Ids : rows[i] # None => Known(i, rows[i])
      BY <1>10, Remembered
    <3>3. RowsKnown
      BY <1>10, <2>1, <2>2, <2>5, <3>1, <3>2 DEF RowsKnown
    <3> QED
      BY <1>6, <1>9, <1>10, <1>11, <2>3, <3>3, PutsBack
  <2> QED
    BY <2>3, <2>4, <2>5
<1> QED
  BY <1>4, <1>12, <1>13, <1>14

LEMMA EntryKeeps ==
  ASSUME IInv, Watch, NEW j \in Jobs, NEW e, Becomes(j, e),
         UNCHANGED <<panel, rows, snapshot, fresh>>,
         NEW x \in Archives, x.code \notin fresh,
         x.code # None => \E i \in Ids, r \in RowSet :
           Recalls(i, r) /\ r.code = x.code /\ r.acct = x.acct,
         archive' = Append(archive, x), restored' = Append(restored, {})
  PROVE  IInv'
<1>1. archive \in Seq(Archives) /\ restored \in Seq(SUBSET Ids) /\ Len(restored) = Len(archive)
  BY DEF IInv, TypeInv, Archived
<1>2. Archived' /\ Entries \subseteq Entries'
  BY <1>1 DEF Archived, Entries
<1>3. EntriesKept
  <2>1. \A k \in Entries : archive'[k] = archive[k] /\ restored'[k] = restored[k]
    BY <1>1 DEF Entries
  <2>2. \A k \in Entries' \ Entries : archive'[k] = x /\ restored'[k] = {}
    BY <1>1 DEF Entries
  <2> QED
    BY <1>2, <2>1, <2>2 DEF EntriesKept, SameEntry, NewEntry
<1>4. RowsKept /\ SnapshotKnown /\ panel' \in [Accounts -> Values \cup {None}]
  BY KnownKept DEF RowsKept, Alike, SnapshotKnown, IInv, TypeInv, Tables
<1> QED
  BY <1>2, <1>3, <1>4, Continues

LEMMA ArchiveKeeps ==
  ASSUME IInv, Watch, NEW j \in Jobs, Archive(j)
  PROVE  IInv'
<1>1. job[j] # None /\ job[j].kind = "delete" /\ job[j] \in Deletes
  BY Kinds DEF Archive, Is, IInv, TypeInv, Work
<1> DEFINE a == job[j].a
           i == job[j].i
           row == IF i = None THEN None ELSE rows[i]
           unseen == {w \in {"client", "row"} :
                        IF w = "client" THEN panel[a] = None ELSE row = None}
           e == [job[j] EXCEPT !.at = "panel", !.unseen = unseen]
           code == IF row = None THEN None ELSE row.code
           x == [acct |-> a, val |-> Found(a, row), done |-> FALSE, code |-> code]
           y == [acct |-> a, val |-> row.val, done |-> FALSE, code |-> code]
<1>2. /\ job' = [job EXCEPT ![j] = e]
      /\ UNCHANGED <<panel, rows, snapshot, fresh>>
      /\ \/ UNCHANGED <<archive, restored>>
         \/ /\ Found(a, row) # None
            /\ archive' = Append(archive, x) /\ restored' = Append(restored, {})
         \/ /\ row # None
            /\ archive' = Append(archive, y) /\ restored' = Append(restored, {})
  BY DEF Archive, Set
<1>3. /\ panel \in [Accounts -> Values \cup {None}] /\ rows \in [Ids -> RowSet \cup {None}]
      /\ fresh \subseteq Ids
  BY DEF IInv, TypeInv, Tables
<1>4. a \in Accounts /\ i \in Ids \cup {None}
  BY <1>1 DEF Deletes
<1>5. row # None => row \in RowSet /\ row.code \notin fresh
  BY <1>3, <1>4, CodesInUse DEF Live, IInv
<1>6. code \in Ids \cup {None} /\ code \notin fresh
  BY <1>3, <1>5, NoneAssumption DEF RowSet
<1>7. e \in Deletes
  BY <1>1 DEF Deletes
<1>12. Owns(job[j]) /\ job[j].i = i /\ job[j].a = a
  BY DEF IInv, Owning
<1>13. Owns(e)
  BY <1>1, <1>12 DEF Owns, Deletes
<1>14. row # None => i \in Ids /\ Recalls(i, row) /\ row.acct = a
  <2>1. row # None => i # None /\ i \in Ids /\ row = rows[i]
    BY <1>4
  <2>2. row # None => Recalls(i, row)
    BY <2>1 DEF Recalls
  <2> HIDE DEF row
  <2> QED
    BY <1>1, <1>5, <1>12, <2>1, <2>2 DEF Owns
<1>15. code # None => \E k \in Ids, r \in RowSet :
         Recalls(k, r) /\ r.code = code /\ r.acct = a
  <2>1. code # None => row # None /\ code = row.code
    OBVIOUS
  <2> HIDE DEF row, code
  <2> QED
    BY <1>5, <1>14, <2>1
<1> HIDE DEF row, code, unseen
<1>8. Becomes(j, e)
  <2>1. Proper(e)
    BY <1>7, Kinds DEF Proper, Asked, Listing, Deletes
  <2> QED
    BY <1>2, <1>7, <1>13, <2>1, Apart DEF Deletes
<1>9. CASE UNCHANGED <<archive, restored>>
  BY <1>2, <1>8, <1>9, Looks
<1>10. CASE /\ Found(a, row) # None
            /\ archive' = Append(archive, x) /\ restored' = Append(restored, {})
  <2>1. Found(a, row) \in Values
    BY <1>3, <1>4, <1>5, <1>10 DEF Found, RowSet
  <2>2. x \in Archives /\ x.code \notin fresh /\ x.code = code /\ x.acct = a
    BY <1>4, <1>6, <2>1 DEF Archives
  <2> HIDE DEF x, e
  <2> QED
    BY <1>2, <1>8, <1>10, <1>15, <2>2, EntryKeeps
<1>11. CASE /\ row # None
            /\ archive' = Append(archive, y) /\ restored' = Append(restored, {})
  <2>1. y \in Archives /\ y.code \notin fresh /\ y.code = code /\ y.acct = a
    BY <1>4, <1>5, <1>6, <1>11 DEF Archives, RowSet
  <2> HIDE DEF y, e
  <2> QED
    BY <1>2, <1>8, <1>11, <1>15, <2>1, EntryKeeps
<1> HIDE DEF x, y
<1> QED
  BY <1>2, <1>9, <1>10, <1>11

LEMMA DeleteKeeps ==
  ASSUME IInv, Watch, NEW j \in Jobs, DeleteClient(j) \/ DeleteRow(j)
  PROVE  IInv'
<1>1. job[j] # None /\ job[j].kind = "delete" /\ job[j] \in Deletes
  BY Kinds DEF DeleteClient, DeleteRow, Is, IInv, TypeInv, Work
<1>2. /\ panel \in [Accounts -> Values \cup {None}] /\ rows \in [Ids -> RowSet \cup {None}]
      /\ Archived' /\ SnapshotKnown /\ EntriesKept
      /\ UNCHANGED <<archive, restored, fresh>>
  BY KnownKept DEF DeleteClient, DeleteRow, IInv, TypeInv, Tables, Archived, Entries,
     SnapshotKnown, EntriesKept, SameEntry
<1> DEFINE e == [job[j] EXCEPT !.at = "row"]
<1>3. e \in Deletes /\ Proper(e)
  BY <1>1 DEF Deletes, Proper, Asked, Listing
<1>4. job' = [job EXCEPT ![j] = None] \/ job' = [job EXCEPT ![j] = e]
  BY <1>1 DEF DeleteClient, DeleteRow, End, Move, Deletes
<1>5. Becomes(j, None) \/ Becomes(j, e)
  <2>1. Owns(None) /\ Owns(e)
    BY <1>1 DEF IInv, Owning, Owns, Deletes
  <2> HIDE DEF e
  <2> QED
    BY <1>3, <1>4, <2>1, Apart DEF Deletes
<1>6. RowsKept /\ panel' \in [Accounts -> Values \cup {None}]
  BY <1>2 DEF DeleteClient, DeleteRow, RowsKept, Alike
<1> QED
  BY <1>2, <1>5, <1>6, Continues

(* Exchanging an element of a sequence.                                    *)
LEMMA ExceptSeq ==
  ASSUME NEW S, NEW q \in Seq(S), NEW n \in 1 .. Len(q), NEW x \in S
  PROVE  [q EXCEPT ![n] = x] \in Seq(S) /\ Len([q EXCEPT ![n] = x]) = Len(q)
OBVIOUS

(* Restoring: the row gets the code its entry kept, or a fresh one.        *)
LEMMA RestoreKeeps ==
  ASSUME IInv, Watch, NEW j \in Jobs,
         RestoreCheck(j) \/ RestoreClient(j) \/ RestoreRow(j) \/ RestoreMark(j)
  PROVE  IInv'
<1>1. /\ job[j] # None /\ job[j].kind = "restore" /\ job[j] \in Restores
      /\ job[j].k \in Entries
  BY Kinds DEF RestoreCheck, RestoreClient, RestoreRow, RestoreMark, Is, IInv, TypeInv, Work
<1> DEFINE k == job[j].k
           v == archive[k].val
<1>2. /\ panel \in [Accounts -> Values \cup {None}] /\ rows \in [Ids -> RowSet \cup {None}]
      /\ fresh \subseteq Ids /\ archive \in Seq(Archives) /\ archive[k] \in Archives
      /\ restored \in Seq(SUBSET Ids) /\ Len(restored) = Len(archive)
      /\ k \in 1 .. Len(archive) /\ restored[k] \in SUBSET Ids
  BY <1>1 DEF IInv, TypeInv, Tables, Archived, Entries
<1>3. ASSUME NEW e, e = [job[j] EXCEPT !.at = "panel"] \/ e = [job[j] EXCEPT !.at = "row"]
                    \/ e = [job[j] EXCEPT !.at = "mark"]
                    \/ e = [job[j] EXCEPT !.at = "row", !.caught = TRUE],
             Entries' = Entries
      PROVE  Proper(e) /\ e.kind = "restore"
  <2>1. e \in Restores /\ e.k = k
    BY <1>1, <1>3 DEF Restores
  <2> QED
    BY <1>1, <1>3, <2>1 DEF Proper, Asked, Listing, Restores
<1>4. UNCHANGED snapshot /\ SnapshotKnown
  BY KnownKept DEF RestoreCheck, RestoreClient, RestoreRow, RestoreMark, SnapshotKnown,
     IInv, TypeInv, Tables
<1>5. Caught(j) => \/ job' = [job EXCEPT ![j] = None]
                   \/ job' = [job EXCEPT ![j] = [job[j] EXCEPT !.at = "row", !.caught = TRUE]]
  BY DEF Caught, End, Set
<1>6. \A at \in {"panel", "row", "mark"} :
        Move(j, at) => job' = [job EXCEPT ![j] = [job[j] EXCEPT !.at = at]]
  BY <1>1 DEF Move, Restores
<1>7. ASSUME Entries' = Entries,
             Caught(j) \/ End(j) \/ Move(j, "panel") \/ Move(j, "row") \/ Move(j, "mark")
      PROVE  \E e : Becomes(j, e)
  <2>1. Owns(None)
    BY DEF Owns
  <2>2. \A e : e.kind = "restore" => Owns(e)
    BY DEF Owns
  <2> QED
    BY <1>3, <1>5, <1>6, <1>7, <2>1, <2>2, Apart DEF End
<1>8. CASE RestoreCheck(j)
  <2>1. UNCHANGED <<panel, rows, archive, snapshot, fresh, restored>> /\ Entries' = Entries
    BY <1>8 DEF RestoreCheck, ghosts, Entries
  <2>2. PICK e : Becomes(j, e)
    BY <1>7, <1>8, <2>1 DEF RestoreCheck
  <2> QED
    BY <2>1, <2>2, Looks
<1>9. CASE RestoreClient(j)
  <2>1. UNCHANGED <<rows, archive, fresh, restored>> /\ Entries' = Entries
    BY <1>9 DEF RestoreClient, ghosts, Entries
  <2>2. PICK e : Becomes(j, e)
    BY <1>7, <1>9, <2>1 DEF RestoreClient
  <2>3. panel' \in [Accounts -> Values \cup {None}]
    BY <1>2, <1>9 DEF RestoreClient, Archives
  <2>4. RowsKept /\ Archived' /\ EntriesKept
    BY <1>2, <2>1 DEF RowsKept, Alike, Archived, EntriesKept, SameEntry
  <2> QED
    BY <1>4, <2>1, <2>2, <2>3, <2>4, Continues
<1>10. CASE RestoreMark(j)
  <2>1. UNCHANGED <<panel, rows, fresh, restored>>
    BY <1>10 DEF RestoreMark, ghosts
  <2>2. archive' = archive \/ archive' = [archive EXCEPT ![k].done = TRUE]
    BY <1>10 DEF RestoreMark
  <2>3. Archived' /\ Entries' = Entries /\ EntriesKept
    <3>1. /\ [archive[k] EXCEPT !.done = TRUE] \in Archives
          /\ [archive[k] EXCEPT !.done = TRUE].code = archive[k].code
          /\ [archive[k] EXCEPT !.done = TRUE].acct = archive[k].acct
      BY <1>2 DEF Archives
    <3>2. archive' = archive \/ archive' = [archive EXCEPT ![k] = [archive[k] EXCEPT !.done = TRUE]]
      BY <2>2
    <3>3. archive' \in Seq(Archives) /\ Len(archive') = Len(archive)
      BY <1>2, <3>1, <3>2, ExceptSeq, SMTT(60)
    <3>4. \A n \in 1 .. Len(archive) : /\ archive'[n].code = archive[n].code
                                       /\ archive'[n].acct = archive[n].acct
      <4> SUFFICES ASSUME NEW n \in 1 .. Len(archive)
                   PROVE  /\ archive'[n].code = archive[n].code
                          /\ archive'[n].acct = archive[n].acct
        OBVIOUS
      <4> DEFINE d == [archive[k] EXCEPT !.done = TRUE]
      <4>1. d.code = archive[k].code /\ d.acct = archive[k].acct
        BY <3>1
      <4> HIDE DEF d
      <4>2. archive' = archive \/ archive' = [archive EXCEPT ![k] = d]
        BY <3>2 DEF d
      <4>3. archive'[n] = archive[n] \/ (n = k /\ archive'[n] = d)
        <5>1. CASE archive' = archive
          BY <5>1
        <5>2. CASE archive' = [archive EXCEPT ![k] = d]
          BY <1>2, <5>2
        <5> QED
          BY <4>2, <5>1, <5>2
      <4> HIDE DEF k
      <4> QED
        BY <4>1, <4>3
    <3> QED
      BY <1>2, <2>1, <3>3, <3>4 DEF Archived, Entries, EntriesKept, SameEntry
  <2>4. PICK e : Becomes(j, e)
    BY <1>7, <1>10, <2>3 DEF RestoreMark
  <2>5. RowsKept
    BY <1>2, <2>1 DEF RowsKept, Alike
  <2> QED
    BY <1>2, <1>4, <2>1, <2>3, <2>4, <2>5, Continues
<1>11. CASE RestoreRow(j)
  <2> DEFINE n == NextId
             r == [acct |-> archive[k].acct, val |-> v, code |-> RestoredCode(k)]
  <2>1. n \in fresh /\ UNCHANGED <<panel, archive>> /\ Entries' = Entries
    BY <1>11 DEF RestoreRow, NextId, Entries
  <2>2. PICK e : Becomes(j, e)
    BY <1>7, <1>11, <2>1 DEF RestoreRow
  <2>3. CASE UNCHANGED <<rows, fresh, restored>>
    BY <1>4, <2>1, <2>2, <2>3, Looks
  <2>4. CASE /\ CanInsert(n, r) /\ Insert(n, r) /\ fresh' = fresh \ {n}
             /\ restored' = [restored EXCEPT ![k] = @ \cup {n}]
    <3>1. archive[k].code \notin fresh
      BY <1>1 DEF IInv, CodeInv, Given
    <3>2. r \in RowSet /\ r.code \notin fresh \ {n}
      BY <1>2, <2>1, <3>1 DEF RestoredCode, RowSet, Archives
    <3>3. archive[k].code # None => r.code = archive[k].code
      BY DEF RestoredCode
    <3>7. r.acct = archive[k].acct /\ (archive[k].code = None => r.code = n)
      BY DEF RestoredCode
    <3> HIDE DEF r, n
    <3>4. rows' = [rows EXCEPT ![n] = r] /\ \A i \in Live(rows) : rows[i].code # r.code
      BY <2>4 DEF Insert, CanInsert
    <3>5. Archived'
      <4>1. n \in Ids /\ restored[k] \cup {n} \in SUBSET Ids
        BY <1>2, <2>1
      <4>2. restored' = [restored EXCEPT ![k] = restored[k] \cup {n}]
        BY <2>4
      <4>3. restored' \in Seq(SUBSET Ids) /\ Len(restored') = Len(restored)
        BY <1>2, <4>1, <4>2, ExceptSeq
      <4> QED
        BY <1>2, <2>1, <4>3 DEF Archived
    <3>6. /\ \A m \in Entries : RestoredBy(m, n, r)
          /\ r.code = n \/ RestoredFrom(k, n, r)
      BY <1>2, <2>4, <3>3, <3>7 DEF Entries, RestoredBy, RestoredFrom
    <3> HIDE DEF k
    <3> QED
      BY <1>1, <1>4, <2>1, <2>2, <2>4, <3>2, <3>4, <3>5, <3>6, Inserts DEF k
  <2> QED
    BY <1>11, <2>3, <2>4 DEF RestoreRow
<1> QED
  BY <1>8, <1>9, <1>10, <1>11

LEMMA CreateKeeps ==
  ASSUME IInv, Watch, NEW j \in Jobs, CreateClient(j) \/ CreateRow(j)
  PROVE  IInv'
<1>1. job[j] # None /\ job[j].kind = "create" /\ job[j] \in Creates
  BY Kinds DEF CreateClient, CreateRow, Is, IInv, TypeInv, Work
<1>2. /\ panel \in [Accounts -> Values \cup {None}] /\ rows \in [Ids -> RowSet \cup {None}]
      /\ fresh \subseteq Ids
      /\ Archived' /\ SnapshotKnown /\ EntriesKept /\ Entries' = Entries
      /\ UNCHANGED <<archive, restored, snapshot>>
  BY KnownKept DEF CreateClient, CreateRow, ghosts, IInv, TypeInv, Tables, Archived, Entries,
     SnapshotKnown, EntriesKept, SameEntry
<1> DEFINE e == [job[j] EXCEPT !.at = "row"]
<1>3. e \in Creates /\ Proper(e)
  BY <1>1 DEF Creates, Proper, Asked, Listing
<1>4. Becomes(j, None) \/ Becomes(j, e)
  <2>1. job' = [job EXCEPT ![j] = None] \/ job' = [job EXCEPT ![j] = e]
    BY <1>1 DEF CreateClient, CreateRow, End, Move, Creates
  <2> QED
    BY <1>3, <2>1, Apart DEF Creates, Owns
<1>5. CASE CreateClient(j)
  <2>1. RowsKept /\ fresh' = fresh /\ panel' \in [Accounts -> Values \cup {None}]
    BY <1>1, <1>2, <1>5 DEF CreateClient, ghosts, RowsKept, Alike, Creates
  <2> QED
    BY <1>2, <1>4, <2>1, Continues
<1>6. CASE CreateRow(j)
  <2> DEFINE n == NextId
             w == [acct |-> job[j].a, val |-> job[j].v, code |-> n]
  <2>1. n \in fresh /\ w \in RowSet
    BY <1>1, <1>2, <1>6 DEF CreateRow, NextId, RowSet, Creates
  <2>2. \A k \in Live(rows) : rows[k].code # w.code
    BY <2>1, CodesInUse DEF IInv
  <2>3. /\ panel' = panel
        /\ \/ rows' = [rows EXCEPT ![n] = w] /\ fresh' = fresh \ {n}
           \/ UNCHANGED <<rows, fresh>>
    BY <1>6 DEF CreateRow, Insert
  <2>4. \A k \in Entries : RestoredBy(k, n, w)
    BY <1>2 DEF RestoredBy
  <2> HIDE DEF n, e
  <2>5. CASE UNCHANGED <<rows, fresh>>
    BY <1>2, <1>4, <2>3, <2>5, Looks
  <2>6. CASE rows' = [rows EXCEPT ![n] = w] /\ fresh' = fresh \ {n}
    BY <1>2, <1>4, <2>1, <2>2, <2>3, <2>4, <2>6, Inserts
  <2> QED
    BY <2>3, <2>5, <2>6
<1> QED
  BY <1>5, <1>6

(* Nothing new is remembered when requests are lost or the panel changes.  *)
LEMMA OutsideKeeps ==
  ASSUME IInv, Watch, PanelEdit \/ Restart
  PROVE  IInv'
<1>1. /\ UNCHANGED <<rows, archive, snapshot, fresh, restored>>
      /\ job' = job \/ job' = [j \in Jobs |-> None]
  BY DEF PanelEdit, Restart
<1>2. TypeInv'
  <2>1. panel' \in [Accounts -> Values \cup {None}]
    BY DEF PanelEdit, Restart, Clients, IInv, TypeInv, Tables
  <2>2. Tables' /\ Archived'
    BY <1>1, <2>1 DEF IInv, TypeInv, Tables, Archived
  <2>3. Work'
    BY <1>1 DEF IInv, TypeInv, Work, Entries
  <2> QED
    BY <2>2, <2>3 DEF TypeInv
<1>3. CodeInv'
  <2>1. Carried
    <3> SUFFICES ASSUME NEW i \in Ids, NEW r \in RowSet, Recalls(i, r)'
                 PROVE  Known(i, r)
      BY DEF Carried
    <3>1. Recalls(i, r)
      BY <1>1 DEF Recalls, RecalledBy
    <3> QED
      BY <3>1, Remembered
  <2>2. Unique' /\ EntriesKept
    BY <1>1 DEF IInv, CodeInv, Unique, Live, Entries, EntriesKept, SameEntry
  <2> QED
    BY <1>1, <2>1, <2>2, CodeKept DEF IInv
<1>4. Witnessed'
  <2>1. CASE job' = [j \in Jobs |-> None]
    BY <2>1 DEF Witnessed, Decided
  <2>2. CASE job' = job
    <3> SUFFICES ASSUME NEW j \in Jobs, job[j] # None
                 PROVE  Decided(job[j], clientless', rowless')
      BY <2>2 DEF Witnessed, Decided
    <3>1. clientless \subseteq clientless' /\ rowless \subseteq rowless'
      BY DEF Watch, AtRest
    <3> QED
      BY <3>1 DEF IInv, Witnessed, Decided
  <2> QED
    BY <1>1, <2>1, <2>2
<1>5. Owning'
  <2> SUFFICES ASSUME NEW j \in Jobs
               PROVE  Owns(job[j])'
    BY DEF Owning
  <2>1. PICK d : d = job'[j]
    OBVIOUS
  <2>2. Owns(d)
    BY <1>1, <2>1 DEF IInv, Owning, Owns
  <2>3. ASSUME NEW i, NEW r, Recalls(i, r)'
        PROVE  Recalls(i, r)
    BY <1>1, <2>3 DEF Recalls, RecalledBy
  <2>4. d # None /\ d.kind = "delete" /\ d.i # None =>
          d.i \notin fresh' /\ \A r \in RowSet : Recalls(d.i, r)' => r.acct = d.a
    BY <1>1, <2>2, <2>3 DEF Owns
  <2> QED
    BY <2>1, <2>4 DEF Owns, Recalls, RecalledBy
<1> QED
  BY <1>2, <1>3, <1>4, <1>5 DEF IInv

LEMMA Inductive == IInv /\ [Next]_vars => IInv'
<1> SUFFICES ASSUME IInv, [Next]_vars
             PROVE  IInv'
  OBVIOUS
<1>1. CASE UNCHANGED vars
  <2>1. TypeInv'
    BY <1>1 DEF vars, ghosts, IInv, TypeInv, Tables, Archived, Work, Entries
  <2>2. Identity' /\ Given' /\ Traced' /\ Coded' /\ Unique'
    BY <1>1 DEF vars, ghosts, IInv, CodeInv, Identity, Given, Traced, Coded, Unique, Live,
       Recalls, RecalledBy, Entries
  <2>3. Witnessed' /\ Owning'
    BY <1>1 DEF vars, seen, IInv, Witnessed, Decided, Owning, Owns, Recalls, RecalledBy
  <2> QED
    BY <2>1, <2>2, <2>3 DEF IInv, CodeInv
<1>2. CASE Next
  <2>1. Step /\ Watch
    BY <1>2 DEF Next
  <2>2. ASSUME NEW j \in Jobs,
               \/ \E dir \in Directions : SyncBegin(j, dir)
               \/ UndoBegin(j)
               \/ \E a \in Accounts : DeleteBegin(j, a) \/ CreateBegin(j, a)
               \/ \E k \in Entries : RestoreBegin(j, k)
        PROVE  IInv'
    BY <2>1, <2>2, BeginKeeps
  <2>3. ASSUME NEW j \in Jobs,
               Sync(j) \/ UndoEnd(j) \/ \E n \in 1 .. 6 : UndoOne(j, n)
        PROVE  IInv'
    BY <2>1, <2>3, SyncKeeps, UndoEndKeeps, UndoKeeps
  <2>4. ASSUME NEW j \in Jobs,
               \/ Archive(j) \/ DeleteClient(j) \/ DeleteRow(j)
               \/ RestoreCheck(j) \/ RestoreClient(j) \/ RestoreRow(j) \/ RestoreMark(j)
               \/ CreateClient(j) \/ CreateRow(j)
        PROVE  IInv'
    BY <2>1, <2>4, ArchiveKeeps, DeleteKeeps, RestoreKeeps, CreateKeeps
  <2>5. CASE PanelEdit \/ Restart
    BY <2>1, <2>5, OutsideKeeps
  <2> QED
    BY <2>1, <2>2, <2>3, <2>4, <2>5 DEF Step
<1> QED
  BY <1>1, <1>2

LEMMA Invariant == Spec => []IInv
BY Initial, Inductive, PTL DEF Spec

-----------------------------------------------------------------------------
(* Every panel, row, archive entry and snapshot keeps its shape, and no    *)
(* two rows have the same code, for all accounts and any requests.         *)
THEOREM TypeCorrect == Spec => []TypeOK
<1>1. IInv => TypeOK
  BY DEF IInv, TypeInv, CodeInv, Tables, Archived, Work, Unique, Entries, TypeOK
<1> QED
  BY <1>1, Invariant, PTL

(* An archived account comes back at most once: wherever the row of an id  *)
(* is remembered it has one code (Identity), the rows restored from an     *)
(* entry have the entry's code (Traced), and no two rows share one.        *)
THEOREM RestoresOnce == Spec => []RestoredOnce
<1>1. IInv => RestoredOnce
  <2> SUFFICES ASSUME IInv, NEW k \in Entries, archive[k].code # None
               PROVE  Cardinality(restored[k] \cap Live(rows)) <= 1
    BY DEF RestoredOnce
  <2> DEFINE S == restored[k] \cap Live(rows)
  <2>1. ASSUME NEW i \in S
        PROVE  rows[i].code = archive[k].code
    <3>1. i \in Ids /\ rows[i] \in RowSet /\ Recalls(i, rows[i])
      BY DEF Live, Recalls, IInv, TypeInv, Tables
    <3> QED
      BY <3>1 DEF IInv, CodeInv, Traced
  <2>2. \A i, n \in S : i = n
    BY <2>1 DEF IInv, CodeInv, Unique
  <2>3. CASE S = {}
    BY <2>3, FS_EmptySet
  <2>4. CASE S # {}
    <3>1. PICK i \in S : TRUE
      BY <2>4
    <3>2. S = {i}
      BY <2>2, <3>1
    <3> QED
      BY <3>2, FS_Singleton
  <2> QED
    BY <2>3, <2>4
<1> QED
  BY <1>1, Invariant, PTL

(* A synchronisation deletes a row only when its client was missing at     *)
(* some moment since it began, and a client only when its row was: the     *)
(* account it works on was seen so (Witnessed), and the row it deletes is  *)
(* that of this account still (Identity).                                  *)
THEOREM DeletesJustified == Spec => DeletionsJustified
<1>1. ASSUME IInv, NEW j \in Jobs, Make(j, "del")
      PROVE  /\ \A i \in Live(rows) \ Live(rows') : rows[i].acct \in clientless
             /\ Clients(panel) \ Clients(panel') \subseteq rowless
  <2> DEFINE a == job[j].item[1]
             v == job[j].item[2]
             n == Sub(j, a)
  <2>1. /\ job[j] # None /\ job[j].kind = "sync" /\ job[j].at = "del" /\ job[j].item # None
        /\ Is(j, "sync", "del")
    BY <1>1 DEF Make, Is
  <2>2. /\ job[j] \in Syncs
        /\ a \in Todo("del", job[j].dir, job[j].L, job[j].B)
    BY <1>1, <2>1, InPhase DEF Phases
  <2>3. Decided(job[j], clientless, rowless)
    BY <1>1 DEF IInv, Witnessed
  <2>4. /\ rows \in [Ids -> RowSet \cup {None}]
        /\ panel \in [Accounts -> Values \cup {None}]
    BY <1>1 DEF IInv, TypeInv, Tables
  <2>5. CASE job[j].dir = "panel_to_bot"
    <3>1. DropRow(j, a, v)
      BY <1>1, <2>5 DEF Make
    <3>2. n \in Ids /\ job[j].B[n] \in RowSet /\ job[j].B[n].acct = a
      BY <2>2, <2>5, OnList DEF Phases
    <3>3. a \in clientless
      BY <2>1, <2>3, <2>5 DEF Decided
    <3> HIDE DEF n, a, v
    <3>4. Live(rows) \ Live(rows') \subseteq {n}
      BY <2>4, <3>1 DEF DropRow, Live, n
    <3>5. n \in Live(rows) => rows[n].acct = a
      <4>1. Recalls(n, job[j].B[n])
        BY <2>1 DEF Recalls, RecalledBy
      <4>2. n \in Live(rows) => rows[n] \in RowSet /\ Recalls(n, rows[n])
        BY <2>4 DEF Live, Recalls
      <4> QED
        BY <1>1, <3>2, <4>1, <4>2 DEF IInv, CodeInv, Identity, Alike
    <3>6. panel' = panel
      BY <3>1 DEF DropRow
    <3> QED
      BY <3>3, <3>4, <3>5, <3>6
  <2>6. CASE job[j].dir # "panel_to_bot"
    <3>1. DropClient(j, a, v)
      BY <1>1, <2>6 DEF Make
    <3>2. a \in rowless
      BY <2>1, <2>3, <2>6 DEF Decided
    <3>3. rows' = rows /\ Clients(panel) \ Clients(panel') \subseteq {a}
      BY <2>4, <3>1 DEF DropClient, Clients
    <3> QED
      BY <3>2, <3>3
  <2> QED
    BY <2>5, <2>6
<1>2. IInv => [\A j \in Jobs : Make(j, "del") =>
                 /\ \A i \in Live(rows) \ Live(rows') : rows[i].acct \in clientless
                 /\ Clients(panel) \ Clients(panel') \subseteq rowless]_vars
  BY <1>1
<1> QED
  BY <1>2, Invariant, PTL DEF DeletionsJustified
=============================================================================
