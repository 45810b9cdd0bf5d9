---------------------------- MODULE SaveStoreProofs ----------------------------
(* Theorems about the save store, for every set of ids, versions, workers    *)
(* and every content of the database at start.                               *)
EXTENDS SaveClients, TLAPS, FiniteSetTheorems, WellFoundedInduction

(***************************************************************************)
(* Rows only ever point at saves that exist.  The invariant is inductive   *)
(* by itself: an insert follows the foreign key, a delete takes the rows   *)
(* with it, a backup of a save that has vanished finds no rows to copy.    *)
(***************************************************************************)

\* The tables after a snapshot (save, import, create_save) keep the foreign keys.
LEMMA SnapshotKeepsReferences ==
    ASSUME ReferentialIntegrity, NEW w, NEW i, NEW turn, NEW schema, NEW log,
           Snapshot(w, i, turn, schema, log)
    PROVE  ReferentialIntegrity'
  BY DEF Snapshot, ReferentialIntegrity, Exists, Put, EventsOf, tables

LEMMA NextKeepsReferences ==
    ASSUME ReferentialIntegrity, [Next]_vars
    PROVE  ReferentialIntegrity'
  <1>1. CASE UNCHANGED vars
    BY <1>1 DEF vars, ReferentialIntegrity, Exists
  <1>2. ASSUME UNCHANGED tables PROVE ReferentialIntegrity'
    BY <1>2 DEF tables, ReferentialIntegrity, Exists
  <1>3. CASE SessionNext \/ PlayNext
    BY <1>2, <1>3 DEF SessionNext, PlayNext, StartGame, Play, LoadState, LoadExists, LoadEvents, Crash
  <1>4. CASE SaveNext
    BY <1>4, SnapshotKeepsReferences DEF SaveNext, SaveGame
  <1>5. CASE MigrationNext
    <2>1. PICK w \in Workers :
              \/ \E i \in DOMAIN saves : MigrateCheck(w, i) \/ RestorePlan(w, i)
              \/ MigrateFail(w) \/ RestoreRead(w)
              \/ MigrateBackup(w) \/ MigrateApply(w)
              \/ RecordFailure(w) \/ RestoreWrite(w)
      BY <1>5 DEF MigrationNext
    <2>2. CASE \/ \E i \in DOMAIN saves : MigrateCheck(w, i) \/ RestorePlan(w, i)
               \/ MigrateFail(w) \/ RestoreRead(w)
      BY <1>2, <2>2 DEF MigrateCheck, RestorePlan, MigrateFail, RestoreRead
    <2>3. CASE MigrateBackup(w)
      BY <2>3 DEF MigrateBackup, BackupEvents, ReferentialIntegrity, Exists, Put, EventsOf, tables
    <2>4. CASE MigrateApply(w)
      BY <2>4 DEF MigrateApply, ReferentialIntegrity, Exists
    <2>5. CASE RecordFailure(w)
      BY <2>5 DEF RecordFailure, ReferentialIntegrity, Exists
    <2>6. CASE RestoreWrite(w)
      BY <2>6 DEF RestoreWrite, ReferentialIntegrity, Exists
    <2> QED BY <2>1, <2>2, <2>3, <2>4, <2>5, <2>6
  <1>6. CASE DeleteNext
    BY <1>6 DEF DeleteNext, DeleteSave, ReferentialIntegrity, Exists, EventsOf, tables
  <1>7. CASE BundleNext
    BY <1>2, <1>7, SnapshotKeepsReferences DEF BundleNext, ExportSave, ImportSave
  <1>8. CASE ServiceNext
    <2>1. PICK w \in Workers :
              \/ \E s \in SessionIds, b \in BaseIds : CreateSave(w, s, b)
              \/ \E s \in SessionIds : StepAndPersist(w, s)
              \/ SaveState(w) \/ AppendExists(w) \/ AppendSeq(w) \/ AppendInsert(w)
              \/ \E i, ms, replace : MemoryExists(w, i, ms, replace)
              \/ MemoryWrite(w)
      BY <1>8 DEF ServiceNext
    <2>2. CASE \/ \E s \in SessionIds : StepAndPersist(w, s)
               \/ AppendExists(w) \/ AppendSeq(w)
               \/ \E i, ms, replace : MemoryExists(w, i, ms, replace)
      BY <1>2, <2>2 DEF StepAndPersist, AppendExists, AppendSeq, MemoryExists
    <2>3. CASE \E s \in SessionIds, b \in BaseIds : CreateSave(w, s, b)
      BY <2>3, SnapshotKeepsReferences DEF CreateSave
    <2>4. CASE SaveState(w)
      BY <2>4 DEF SaveState, ReferentialIntegrity, Exists, Put
    <2>5. CASE AppendInsert(w)
      BY <2>5 DEF AppendInsert, InsertAllowed, ReferentialIntegrity, Exists
    <2>6. CASE MemoryWrite(w)
      BY <2>6 DEF MemoryWrite, ReferentialIntegrity, Exists
    <2> QED BY <2>1, <2>2, <2>3, <2>4, <2>5, <2>6
  <1> QED
    BY <1>1, <1>3, <1>4, <1>5, <1>6, <1>7, <1>8 DEF Next

\* No stored event or memory outlives its save (repository.py: delete_save,
\* append_event and the FOREIGN KEY clauses), for every interleaving.
THEOREM ReferencesHold == Spec => []ReferentialIntegrity
  <1>1. Init => ReferentialIntegrity
    BY OldDataAssumption DEF Init, ReferentialIntegrity, Exists
  <1>2. ReferentialIntegrity /\ [Next]_vars => ReferentialIntegrity'
    BY NextKeepsReferences
  <1> QED BY <1>1, <1>2, PTL DEF Spec

-----------------------------------------------------------------------------
(***************************************************************************)
(* Types.  NextSeq is a maximum, and Listings counts rows: both need that  *)
(* a save has finitely many events, which Finite adds to the types.        *)
(***************************************************************************)

HasMax(A) == \E x \in A : \A y \in A : y <= x

LEMMA FiniteMax ==
    ASSUME NEW S, S \subseteq Nat, IsFiniteSet(S), S # {}
    PROVE  HasMax(S)
<1> SUFFICES ASSUME ~HasMax(S) PROVE FALSE
  OBVIOUS
<1> DEFINE T == {A \in FiniteSubsetsOf(S) : A # {} /\ ~HasMax(A)}
<1>1. S \in T
  BY DEF FiniteSubsetsOf
<1>2. PICK A \in T : \A B \in T : ~(<<B, A>> \in StrictSubsetOrdering(S))
  <2>1. T \subseteq FiniteSubsetsOf(S) /\ T # {}
    BY <1>1
  <2> HIDE DEF T
  <2> QED BY <2>1, WFMin, FS_StrictSubsetOrderingWellFounded
<1>3. A \subseteq S /\ IsFiniteSet(A) /\ A # {} /\ ~HasMax(A)
  BY DEF FiniteSubsetsOf
<1>4. PICK x \in A : TRUE
  BY <1>3
<1> DEFINE B == A \ {x}
<1>5. B \subseteq S /\ IsFiniteSet(B)
  BY <1>3, FS_RemoveElement
<1>6. <<B, A>> \in StrictSubsetOrdering(S)
  BY <1>3, <1>5, <1>4 DEF StrictSubsetOrdering
<1>7. B = {} \/ HasMax(B)
  BY <1>2, <1>5, <1>6 DEF FiniteSubsetsOf
<1>8. CASE B = {}
  <2>1. A = {x} /\ x \in Nat
    BY <1>3, <1>8
  <2> QED BY <2>1, <1>3 DEF HasMax
<1>9. CASE HasMax(B)
  <2>1. PICK y \in B : \A z \in B : z <= y
    BY <1>9 DEF HasMax
  <2>2. x \in Nat /\ y \in Nat /\ \A z \in A : z \in Nat /\ (z = x \/ z <= y)
    BY <1>3, <2>1
  <2>3. (\A z \in A : z <= x) \/ (\A z \in A : z <= y)
    BY <2>2
  <2> QED BY <2>1, <2>3, <1>3, <1>4 DEF HasMax
<1> QED BY <1>7, <1>8, <1>9

\* The image of a finite set under a function is finite.
LEMMA FiniteImage ==
    ASSUME NEW S, IsFiniteSet(S), NEW f, f \in [S -> {f[x] : x \in S}]
    PROVE  IsFiniteSet({f[x] : x \in S})
<1> DEFINE T == {f[x] : x \in S}
<1>1. f \in Surjection(S, T)
  BY DEF Surjection
<1> QED BY <1>1, FS_Surjection

\* SELECT COALESCE(MAX(sequence), -1) + 1 is above every sequence of the save.
LEMMA NextSeqType ==
    ASSUME events \subseteq EventRow, IsFiniteSet(events), NEW i
    PROVE  NextSeq(i) \in Nat /\ \A r \in EventsOf(i) : r.seq < NextSeq(i)
<1>1. CASE EventsOf(i) = {}
  BY <1>1 DEF NextSeq
<1>2. CASE EventsOf(i) # {}
  <2> DEFINE S == {r.seq : r \in EventsOf(i)}
             f == [r \in EventsOf(i) |-> r.seq]
  <2>1. IsFiniteSet(EventsOf(i)) /\ EventsOf(i) \subseteq EventRow
    BY FS_Subset DEF EventsOf
  <2>2. S = {f[r] : r \in EventsOf(i)} /\ f \in [EventsOf(i) -> {f[r] : r \in EventsOf(i)}]
    OBVIOUS
  <2>3. IsFiniteSet(S)
    <3> HIDE DEF S, f
    <3> QED BY <2>1, <2>2, FiniteImage
  <2>4. S \subseteq Nat /\ S # {}
    BY <1>2, <2>1 DEF EventRow
  <2>5. \E n \in S : \A m \in S : m <= n
    <3> HIDE DEF S
    <3> QED BY <2>3, <2>4, FiniteMax DEF HasMax
  <2>6. \E n \in S : \A r \in EventsOf(i) : r.seq <= n
    BY <2>5
  <2> DEFINE max == CHOOSE n \in S : \A r \in EventsOf(i) : r.seq <= n
  <2>7. max \in S /\ \A r \in EventsOf(i) : r.seq <= max
    BY <2>6
  <2>8. NextSeq(i) = 1 + max
    BY <1>2 DEF NextSeq
  <2>9. max \in Nat /\ \A r \in EventsOf(i) : r.seq \in Nat
    BY <2>1, <2>4, <2>7 DEF EventRow
  <2> HIDE DEF max
  <2> QED BY <2>7, <2>8, <2>9
<1> QED BY <1>1, <1>2

\* What list_events returns is a log.
LEMMA ListingsType ==
    ASSUME events \subseteq EventRow, IsFiniteSet(events), NEW i, NEW log \in Listings(i)
    PROVE  log \in Seq(Event)
<1> DEFINE c == Cardinality(EventsOf(i))
<1>1. c \in Nat /\ EventsOf(i) \subseteq EventRow
  BY FS_Subset, FS_CardinalityType DEF EventsOf
<1>2. PICK f \in [1..c -> EventsOf(i)] : log = [k \in 1..c |-> f[k].ev]
  BY DEF Listings
<1>3. \A k \in 1..c : f[k].ev \in Event
  BY <1>1, <1>2 DEF EventRow
<1>4. log \in [1..c -> Event]
  BY <1>2, <1>3
<1> HIDE DEF c
<1> QED BY <1>1, <1>4

LoadReq == [pc : {"load_exists", "load_events"}, save : SaveIds, turn : Nat, schema : Versions]
KeepReq == [pc : {"backup", "migrate", "record"}, save : SaveIds, backup : SaveIds]
RestoreReq == [pc : {"restore"}, save : SaveIds, backup : SaveIds]
RestoreWriteReq == [pc : {"restore_write"}, save : SaveIds, row : Row]
SaveStateReq == [pc : {"save_state"}, save : SaveIds, turn : Nat, schema : Versions, ev : Event]
AppendReq == [pc : {"append", "append_seq"}, save : SaveIds, ev : Event]
InsertReq == [pc : {"append_insert"}, save : SaveIds, ev : Event, seq : Nat]
MemoryReq == [pc : {"memory"}, save : SaveIds, ids : SUBSET MemoryIds, replace : BOOLEAN]

LEMMA RequestUnion ==
    Request = {Idle} \cup LoadReq \cup KeepReq \cup RestoreReq \cup RestoreWriteReq
              \cup SaveStateReq \cup AppendReq \cup InsertReq \cup MemoryReq
BY DEF Request, LoadReq, KeepReq, RestoreReq, RestoreWriteReq, SaveStateReq, AppendReq,
       InsertReq, MemoryReq

\* The block a request runs next tells its fields.
LEMMA RequestShape ==
    ASSUME NEW r \in Request
    PROVE  /\ r.pc \in {"load_exists", "load_events"} => r \in LoadReq
           /\ r.pc \in {"backup", "migrate", "record"} => r \in KeepReq
           /\ r.pc = "restore" => r \in RestoreReq
           /\ r.pc = "restore_write" => r \in RestoreWriteReq
           /\ r.pc = "save_state" => r \in SaveStateReq
           /\ r.pc \in {"append", "append_seq"} => r \in AppendReq
           /\ r.pc = "append_insert" => r \in InsertReq
           /\ r.pc = "memory" => r \in MemoryReq
<1>1. Idle.pc = "idle"
  BY DEF Idle
<1>2. /\ \A x \in LoadReq : x.pc \in {"load_exists", "load_events"}
      /\ \A x \in KeepReq : x.pc \in {"backup", "migrate", "record"}
      /\ \A x \in RestoreReq : x.pc = "restore"
      /\ \A x \in RestoreWriteReq : x.pc = "restore_write"
  BY DEF LoadReq, KeepReq, RestoreReq, RestoreWriteReq
<1>3. /\ \A x \in SaveStateReq : x.pc = "save_state"
      /\ \A x \in AppendReq : x.pc \in {"append", "append_seq"}
      /\ \A x \in InsertReq : x.pc = "append_insert"
      /\ \A x \in MemoryReq : x.pc = "memory"
  BY DEF SaveStateReq, AppendReq, InsertReq, MemoryReq
<1> QED BY <1>1, <1>2, <1>3, RequestUnion

Bundle == [save : SaveIds, turn : Nat, schema : Versions, log : Seq(Event)]

RestOK ==
    /\ sessions \in [SessionIds -> Session]
    /\ used \subseteq Int /\ nextEvent \in Nat /\ crashes \in Nat
    /\ bundle \in {NoBundle} \cup Bundle
ReqOK == req \in [Workers -> Request] /\ reply \in Reply
TablesOK ==
    /\ SavesType
    /\ events \subseteq EventRow /\ IsFiniteSet(events)
    /\ memories \subseteq [save : SaveIds, id : MemoryIds]
    /\ failures \in Seq([save : SaveIds, backup : SaveIds])

LEMMA TypeParts ==
    TypeOK /\ IsFiniteSet(events) <=> TablesOK /\ RestOK /\ ReqOK
BY Zenon DEF TypeOK, TablesOK, RestOK, ReqOK, Bundle

LEMMA GotoType ==
    ASSUME ReqOK, NEW w \in Workers, NEW r \in Request, Goto(w, r)
    PROVE  ReqOK'
BY DEF ReqOK, Goto, Reply

LEMMA FinishType ==
    ASSUME ReqOK, NEW w \in Workers, NEW r \in Reply, Finish(w, r)
    PROVE  ReqOK'
<1>1. Idle \in Request
  BY RequestUnion
<1> QED BY <1>1 DEF ReqOK, Finish

LEMMA BackupIdType ==
    ASSUME NEW i \in SaveIds
    PROVE  /\ BackupId(i) \in SaveIds /\ PreMigrationBackupId(i) \in SaveIds
           /\ \A n \in Nat : Append(BackupId(i), n) \in SaveIds
BY DEF BackupId, PreMigrationBackupId, SaveIds

LEMMA BaseIdType == \A b \in BaseIds : <<b>> \in SaveIds /\ b \in Int
BY BaseIdAssumption DEF SaveIds

\* A snapshot writes one row and one event row for each event of the log.
LEMMA SnapshotType ==
    ASSUME TablesOK, ReqOK, NEW w \in Workers, NEW i \in SaveIds, NEW turn \in Nat,
           NEW schema \in Versions, NEW log \in Seq(Event), Snapshot(w, i, turn, schema, log)
    PROVE  TablesOK' /\ ReqOK'
<1> DEFINE rest == events \ EventsOf(i)
           row(k) == [key |-> RawKey(log[k]), save |-> i, ev |-> log[k], seq |-> k - 1]
           rows == {row(k) : k \in 1..Len(log)}
           hist == IF Exists(i) THEN saves[i].hist ELSE <<>>
           new == [turn |-> turn, schema |-> schema, hist |-> hist]
<1>1. CASE SnapshotClash(rest, rows, log)
  <2>1. Finish(w, "refused") /\ UNCHANGED tables
    BY <1>1 DEF Snapshot
  <2> QED BY <2>1, FinishType DEF tables, TablesOK, Reply, SavesType
<1>2. CASE ~SnapshotClash(rest, rows, log)
  <2>1. /\ saves' = Put(i, new) /\ events' = rest \cup rows /\ Finish(w, "ok")
        /\ UNCHANGED <<memories, failures>>
    BY <1>2 DEF Snapshot
  <2>2. \A k \in 1..Len(log) : row(k) \in EventRow
    <3> TAKE k \in 1..Len(log)
    <3>1. log[k] \in Event /\ k - 1 \in Nat
      OBVIOUS
    <3>2. RawKey(log[k]) \in Key
      BY <3>1 DEF RawKey, Event, Key, SaveIds
    <3> QED BY <3>1, <3>2 DEF EventRow
  <2>3. IsFiniteSet(rows)
    <3> DEFINE f == [k \in 1..Len(log) |-> row(k)]
    <3>1. rows = {f[k] : k \in 1..Len(log)}
      BY Zenon
    <3>2. f \in [1..Len(log) -> {f[k] : k \in 1..Len(log)}]
      BY Zenon
    <3>3. IsFiniteSet(1..Len(log))
      BY FS_Interval
    <3> HIDE DEF f, rows
    <3> QED BY <3>1, <3>2, <3>3, FiniteImage
  <2>4. IsFiniteSet(rest)
    BY FS_Subset DEF TablesOK
  <2>5. hist \in Seq(Versions)
    BY DEF TablesOK, SavesType, Exists, Row
  <2> HIDE DEF hist
  <2>6. new \in Row
    BY <2>5 DEF Row
  <2> HIDE DEF rows, rest, new
  <2>7. IsFiniteSet(events')
    BY <2>1, <2>3, <2>4, FS_Union
  <2>8. events' \subseteq EventRow
    BY <2>1, <2>2 DEF TablesOK, rows, rest
  <2>9. SavesType'
    BY <2>1, <2>6 DEF Put, SavesType, TablesOK
  <2>10. ReqOK'
    BY <2>1, FinishType DEF Reply
  <2> QED BY <2>1, <2>7, <2>8, <2>9, <2>10 DEF TablesOK
<1> QED BY <1>1, <1>2

\* A backup copies the rows of the events under the new id.
LEMMA BackupEventsType ==
    ASSUME TablesOK, NEW b \in SaveIds, NEW i
    PROVE  BackupEvents(b, i) \subseteq EventRow /\ IsFiniteSet(BackupEvents(b, i))
<1> DEFINE row(r) == [key |-> BackupKey(b, r.key), save |-> b, ev |-> r.ev, seq |-> r.seq]
           f == [r \in EventsOf(i) |-> row(r)]
<1>1. EventsOf(i) \subseteq EventRow /\ IsFiniteSet(EventsOf(i))
  BY FS_Subset DEF EventsOf, TablesOK
<1>2. \A r \in EventsOf(i) : row(r) \in EventRow
  <2> TAKE r \in EventsOf(i)
  <2>1. r \in EventRow
    BY <1>1
  <2>2. r.key \in Key /\ r.ev \in Event /\ r.seq \in Nat
    BY <2>1 DEF EventRow
  <2>3. <<b>> \o r.key.path \in Seq(SaveIds) /\ r.key.id \in Nat
    BY <2>2 DEF Key
  <2>4. BackupKey(b, r.key) \in Key
    BY <2>3 DEF BackupKey, Key
  <2> QED BY <2>2, <2>4 DEF EventRow
<1>3. BackupEvents(b, i) = {f[r] : r \in EventsOf(i)}
  BY Zenon DEF BackupEvents
<1>4. f \in [EventsOf(i) -> {f[r] : r \in EventsOf(i)}]
  BY Zenon
<1>5. \A r \in EventsOf(i) : f[r] \in EventRow
  BY <1>2
<1> HIDE DEF f
<1>6. IsFiniteSet(BackupEvents(b, i))
  BY <1>1, <1>3, <1>4, FiniteImage
<1> QED BY <1>3, <1>5, <1>6

LEMMA PlannedBackupType ==
    ASSUME TablesOK, NEW i \in SaveIds
    PROVE  PlannedBackup(i) \in SaveIds
<1>1. CASE FailuresOf(i) = {}
  BY <1>1, BackupIdType DEF PlannedBackup
<1>2. CASE FailuresOf(i) # {}
  <2>1. FailuresOf(i) \subseteq 1..Len(failures) /\ Len(failures) \in Nat
    BY DEF FailuresOf, TablesOK
  <2>2. IsFiniteSet(FailuresOf(i)) /\ FailuresOf(i) \subseteq Nat
    <3>1. IsFiniteSet(1..Len(failures))
      BY <2>1, FS_Interval
    <3> QED BY <2>1, <3>1, FS_Subset
  <2>3. \E k \in FailuresOf(i) : \A j \in FailuresOf(i) : j <= k
    BY <1>2, <2>2, FiniteMax DEF HasMax
  <2>4. LatestFailure(i) \in FailuresOf(i)
    BY <2>3 DEF LatestFailure
  <2>5. failures[LatestFailure(i)] \in [save : SaveIds, backup : SaveIds]
    <3> DEFINE F == [save : SaveIds, backup : SaveIds]
    <3>1. failures \in Seq(F)
      BY DEF TablesOK
    <3>2. LatestFailure(i) \in 1..Len(failures)
      BY <2>1, <2>4
    <3> HIDE DEF F
    <3>3. failures[LatestFailure(i)] \in F
      BY <3>1, <3>2
    <3> QED BY <3>3 DEF F
  <2> QED BY <1>2, <2>5 DEF PlannedBackup
<1> QED BY <1>1, <1>2

\* What a step of session s adds.
LEMMA SteppedType ==
    ASSUME RestOK, NEW s \in SessionIds
    PROVE  /\ Stepped(s) \in Session /\ Stepped(s).turn = sessions[s].turn + 1
           /\ [id |-> nextEvent, turn |-> sessions[s].turn + 1] \in Event
<1> DEFINE x == sessions[s]
           e == [id |-> nextEvent, turn |-> x.turn + 1]
           x1 == [x EXCEPT !.turn = @ + 1]
           x2 == [x1 EXCEPT !.log = Append(@, e)]
<1>1. x \in Session
  BY DEF RestOK
<1>2. x.turn + 1 \in Nat /\ nextEvent \in Nat
  BY <1>1 DEF Session, RestOK
<1>3. e \in Event
  BY <1>2 DEF Event
<1>4. x2 = Stepped(s)
  BY DEF Stepped
<1> HIDE DEF x, e
<1>5. x1 \in Session /\ x1.turn = x.turn + 1
  BY <1>1, <1>2 DEF Session
<1>6. Append(x1.log, e) \in Seq(Event)
  BY <1>3, <1>5 DEF Session
<1> HIDE DEF x1
<1>7. x2 \in Session /\ x2.turn = x.turn + 1
  BY <1>5, <1>6 DEF Session
<1> QED BY <1>3, <1>4, <1>7 DEF x, e

LEMMA InitTypes == Init => TypeOK /\ IsFiniteSet(events)
<1> SUFFICES ASSUME Init PROVE TablesOK /\ RestOK /\ ReqOK
  BY TypeParts
<1>1. \A i \in DOMAIN OldSaves : i \in SaveIds /\ i[1] \in Int
  <2> TAKE i \in DOMAIN OldSaves
  <2>1. i \in Seq(Nat) /\ Len(i) = 1
    BY OldDataAssumption
  <2>2. i[1] \in Nat
    BY <2>1
  <2>3. i \in Seq(Int)
    BY <2>1
  <2> QED BY <2>2, <2>3 DEF SaveIds
<1>2. SavesType
  BY <1>1, OldDataAssumption DEF Init, SavesType
<1>3. memories \subseteq [save : SaveIds, id : MemoryIds]
  BY <1>1, OldDataAssumption DEF Init
<1>4. failures \in Seq([save : SaveIds, backup : SaveIds])
  BY DEF Init
<1>5. TablesOK
  BY <1>2, <1>3, <1>4, OldDataAssumption DEF Init, TablesOK
<1>6. NoSession \in Session
  BY VersionAssumption DEF NoSession, Session, SaveIds
<1>7. nextEvent \in Nat
  BY OldDataAssumption, FS_CardinalityType DEF Init
<1>8. RestOK
  BY <1>1, <1>6, <1>7 DEF Init, RestOK
<1>9. ReqOK
  BY RequestUnion DEF Init, ReqOK, Reply
<1> QED BY <1>5, <1>8, <1>9

LEMMA NextKeepsTypes ==
    ASSUME TypeOK, IsFiniteSet(events), [Next]_vars
    PROVE  TypeOK' /\ IsFiniteSet(events)'
<1>1. TablesOK /\ RestOK /\ ReqOK
  BY TypeParts
<1>2. SUFFICES TablesOK' /\ RestOK' /\ ReqOK'
  BY Zenon DEF TypeOK, TablesOK, RestOK, ReqOK, Bundle, SavesType
<1> USE <1>1
<1>3. ASSUME UNCHANGED tables PROVE TablesOK'
  BY <1>3 DEF tables, TablesOK, SavesType
<1>4. ASSUME UNCHANGED <<sessions, used, nextEvent, bundle, crashes>> PROVE RestOK'
  BY <1>4 DEF RestOK
<1>5. CASE UNCHANGED vars
  BY <1>3, <1>4, <1>5 DEF vars, tables, ReqOK
<1>6. \A w \in Workers : req[w] \in Request
  BY DEF ReqOK
<1>7. \A i \in DOMAIN saves : i \in SaveIds /\ saves[i] \in Row
                              /\ saves[i].turn \in Nat /\ saves[i].schema \in Versions
  BY DEF TablesOK, SavesType, Row
<1>8. \A s \in SessionIds : /\ sessions[s] \in Session /\ sessions[s].turn \in Nat
                            /\ sessions[s].schema \in Versions /\ sessions[s].log \in Seq(Event)
                            /\ sessions[s].save \in SaveIds
  BY DEF RestOK, Session
<1>9. \A v \in Versions : LoadedSchema(v) \in Versions
  BY VersionAssumption DEF LoadedSchema
<1>10. CASE SessionNext
  <2>1. ASSUME NEW s \in SessionIds, StartGame(s)
        PROVE  <1>2!1
    <3>1. [sessions[s] EXCEPT !.live = TRUE] \in Session
      BY <1>8 DEF Session
    <3>2. sessions' \in [SessionIds -> Session]
      BY <2>1, <3>1 DEF StartGame, RestOK
    <3> QED BY <1>3, <2>1, <3>2 DEF StartGame, RestOK, ReqOK, Reply
  <2>2. ASSUME NEW w \in Workers, NEW i \in DOMAIN saves, LoadState(w, i)
        PROVE  <1>2!1
    <3>1. [pc |-> "load_exists", save |-> i, turn |-> saves[i].turn,
           schema |-> LoadedSchema(saves[i].schema)] \in Request
      BY <1>7, <1>9, RequestUnion DEF LoadReq
    <3> QED BY <1>3, <1>4, <2>2, <3>1, GotoType, FinishType DEF LoadState, Reply
  <2>3. ASSUME NEW w \in Workers, LoadExists(w)
        PROVE  <1>2!1
    <3>1. req[w] \in LoadReq
      BY <1>6, <2>3, RequestShape DEF LoadExists, At
    <3>2. [req[w] EXCEPT !.pc = "load_events"] \in LoadReq
      BY <3>1 DEF LoadReq
    <3> QED BY <1>3, <1>4, <2>3, <3>2, RequestUnion, GotoType, FinishType DEF LoadExists, Reply
  <2>4. ASSUME NEW w \in Workers, NEW s \in SessionIds, LoadEvents(w, s)
        PROVE  <1>2!1
    <3>1. req[w] \in LoadReq
      BY <1>6, <2>4, RequestShape DEF LoadEvents, At
    <3>2. req[w].turn \in Nat /\ req[w].schema \in Versions /\ req[w].save \in SaveIds
      BY <3>1 DEF LoadReq
    <3>3. PICK log \in Listings(req[w].save) :
            IF Ordered(log)
            THEN /\ sessions' = [sessions EXCEPT ![s] =
                       [live |-> TRUE, turn |-> req[w].turn, schema |-> req[w].schema,
                        log |-> log, save |-> req[w].save]]
                 /\ Finish(w, "ok")
            ELSE Finish(w, "uncaught") /\ UNCHANGED sessions
      BY <2>4 DEF LoadEvents
    <3>4. log \in Seq(Event)
      BY ListingsType DEF TablesOK
    <3>5. [live |-> TRUE, turn |-> req[w].turn, schema |-> req[w].schema,
           log |-> log, save |-> req[w].save] \in Session
      BY <3>2, <3>4 DEF Session
    <3>6. sessions' \in [SessionIds -> Session]
      BY <3>3, <3>5 DEF RestOK
    <3>7. ReqOK'
      BY <3>3, FinishType DEF Reply
    <3>8. UNCHANGED <<tables, used, nextEvent, bundle, crashes>>
      BY <2>4 DEF LoadEvents
    <3> QED BY <1>3, <3>6, <3>7, <3>8 DEF RestOK
  <2>5. CASE Crash
    <3>1. NoSession \in Session
      BY VersionAssumption DEF NoSession, Session, SaveIds
    <3>2. Idle \in Request
      BY RequestUnion
    <3> QED BY <1>3, <2>5, <3>1, <3>2 DEF Crash, RestOK, ReqOK, Reply
  <2> QED BY <1>10, <2>1, <2>2, <2>3, <2>4, <2>5 DEF SessionNext
<1>11. CASE PlayNext
  <2>1. PICK s \in SessionIds : Play(s)
    BY <1>11 DEF PlayNext
  <2>2. Stepped(s) \in Session
    BY SteppedType
  <2>3. sessions' = [sessions EXCEPT ![s] = Stepped(s)] /\ nextEvent' = nextEvent + 1
    BY <2>1 DEF Play
  <2>4. sessions' \in [SessionIds -> Session] /\ nextEvent' \in Nat
    BY <2>2, <2>3 DEF RestOK
  <2> QED BY <1>3, <2>1, <2>4 DEF Play, RestOK, ReqOK, Reply
<1>12. CASE SaveNext
  <2>1. PICK w \in Workers, s \in SessionIds, b \in BaseIds : SaveGame(w, s, b)
    BY <1>12 DEF SaveNext
  <2>2. /\ Snapshot(w, <<b>>, sessions[s].turn, sessions[s].schema, sessions[s].log)
        /\ used' = used \cup {b} /\ UNCHANGED <<sessions, nextEvent, bundle, crashes>>
    BY <2>1 DEF SaveGame
  <2>3. TablesOK' /\ ReqOK'
    BY <1>8, <2>2, BaseIdType, SnapshotType
  <2> QED BY <2>2, <2>3, BaseIdType DEF RestOK
<1>13. CASE MigrationNext
  <2>1. ASSUME NEW w \in Workers, NEW i \in DOMAIN saves, MigrateCheck(w, i)
        PROVE  <1>2!1
    <3>1. [pc |-> IF NeedsBackup(i) THEN "backup" ELSE "migrate", save |-> i,
           backup |-> BackupId(i)] \in Request
      BY <1>7, BackupIdType, RequestUnion DEF KeepReq
    <3> QED BY <1>3, <1>4, <2>1, <3>1, GotoType, FinishType DEF MigrateCheck, Reply
  <2>2. ASSUME NEW w \in Workers, MigrateBackup(w)
        PROVE  <1>2!1
    <3> DEFINE i == req[w].save
               b == IF Exists(BackupId(i)) THEN Append(BackupId(i), NextSeq(i)) ELSE BackupId(i)
               r == [req[w] EXCEPT !.pc = "migrate", !.backup = b]
    <3>1. req[w] \in KeepReq /\ i \in SaveIds
      BY <1>6, <2>2, RequestShape DEF MigrateBackup, At, KeepReq
    <3>2. NextSeq(i) \in Nat
      BY NextSeqType DEF TablesOK
    <3>3. b \in SaveIds
      BY <3>1, <3>2, BackupIdType
    <3>4. r \in Request
      <4> HIDE DEF b
      <4>1. r \in KeepReq
        BY <3>1, <3>3 DEF KeepReq
      <4> QED BY <4>1, RequestUnion
    <3>5. CASE Exists(b) /\ Exists(i)
      BY <1>3, <1>4, <2>2, <3>5, FinishType DEF MigrateBackup, Reply
    <3>6. CASE ~(Exists(b) /\ Exists(i))
      <4>1. /\ Goto(w, r)
            /\ saves' = IF Exists(i) THEN Put(b, saves[i]) ELSE saves
            /\ events' = events \cup BackupEvents(b, i)
            /\ memories' = memories \cup
                 {[save |-> b, id |-> m.id] : m \in {x \in memories : x.save = i}}
            /\ UNCHANGED <<failures, sessions, used, nextEvent, bundle, crashes>>
        BY <2>2, <3>6 DEF MigrateBackup
      <4> HIDE DEF b, r
      <4>2. SavesType'
        BY <1>7, <3>3, <4>1 DEF Put, Exists, SavesType, TablesOK
      <4>3. events' \subseteq EventRow /\ IsFiniteSet(events')
        BY <3>3, <4>1, BackupEventsType, FS_Union DEF TablesOK
      <4>4. memories' \subseteq [save : SaveIds, id : MemoryIds]
        BY <3>3, <4>1 DEF TablesOK
      <4>5. ReqOK'
        BY <3>4, <4>1, GotoType
      <4> QED BY <1>4, <4>1, <4>2, <4>3, <4>4, <4>5 DEF TablesOK
    <3> QED BY <3>5, <3>6
  <2>3. ASSUME NEW w \in Workers, MigrateApply(w)
        PROVE  <1>2!1
    <3>1. UNCHANGED <<events, memories, failures, sessions, used, nextEvent, bundle, crashes>>
          /\ (Finish(w, "ok") \/ Finish(w, "not_found"))
      BY <2>3 DEF MigrateApply
    <3>2. ReqOK'
      BY <3>1, FinishType DEF Reply
    <3>3. CASE UNCHANGED saves
      BY <1>3, <1>4, <3>1, <3>2, <3>3 DEF tables
    <3>4. CASE ~UNCHANGED saves
      <4> DEFINE i == req[w].save
      <4>1. i \in DOMAIN saves /\ saves' = [saves EXCEPT ![i] = Migrated(@)]
        BY <2>3, <3>4 DEF MigrateApply, Exists
      <4>2. Migrated(saves[i]) \in Row
        <5> DEFINE r == saves[i]
                   r1 == [r EXCEPT !.schema = Current]
                   r2 == [r1 EXCEPT !.hist = Append(@, r.schema)]
        <5>1. r \in Row
          BY <1>7, <4>1
        <5>2. r2 = Migrated(r)
          BY DEF Migrated
        <5> HIDE DEF r
        <5>3. r1 \in Row /\ Append(r1.hist, r.schema) \in Seq(Versions)
          BY <5>1, VersionAssumption DEF Row
        <5> HIDE DEF r1
        <5>4. r2 \in Row
          BY <5>3 DEF Row
        <5> QED BY <5>2, <5>4 DEF r
      <4>3. SavesType'
        BY <4>1, <4>2 DEF SavesType, TablesOK
      <4> QED BY <1>4, <3>1, <3>2, <4>3 DEF TablesOK
    <3> QED BY <3>3, <3>4
  <2>4. ASSUME NEW w \in Workers, MigrateFail(w)
        PROVE  <1>2!1
    <3>1. req[w] \in KeepReq
      BY <1>6, <2>4, RequestShape DEF MigrateFail, At
    <3>2. [req[w] EXCEPT !.pc = "record"] \in KeepReq
      BY <3>1 DEF KeepReq
    <3> QED BY <1>3, <1>4, <2>4, <3>2, RequestUnion, GotoType DEF MigrateFail
  <2>5. ASSUME NEW w \in Workers, RecordFailure(w)
        PROVE  <1>2!1
    <3> DEFINE F == [save : SaveIds, backup : SaveIds]
               f == [save |-> req[w].save, backup |-> req[w].backup]
    <3>1. req[w] \in KeepReq
      BY <1>6, <2>5, RequestShape DEF RecordFailure, At
    <3>2. f \in F /\ failures \in Seq(F)
      BY <3>1 DEF KeepReq, TablesOK
    <3>3. /\ failures' = Append(failures, f) /\ Finish(w, "failed")
          /\ UNCHANGED <<saves, events, memories, sessions, used, nextEvent, bundle, crashes>>
      BY <2>5 DEF RecordFailure
    <3> HIDE DEF F, f
    <3>4. failures' \in Seq(F)
      BY <3>2, <3>3
    <3>5. ReqOK'
      BY <3>3, FinishType DEF Reply
    <3> QED BY <1>4, <3>3, <3>4, <3>5 DEF TablesOK, SavesType, F
  <2>6. ASSUME NEW w \in Workers, NEW i \in DOMAIN saves, RestorePlan(w, i)
        PROVE  <1>2!1
    <3>1. [pc |-> "restore", save |-> i, backup |-> PlannedBackup(i)] \in Request
      BY <1>7, PlannedBackupType, RequestUnion DEF RestoreReq
    <3> QED BY <1>3, <1>4, <2>6, <3>1, GotoType, FinishType DEF RestorePlan, Reply
  <2>7. ASSUME NEW w \in Workers, RestoreRead(w)
        PROVE  <1>2!1
    <3>1. req[w] \in RestoreReq
      BY <1>6, <2>7, RequestShape DEF RestoreRead, At
    <3>2. ASSUME Exists(req[w].backup)
          PROVE  [pc |-> "restore_write", save |-> req[w].save, row |-> saves[req[w].backup]]
                   \in Request
      BY <1>7, <3>1, <3>2, RequestUnion DEF RestoreReq, RestoreWriteReq, Exists
    <3> QED BY <1>3, <1>4, <2>7, <3>2, GotoType, FinishType DEF RestoreRead, Reply
  <2>8. ASSUME NEW w \in Workers, RestoreWrite(w)
        PROVE  <1>2!1
    <3>1. req[w] \in RestoreWriteReq
      BY <1>6, <2>8, RequestShape DEF RestoreWrite, At
    <3>2. req[w].row \in Row
      BY <3>1 DEF RestoreWriteReq
    <3>3. SavesType'
      BY <2>8, <3>2 DEF RestoreWrite, Exists, SavesType, TablesOK
    <3>4. ReqOK'
      BY <2>8, FinishType DEF RestoreWrite, Reply
    <3>5. UNCHANGED <<events, memories, failures, sessions, used, nextEvent, bundle, crashes>>
      BY <2>8 DEF RestoreWrite
    <3> QED BY <1>4, <3>3, <3>4, <3>5 DEF TablesOK
  <2> QED BY <1>13, <2>1, <2>2, <2>3, <2>4, <2>5, <2>6, <2>7, <2>8 DEF MigrationNext
<1>14. CASE DeleteNext
  <2>1. PICK w \in Workers, i \in DOMAIN saves : DeleteSave(w, i)
    BY <1>14 DEF DeleteNext
  <2>2. /\ events' = events \ EventsOf(i) /\ memories' = {m \in memories : m.save # i}
        /\ saves' = [j \in DOMAIN saves \ {i} |-> saves[j]] /\ Finish(w, "ok")
        /\ UNCHANGED <<failures, sessions, used, nextEvent, bundle, crashes>>
    BY <2>1 DEF DeleteSave, Exists
  <2>3. events' \subseteq EventRow /\ IsFiniteSet(events')
    BY <2>2, FS_Subset DEF TablesOK
  <2>4. SavesType'
    BY <2>2 DEF SavesType, TablesOK
  <2>5. ReqOK'
    BY <2>2, FinishType DEF Reply
  <2> QED BY <1>4, <2>2, <2>3, <2>4, <2>5 DEF TablesOK
<1>15. CASE BundleNext
  <2>1. ASSUME NEW w \in Workers, NEW i \in DOMAIN saves, ExportSave(w, i)
        PROVE  <1>2!1
    <3>1. PICK log \in Listings(i) :
            bundle' = [save |-> i, turn |-> saves[i].turn,
                       schema |-> LoadedSchema(saves[i].schema), log |-> log]
      BY <2>1 DEF ExportSave
    <3>2. log \in Seq(Event)
      BY ListingsType DEF TablesOK
    <3>3. bundle' \in Bundle
      BY <1>7, <1>9, <3>1, <3>2 DEF Bundle
    <3>4. UNCHANGED <<tables, sessions, used, nextEvent, crashes, req>> /\ reply' = "ok"
      BY <2>1 DEF ExportSave
    <3> QED BY <1>3, <3>3, <3>4 DEF RestOK, ReqOK, Reply
  <2>2. ASSUME NEW w \in Workers, NEW overwrite \in BOOLEAN, ImportSave(w, overwrite)
        PROVE  <1>2!1
    <3>1. bundle \in Bundle
      BY <2>2 DEF ImportSave, RestOK
    <3>2. /\ bundle.save \in SaveIds /\ bundle.turn \in Nat
          /\ bundle.schema \in Versions /\ bundle.log \in Seq(Event)
      BY <3>1 DEF Bundle
    <3>3. RestOK'
      BY <1>4, <2>2 DEF ImportSave
    <3>4. CASE Finish(w, "refused") /\ UNCHANGED tables
      BY <1>3, <3>3, <3>4, FinishType DEF Reply
    <3>5. CASE Snapshot(w, bundle.save, bundle.turn, bundle.schema, bundle.log)
      BY <3>2, <3>3, <3>5, SnapshotType
    <3> QED BY <2>2, <3>4, <3>5 DEF ImportSave
  <2> QED BY <1>15, <2>1, <2>2 DEF BundleNext
<1>16. CASE ServiceNext
  <2>1. ASSUME NEW w \in Workers, NEW s \in SessionIds, NEW b \in BaseIds, CreateSave(w, s, b)
        PROVE  <1>2!1
    <3>1. /\ Snapshot(w, <<b>>, sessions[s].turn, sessions[s].schema, sessions[s].log)
          /\ used' = used \cup {b} /\ sessions' = [sessions EXCEPT ![s].save = <<b>>]
          /\ UNCHANGED <<nextEvent, bundle, crashes>>
      BY <2>1 DEF CreateSave
    <3>2. TablesOK' /\ ReqOK'
      BY <1>8, <3>1, BaseIdType, SnapshotType
    <3>3. [sessions[s] EXCEPT !.save = <<b>>] \in Session
      BY <1>8, BaseIdType DEF Session
    <3>4. sessions' \in [SessionIds -> Session]
      BY <3>1, <3>3 DEF RestOK
    <3> QED BY <3>1, <3>2, <3>4, BaseIdType DEF RestOK
  <2>2. ASSUME NEW w \in Workers, NEW s \in SessionIds, StepAndPersist(w, s)
        PROVE  <1>2!1
    <3> DEFINE r == [pc |-> "save_state", save |-> sessions[s].save, turn |-> PersistedTurn(s),
                     schema |-> sessions[s].schema,
                     ev |-> [id |-> nextEvent, turn |-> Stepped(s).turn]]
    <3>1. /\ sessions' = [sessions EXCEPT ![s] = Stepped(s)] /\ nextEvent' = nextEvent + 1
          /\ Goto(w, r) /\ UNCHANGED <<tables, used, bundle, crashes>>
      BY <2>2 DEF StepAndPersist
    <3>2. r \in SaveStateReq
      <4>1. /\ Stepped(s).turn = sessions[s].turn + 1
            /\ [id |-> nextEvent, turn |-> sessions[s].turn + 1] \in Event
        BY SteppedType
      <4>2. PersistedTurn(s) = sessions[s].turn + 1 /\ sessions[s].turn + 1 \in Nat
        BY <1>8, <4>1 DEF PersistedTurn
      <4> QED BY <1>8, <4>1, <4>2 DEF SaveStateReq
    <3> HIDE DEF r
    <3>3. ReqOK'
      BY <3>1, <3>2, RequestUnion, GotoType
    <3>4. Stepped(s) \in Session
      BY SteppedType
    <3>5. sessions' \in [SessionIds -> Session] /\ nextEvent' \in Nat
      BY <3>1, <3>4 DEF RestOK
    <3> QED BY <1>3, <3>1, <3>3, <3>5 DEF RestOK
  <2>3. ASSUME NEW w \in Workers, SaveState(w)
        PROVE  <1>2!1
    <3> DEFINE i == req[w].save
               row == [turn |-> req[w].turn, schema |-> req[w].schema, hist |-> saves[i].hist]
               r == [pc |-> "append", save |-> i, ev |-> req[w].ev]
    <3>1. req[w] \in SaveStateReq
      BY <1>6, <2>3, RequestShape DEF SaveState, At
    <3>2. r \in Request
      BY <3>1, RequestUnion DEF SaveStateReq, AppendReq
    <3>3. UNCHANGED <<events, memories, failures, sessions, used, nextEvent, bundle, crashes>>
      BY <2>3 DEF SaveState
    <3>4. CASE Exists(i)
      <4>1. saves' = Put(i, row) /\ Goto(w, r)
        BY <2>3, <3>4 DEF SaveState
      <4>2. row \in Row /\ i \in SaveIds
        BY <1>7, <3>1, <3>4 DEF SaveStateReq, Exists, Row
      <4> HIDE DEF row, r, i
      <4>3. SavesType'
        BY <4>1, <4>2 DEF Put, SavesType, TablesOK
      <4>4. ReqOK'
        BY <3>2, <4>1, GotoType
      <4> QED BY <1>4, <3>3, <4>3, <4>4 DEF TablesOK
    <3>5. CASE ~Exists(i)
      <4>1. Finish(w, "not_found") /\ UNCHANGED saves
        BY <2>3, <3>5 DEF SaveState
      <4> QED BY <1>3, <1>4, <3>3, <4>1, FinishType DEF tables, Reply
    <3> QED BY <3>4, <3>5
  <2>4. ASSUME NEW w \in Workers, AppendExists(w)
        PROVE  <1>2!1
    <3>1. req[w] \in AppendReq
      BY <1>6, <2>4, RequestShape DEF AppendExists, At
    <3>2. [req[w] EXCEPT !.pc = "append_seq"] \in AppendReq
      BY <3>1 DEF AppendReq
    <3> QED BY <1>3, <1>4, <2>4, <3>2, RequestUnion, GotoType, FinishType DEF AppendExists, Reply
  <2>5. ASSUME NEW w \in Workers, AppendSeq(w)
        PROVE  <1>2!1
    <3>1. req[w] \in AppendReq
      BY <1>6, <2>5, RequestShape DEF AppendSeq, At
    <3>2. NextSeq(req[w].save) \in Nat
      BY NextSeqType DEF TablesOK
    <3>3. [pc |-> "append_insert", save |-> req[w].save, ev |-> req[w].ev,
           seq |-> NextSeq(req[w].save)] \in InsertReq
      BY <3>1, <3>2 DEF AppendReq, InsertReq
    <3> QED BY <1>3, <1>4, <2>5, <3>3, RequestUnion, GotoType DEF AppendSeq
  <2>6. ASSUME NEW w \in Workers, AppendInsert(w)
        PROVE  <1>2!1
    <3> DEFINE new == [key |-> RawKey(req[w].ev), save |-> req[w].save, ev |-> req[w].ev,
                       seq |-> req[w].seq]
    <3>1. req[w] \in InsertReq
      BY <1>6, <2>6, RequestShape DEF AppendInsert, At
    <3>2. new \in EventRow
      <4>1. req[w].ev \in Event /\ req[w].seq \in Nat /\ req[w].save \in SaveIds
        BY <3>1 DEF InsertReq
      <4>2. RawKey(req[w].ev) \in Key
        BY <4>1 DEF RawKey, Event, Key, SaveIds
      <4> QED BY <4>1, <4>2 DEF EventRow
    <3>3. events' = events \cup {new} \/ UNCHANGED events
      BY <2>6 DEF AppendInsert
    <3> HIDE DEF new
    <3>4. events' \subseteq EventRow /\ IsFiniteSet(events')
      BY <3>2, <3>3, FS_AddElement DEF TablesOK
    <3>5. ReqOK'
      BY <2>6, FinishType DEF AppendInsert, Reply
    <3>6. UNCHANGED <<saves, memories, failures, sessions, used, nextEvent, bundle, crashes>>
      BY <2>6 DEF AppendInsert
    <3> QED BY <1>4, <3>4, <3>5, <3>6 DEF TablesOK, SavesType
  <2>7. ASSUME NEW w \in Workers, NEW i \in DOMAIN saves, NEW ms \in SUBSET MemoryIds,
               NEW replace \in BOOLEAN, MemoryExists(w, i, ms, replace)
        PROVE  <1>2!1
    <3>1. [pc |-> "memory", save |-> i, ids |-> ms, replace |-> replace] \in Request
      BY <1>7, RequestUnion DEF MemoryReq
    <3> QED BY <1>3, <1>4, <2>7, <3>1, GotoType, FinishType DEF MemoryExists, Reply
  <2>8. ASSUME NEW w \in Workers, MemoryWrite(w)
        PROVE  <1>2!1
    <3>1. req[w] \in MemoryReq
      BY <1>6, <2>8, RequestShape DEF MemoryWrite, At
    <3>2. req[w].save \in SaveIds /\ req[w].ids \subseteq MemoryIds
      BY <3>1 DEF MemoryReq
    <3>3. memories' \subseteq [save : SaveIds, id : MemoryIds]
      BY <2>8, <3>2 DEF MemoryWrite, TablesOK
    <3>4. ReqOK'
      BY <2>8, FinishType DEF MemoryWrite, Reply
    <3>5. UNCHANGED <<saves, events, failures, sessions, used, nextEvent, bundle, crashes>>
      BY <2>8 DEF MemoryWrite
    <3> QED BY <1>4, <3>3, <3>4, <3>5 DEF TablesOK, SavesType
  <2>9. \A m \in MemoryIds : {m} \in SUBSET MemoryIds
    OBVIOUS
  <2> QED BY <1>16, <2>1, <2>2, <2>3, <2>4, <2>5, <2>6, <2>7, <2>8, <2>9 DEF ServiceNext
<1> QED BY <1>5, <1>10, <1>11, <1>12, <1>13, <1>14, <1>15, <1>16 DEF Next

\* Rows, sessions and requests keep their types under every interleaving.
THEOREM TypeCorrect == Spec => []TypeOK
<1>1. TypeOK /\ IsFiniteSet(events) /\ [Next]_vars => TypeOK' /\ IsFiniteSet(events)'
  BY NextKeepsTypes
<1> QED BY InitTypes, <1>1, PTL DEF Spec

-----------------------------------------------------------------------------
(***************************************************************************)
(* The primary key of stored_events.  A backup's rows carry keys that      *)
(* start with the backup's own id, so the keys of a backup under a free    *)
(* name are new: no row is stored under a save that does not exist.        *)
(***************************************************************************)

KeysNamed == \A r \in events : r.key.path # <<>> => r.key.path[1] = r.save
KeyInv == KeysUnique /\ KeysNamed

LEMMA BackupKeyInjective ==
    ASSUME NEW b \in SaveIds, NEW k \in Key, NEW l \in Key,
           BackupKey(b, k) = BackupKey(b, l)
    PROVE  k = l
<1>1. k.path \in Seq(SaveIds) /\ l.path \in Seq(SaveIds) /\ k.id = l.id
  BY DEF Key, BackupKey
<1>2. <<b>> \o k.path = <<b>> \o l.path
  BY DEF BackupKey
<1>3. Len(<<b>> \o k.path) = 1 + Len(k.path) /\ Len(<<b>> \o l.path) = 1 + Len(l.path)
  BY <1>1
<1>4. Len(k.path) = Len(l.path) /\ Len(k.path) \in Nat
  BY <1>1, <1>2, <1>3
<1>5. ASSUME NEW j \in 1..Len(k.path) PROVE k.path[j] = l.path[j]
  <2>1. (<<b>> \o k.path)[j + 1] = k.path[j] /\ (<<b>> \o l.path)[j + 1] = l.path[j]
    BY <1>1, <1>4
  <2> QED BY <1>2, <2>1
<1>6. k.path = l.path
  BY <1>1, <1>4, <1>5
<1> QED BY <1>1, <1>6 DEF Key

LEMMA BackupKeyNamed ==
    ASSUME NEW b \in SaveIds, NEW k \in Key
    PROVE  BackupKey(b, k).path # <<>> /\ BackupKey(b, k).path[1] = b
<1>1. k.path \in Seq(SaveIds)
  BY DEF Key
<1>2. Len(<<b>> \o k.path) = 1 + Len(k.path) /\ (<<b>> \o k.path)[1] = b
  BY <1>1
<1> QED BY <1>1, <1>2 DEF BackupKey

LEMMA KeysOfFewer ==
    ASSUME KeyInv, events' \subseteq events
    PROVE  KeyInv'
  BY DEF KeyInv, KeysUnique, KeysNamed

LEMMA SnapshotKeepsKeys ==
    ASSUME KeyInv, NEW w, NEW i, NEW turn, NEW schema, NEW log \in Seq(Event),
           Snapshot(w, i, turn, schema, log)
    PROVE  KeyInv'
<1> DEFINE rest == events \ EventsOf(i)
           rows == {[key |-> RawKey(log[k]), save |-> i, ev |-> log[k], seq |-> k - 1]
                       : k \in 1..Len(log)}
<1>1. CASE SnapshotClash(rest, rows, log)
  BY <1>1, KeysOfFewer DEF Snapshot, tables
<1>2. CASE ~SnapshotClash(rest, rows, log)
  <2>1. events' = rest \cup rows
    BY <1>2 DEF Snapshot
  <2>2. \A r \in rows : r.key.path = <<>>
    BY DEF RawKey
  <2>3. \A r, x \in rows : r.key = x.key => r = x
    <3>1. SUFFICES ASSUME NEW a \in 1..Len(log), NEW c \in 1..Len(log),
                          RawKey(log[a]) = RawKey(log[c])
                   PROVE  a = c
      OBVIOUS
    <3>2. log[a].id = log[c].id
      BY <3>1 DEF RawKey
    <3> QED BY <1>2, <3>2 DEF SnapshotClash
  <2>4. \A r \in rest, x \in rows : r.key # x.key
    BY <1>2 DEF SnapshotClash
  <2>5. rest \subseteq events
    OBVIOUS
  <2> HIDE DEF rest, rows
  <2> QED BY <2>1, <2>2, <2>3, <2>4, <2>5 DEF KeyInv, KeysUnique, KeysNamed
<1> QED BY <1>1, <1>2

LEMMA BackupKeepsKeys ==
    ASSUME TypeOK, IsFiniteSet(events), ReferentialIntegrity, KeyInv,
           NEW w \in Workers, MigrateBackup(w)
    PROVE  KeyInv'
<1> DEFINE i == req[w].save
           b == IF Exists(BackupId(i)) THEN Append(BackupId(i), NextSeq(i)) ELSE BackupId(i)
<1>1. CASE events' = events
  BY <1>1, KeysOfFewer
<1>2. CASE EventsOf(i) = {}
  BY <1>1, <1>2 DEF MigrateBackup, BackupEvents, tables
<1>3. CASE events' # events /\ EventsOf(i) # {}
  <2>1. Exists(i)
    BY <1>3 DEF EventsOf, ReferentialIntegrity
  <2>2. ~Exists(b) /\ events' = events \cup BackupEvents(b, i)
    BY <1>3, <2>1 DEF MigrateBackup, tables
  <2>3. b \in SaveIds
    <3>1. i \in SaveIds
      BY <2>1 DEF Exists, TypeOK, SavesType
    <3>2. NextSeq(i) \in Nat
      BY TypeParts, NextSeqType DEF TablesOK
    <3> HIDE DEF i
    <3> QED BY <3>1, <3>2, BackupIdType
  <2> HIDE DEF b, i
  <2>4. \A r \in events : r.save # b
    BY <2>2 DEF ReferentialIntegrity
  <2>5. \A r \in events : r.key \in Key
    BY DEF TypeOK, EventRow
  <2>6. \A x \in BackupEvents(b, i) :
            /\ x.save = b /\ x.key.path # <<>> /\ x.key.path[1] = b
    BY <2>3, <2>5, BackupKeyNamed DEF BackupEvents, EventsOf
  <2>7. \A r, x \in BackupEvents(b, i) : r.key = x.key => r = x
    <3>1. SUFFICES ASSUME NEW r \in EventsOf(i), NEW x \in EventsOf(i),
                          BackupKey(b, r.key) = BackupKey(b, x.key)
                   PROVE  r = x
      BY DEF BackupEvents
    <3>2. r \in events /\ x \in events
      BY DEF EventsOf
    <3>3. r.key = x.key
      BY <2>3, <2>5, <3>1, <3>2, BackupKeyInjective
    <3> QED BY <3>2, <3>3 DEF KeyInv, KeysUnique
  <2>8. \A r \in events, x \in BackupEvents(b, i) : r.key # x.key
    BY <2>4, <2>6 DEF KeyInv, KeysNamed
  <2> QED BY <2>2, <2>6, <2>7, <2>8 DEF KeyInv, KeysUnique, KeysNamed
<1> QED BY <1>1, <1>2, <1>3

LEMMA NextKeepsKeys ==
    ASSUME TypeOK, IsFiniteSet(events), ReferentialIntegrity, KeyInv, [Next]_vars
    PROVE  KeyInv'
<1>1. ASSUME UNCHANGED events PROVE KeyInv'
  BY <1>1, KeysOfFewer
<1>2. \A s \in SessionIds : sessions[s].log \in Seq(Event)
  BY DEF TypeOK, Session
<1>3. CASE UNCHANGED vars \/ SessionNext \/ PlayNext
  BY <1>1, <1>3 DEF vars, tables, SessionNext, PlayNext, StartGame, Play, LoadState,
                    LoadExists, LoadEvents, Crash
<1>4. CASE SaveNext
  BY <1>2, <1>4, SnapshotKeepsKeys DEF SaveNext, SaveGame
<1>5. CASE MigrationNext
  <2>1. PICK w \in Workers :
            \/ \E i \in DOMAIN saves : MigrateCheck(w, i) \/ RestorePlan(w, i)
            \/ MigrateFail(w) \/ RestoreRead(w) \/ MigrateApply(w)
            \/ RecordFailure(w) \/ RestoreWrite(w)
            \/ MigrateBackup(w)
    BY <1>5 DEF MigrationNext
  <2>2. CASE MigrateBackup(w)
    BY <2>2, BackupKeepsKeys
  <2>3. CASE ~MigrateBackup(w)
    BY <1>1, <2>1, <2>3 DEF MigrateCheck, RestorePlan, MigrateFail, RestoreRead,
                            MigrateApply, RecordFailure, RestoreWrite, tables
  <2> QED BY <2>2, <2>3
<1>6. CASE DeleteNext
  BY <1>6, KeysOfFewer DEF DeleteNext, DeleteSave, tables
<1>7. CASE BundleNext
  <2>1. CASE \E w \in Workers, i \in DOMAIN saves : ExportSave(w, i)
    BY <1>1, <2>1 DEF ExportSave, tables
  <2>2. CASE \E w \in Workers, overwrite \in BOOLEAN : ImportSave(w, overwrite)
    <3>1. PICK w \in Workers, overwrite \in BOOLEAN : ImportSave(w, overwrite)
      BY <2>2
    <3>2. bundle.log \in Seq(Event)
      BY <3>1 DEF ImportSave, TypeOK
    <3> QED BY <1>1, <3>1, <3>2, SnapshotKeepsKeys DEF ImportSave, tables
  <2> QED BY <1>7, <2>1, <2>2 DEF BundleNext
<1>8. CASE ServiceNext
  <2>1. PICK w \in Workers :
            \/ \E s \in SessionIds, b \in BaseIds : CreateSave(w, s, b)
            \/ \E s \in SessionIds : StepAndPersist(w, s)
            \/ SaveState(w) \/ AppendExists(w) \/ AppendSeq(w)
            \/ \E i, ms, replace : MemoryExists(w, i, ms, replace)
            \/ MemoryWrite(w)
            \/ AppendInsert(w)
    BY <1>8 DEF ServiceNext
  <2>2. CASE \E s \in SessionIds, b \in BaseIds : CreateSave(w, s, b)
    BY <1>2, <2>2, SnapshotKeepsKeys DEF CreateSave
  <2>3. CASE AppendInsert(w)
    BY <2>3 DEF AppendInsert, InsertAllowed, KeysUsed, RawKey, KeyInv, KeysUnique, KeysNamed
  <2>4. CASE \/ \E s \in SessionIds : StepAndPersist(w, s)
             \/ SaveState(w) \/ AppendExists(w) \/ AppendSeq(w)
             \/ \E i, ms, replace : MemoryExists(w, i, ms, replace)
             \/ MemoryWrite(w)
    BY <1>1, <2>4 DEF StepAndPersist, SaveState, AppendExists, AppendSeq, MemoryExists,
                      MemoryWrite, tables
  <2> QED BY <2>1, <2>2, <2>3, <2>4
<1> QED BY <1>3, <1>4, <1>5, <1>6, <1>7, <1>8 DEF Next

\* event_id stays a key over all saves: snapshots refuse a clash, inserts
\* follow the primary key, and a backup's keys are new (repository.py
\* save_snapshot, append_event, _create_backup_in_connection).
THEOREM KeysStayUnique == Spec => []KeysUnique
<1>1. Init => KeyInv
  <2>1. ASSUME NEW r \in OldEvents PROVE r.key.path = <<>>
    <3>1. r.key = RawKey(r.ev)
      BY OldDataAssumption
    <3>2. RawKey(r.ev).path = <<>>
      BY DEF RawKey
    <3> QED BY <3>1, <3>2
  <2>2. \A r, x \in OldEvents : r.key = x.key => r = x
    BY OldDataAssumption
  <2> QED BY <2>1, <2>2 DEF Init, KeyInv, KeysUnique, KeysNamed
<1>2. /\ TypeOK /\ IsFiniteSet(events) /\ ReferentialIntegrity /\ KeyInv /\ [Next]_vars
      => KeyInv'
  BY NextKeepsKeys
<1>3. TypeOK /\ IsFiniteSet(events) /\ [Next]_vars => TypeOK' /\ IsFiniteSet(events)'
  BY NextKeepsTypes
<1>4. KeyInv => KeysUnique
  BY DEF KeyInv
<1> QED BY InitTypes, ReferencesHold, <1>1, <1>2, <1>3, <1>4, PTL DEF Spec

-----------------------------------------------------------------------------
(***************************************************************************)
(* A migration takes effect once.  The history of a row is not enough: that *)
(* no version is appended twice needs the version of the row beside it, for *)
(* the rows of the table and for the row a restore has read from a backup   *)
(* and not written yet.                                                     *)
(***************************************************************************)

HistoriesInv ==
    /\ \A i \in DOMAIN saves : Unrepeated(saves[i])
    /\ \A w \in Workers : At(w, "restore_write") => Unrepeated(req[w].row)

\* A migration appends a version the history does not name.
LEMMA MigratedUnrepeated ==
    ASSUME NEW row \in Row, Unrepeated(row), row.schema # Current
    PROVE  Unrepeated(Migrated(row))
<1>1. row.hist \in Seq(Versions) /\ row.schema \in Versions
  BY DEF Row
<1>2. Migrated(row).schema = Current /\ Migrated(row).hist = Append(row.hist, row.schema)
  BY DEF Migrated, Row
<1>3. /\ \A a, b \in 1..Len(row.hist) : row.hist[a] = row.hist[b] => a = b
      /\ \A k \in 1..Len(row.hist) : row.hist[k] # row.schema
  BY <1>1 DEF Unrepeated
<1>4. ASSUME NEW a \in DOMAIN Append(row.hist, row.schema),
             NEW b \in DOMAIN Append(row.hist, row.schema),
             Append(row.hist, row.schema)[a] = Append(row.hist, row.schema)[b]
      PROVE  a = b
  BY <1>1, <1>3, <1>4
<1> QED BY <1>2, <1>4 DEF Unrepeated

\* A row written with the history it had, in a step that rewrites no state of a
\* migrated version.
LEMMA SameHistoryUnrepeated ==
    ASSUME NEW i \in DOMAIN saves \cap DOMAIN saves', Unrepeated(saves[i]),
           saves'[i].hist = saves[i].hist, ~RewritesMigrated
    PROVE  Unrepeated(saves'[i])
BY DEF Unrepeated, RewritesMigrated

\* A request that is about to write no restored row.
LEMMA OtherRequest ==
    ASSUME NEW w \in Workers, TypeOK, HistoriesInv, NEW r,
           req' = [req EXCEPT ![w] = r], r.pc # "restore_write"
    PROVE  (\A x \in Workers : At(x, "restore_write") => Unrepeated(req[x].row))'
BY DEF TypeOK, HistoriesInv, At

LEMMA EndedRequest ==
    ASSUME NEW w \in Workers, TypeOK, HistoriesInv, NEW r, Finish(w, r)
    PROVE  (\A x \in Workers : At(x, "restore_write") => Unrepeated(req[x].row))'
<1>1. Idle.pc # "restore_write"
  BY DEF Idle
<1> QED BY <1>1, OtherRequest DEF Finish

\* The tables after a snapshot: a new row starts without a history, one that
\* was there keeps its own.
LEMMA SnapshotUnrepeated ==
    ASSUME TypeOK, HistoriesInv, ~RewritesMigrated, NEW w \in Workers, NEW i, NEW turn,
           NEW schema, NEW log, Snapshot(w, i, turn, schema, log)
    PROVE  HistoriesInv'
<1>1. (\A x \in Workers : At(x, "restore_write") => Unrepeated(req[x].row))'
  BY EndedRequest DEF Snapshot
<1>2. \A j \in DOMAIN saves' : Unrepeated(saves'[j])
  <2>1. CASE saves' = saves
    BY <2>1 DEF HistoriesInv
  <2>2. CASE saves' = Put(i, [turn |-> turn, schema |-> schema,
                              hist |-> IF Exists(i) THEN saves[i].hist ELSE <<>>])
    <3>1. DOMAIN saves' = DOMAIN saves \cup {i}
      BY <2>2 DEF Put
    <3>2. ASSUME NEW j \in DOMAIN saves, j # i PROVE Unrepeated(saves'[j])
      BY <2>2, <3>2 DEF Put, HistoriesInv
    <3>3. CASE Exists(i)
      <4>1. saves'[i].hist = saves[i].hist /\ i \in DOMAIN saves \cap DOMAIN saves'
        BY <2>2, <3>1, <3>3 DEF Put, Exists
      <4>2. Unrepeated(saves'[i])
        BY <4>1, SameHistoryUnrepeated DEF HistoriesInv
      <4> QED BY <3>1, <3>2, <4>2
    <3>4. CASE ~Exists(i)
      <4>1. saves'[i].hist = <<>>
        BY <2>2, <3>4 DEF Put
      <4>2. Unrepeated(saves'[i])
        BY <4>1 DEF Unrepeated
      <4> QED BY <3>1, <3>2, <4>2
    <3> QED BY <3>3, <3>4
  <2> QED BY <2>1, <2>2 DEF Snapshot, tables
<1> QED BY <1>1, <1>2 DEF HistoriesInv

LEMMA NextKeepsHistories ==
    ASSUME TypeOK, HistoriesInv, [Next /\ ~RewritesMigrated]_vars
    PROVE  HistoriesInv'
<1>1. CASE UNCHANGED vars
  BY <1>1 DEF vars, tables, HistoriesInv, At
<1> SUFFICES ASSUME Next, ~RewritesMigrated PROVE HistoriesInv'
  BY <1>1
<1>2. ASSUME saves' = saves, NEW w \in Workers, NEW r, Finish(w, r)
      PROVE  HistoriesInv'
  BY <1>2, EndedRequest DEF HistoriesInv
<1>3. ASSUME saves' = saves, NEW w \in Workers, NEW r, r.pc # "restore_write",
             Goto(w, r)
      PROVE  HistoriesInv'
  BY <1>3, OtherRequest DEF Goto, HistoriesInv
<1>4. ASSUME saves' = saves, req' = req PROVE HistoriesInv'
  BY <1>4 DEF HistoriesInv, At
<1>5. CASE SessionNext \/ PlayNext
  <2>1. CASE \E s \in SessionIds : StartGame(s) \/ Play(s)
    BY <2>1, <1>4 DEF StartGame, Play, tables
  <2>2. ASSUME NEW w \in Workers, NEW i \in DOMAIN saves, LoadState(w, i)
        PROVE  HistoriesInv'
    BY <2>2, <1>2, <1>3 DEF LoadState, tables
  <2>3. ASSUME NEW w \in Workers, LoadExists(w) PROVE HistoriesInv'
    <3>1. CASE Exists(req[w].save)
      <4>1. [req[w] EXCEPT !.pc = "load_events"].pc # "restore_write"
        BY <2>3, RequestShape DEF LoadExists, At, TypeOK, LoadReq
      <4> QED BY <2>3, <3>1, <4>1, <1>3 DEF LoadExists, tables
    <3>2. CASE ~Exists(req[w].save)
      BY <2>3, <3>2, <1>2 DEF LoadExists, tables
    <3> QED BY <3>1, <3>2
  <2>4. ASSUME NEW w \in Workers, NEW s \in SessionIds, LoadEvents(w, s) PROVE HistoriesInv'
    BY <2>4, <1>2 DEF LoadEvents, tables
  <2>5. CASE Crash
    <3>1. \A w \in Workers : req'[w] = Idle
      BY <2>5 DEF Crash
    <3>2. saves' = saves /\ Idle.pc = "idle"
      BY <2>5 DEF Crash, tables, Idle
    <3> QED BY <3>1, <3>2 DEF HistoriesInv, At
  <2> QED BY <1>5, <2>1, <2>2, <2>3, <2>4, <2>5 DEF SessionNext, PlayNext
<1>6. CASE SaveNext
  BY <1>6, SnapshotUnrepeated DEF SaveNext, SaveGame
<1>7. CASE MigrationNext
  <2>1. PICK w \in Workers :
            \/ \E i \in DOMAIN saves : MigrateCheck(w, i)
            \/ MigrateBackup(w) \/ MigrateApply(w) \/ MigrateFail(w) \/ RecordFailure(w)
            \/ \E i \in DOMAIN saves : RestorePlan(w, i)
            \/ RestoreRead(w) \/ RestoreWrite(w)
    BY <1>7 DEF MigrationNext
  <2>2. ASSUME NEW i \in DOMAIN saves, MigrateCheck(w, i) PROVE HistoriesInv'
    <3>1. [pc |-> IF NeedsBackup(i) THEN "backup" ELSE "migrate",
           save |-> i, backup |-> BackupId(i)].pc # "restore_write"
      OBVIOUS
    <3> QED BY <2>2, <3>1, <1>2, <1>3 DEF MigrateCheck, tables
  <2>3. ASSUME NEW i \in DOMAIN saves, RestorePlan(w, i) PROVE HistoriesInv'
    BY <2>3, <1>2, <1>3 DEF RestorePlan, tables
  <2>4. CASE MigrateBackup(w)
    <3>1. PICK i, b :
              /\ i = req[w].save
              /\ \/ Finish(w, "uncaught") /\ UNCHANGED tables
                 \/ /\ Goto(w, [req[w] EXCEPT !.pc = "migrate", !.backup = b])
                    /\ saves' = IF Exists(i) THEN Put(b, saves[i]) ELSE saves
      BY <2>4 DEF MigrateBackup
    <3>2. CASE Finish(w, "uncaught") /\ UNCHANGED tables
      BY <3>2, <1>2 DEF tables
    <3>3. CASE /\ Goto(w, [req[w] EXCEPT !.pc = "migrate", !.backup = b])
               /\ saves' = IF Exists(i) THEN Put(b, saves[i]) ELSE saves
      <4>1. [req[w] EXCEPT !.pc = "migrate", !.backup = b].pc # "restore_write"
        BY <2>4, RequestShape DEF MigrateBackup, At, TypeOK, KeepReq
      <4>2. (\A x \in Workers : At(x, "restore_write") => Unrepeated(req[x].row))'
        BY <3>3, <4>1, OtherRequest DEF Goto
      <4>3. \A j \in DOMAIN saves' : Unrepeated(saves'[j])
        BY <3>3 DEF HistoriesInv, Put, Exists
      <4> QED BY <4>2, <4>3 DEF HistoriesInv
    <3> QED BY <3>1, <3>2, <3>3
  <2>5. CASE MigrateApply(w)
    <3>1. (\A x \in Workers : At(x, "restore_write") => Unrepeated(req[x].row))'
      BY <2>5, EndedRequest DEF MigrateApply
    <3>2. CASE saves' = saves
      BY <3>1, <3>2 DEF HistoriesInv
    <3>3. ASSUME NEW i \in DOMAIN saves, saves[i].schema \in Migratable,
                 saves' = [saves EXCEPT ![i] = Migrated(@)]
          PROVE  HistoriesInv'
      <4>1. saves[i] \in Row /\ saves[i].schema # Current /\ Unrepeated(saves[i])
        BY <3>3, VersionAssumption DEF TypeOK, SavesType, HistoriesInv
      <4>2. Unrepeated(Migrated(saves[i]))
        BY <4>1, MigratedUnrepeated
      <4>3. \A j \in DOMAIN saves' : Unrepeated(saves'[j])
        BY <3>3, <4>2 DEF HistoriesInv
      <4> QED BY <3>1, <4>3 DEF HistoriesInv
    <3> QED BY <2>5, <3>2, <3>3 DEF MigrateApply, Exists
  <2>6. CASE MigrateFail(w)
    <3>1. [req[w] EXCEPT !.pc = "record"].pc # "restore_write"
      BY <2>6, RequestShape DEF MigrateFail, At, TypeOK, KeepReq
    <3> QED BY <2>6, <3>1, <1>3 DEF MigrateFail, tables
  <2>7. CASE RecordFailure(w)
    BY <2>7, <1>2 DEF RecordFailure
  <2>8. CASE RestoreRead(w)
    <3>1. CASE Exists(req[w].backup)
      <4>1. req' = [req EXCEPT ![w] = [pc |-> "restore_write", save |-> req[w].save,
                                       row |-> saves[req[w].backup]]]
        BY <2>8, <3>1 DEF RestoreRead, Goto
      <4>2. Unrepeated(saves[req[w].backup])
        BY <3>1 DEF HistoriesInv, Exists
      <4>3. ASSUME NEW x \in Workers, req'[x].pc = "restore_write"
            PROVE  Unrepeated(req'[x].row)
        BY <4>1, <4>2, <4>3 DEF HistoriesInv, At, TypeOK
      <4>4. saves' = saves
        BY <2>8 DEF RestoreRead, tables
      <4> QED BY <4>3, <4>4 DEF HistoriesInv, At
    <3>2. CASE ~Exists(req[w].backup)
      BY <2>8, <3>2, <1>2 DEF RestoreRead, tables
    <3> QED BY <3>1, <3>2
  <2>9. CASE RestoreWrite(w)
    <3>1. (\A x \in Workers : At(x, "restore_write") => Unrepeated(req[x].row))'
      BY <2>9, EndedRequest DEF RestoreWrite
    <3>2. \A j \in DOMAIN saves' : Unrepeated(saves'[j])
      BY <2>9 DEF RestoreWrite, HistoriesInv, Exists
    <3> QED BY <3>1, <3>2 DEF HistoriesInv
  <2> QED BY <2>1, <2>2, <2>3, <2>4, <2>5, <2>6, <2>7, <2>8, <2>9
<1>8. CASE DeleteNext
  <2>1. PICK w \in Workers, i \in DOMAIN saves : DeleteSave(w, i)
    BY <1>8 DEF DeleteNext
  <2>2. (\A x \in Workers : At(x, "restore_write") => Unrepeated(req[x].row))'
    BY <2>1, EndedRequest DEF DeleteSave
  <2>3. \A j \in DOMAIN saves' : Unrepeated(saves'[j])
    BY <2>1 DEF DeleteSave, tables, HistoriesInv
  <2> QED BY <2>2, <2>3 DEF HistoriesInv
<1>9. CASE BundleNext
  <2>1. PICK w \in Workers :
            \/ \E i \in DOMAIN saves : ExportSave(w, i)
            \/ \E overwrite \in BOOLEAN : ImportSave(w, overwrite)
    BY <1>9 DEF BundleNext
  <2>2. CASE \E i \in DOMAIN saves : ExportSave(w, i)
    BY <2>2, <1>4 DEF ExportSave, tables
  <2>3. CASE \E overwrite \in BOOLEAN : ImportSave(w, overwrite)
    BY <2>3, <1>2, SnapshotUnrepeated DEF ImportSave, tables
  <2> QED BY <2>1, <2>2, <2>3
<1>10. CASE ServiceNext
  <2>1. PICK w \in Workers :
            \/ \E s \in SessionIds, b \in BaseIds : CreateSave(w, s, b)
            \/ \E s \in SessionIds : StepAndPersist(w, s)
            \/ SaveState(w) \/ AppendExists(w) \/ AppendSeq(w) \/ AppendInsert(w)
            \/ \E i, ms, replace : MemoryExists(w, i, ms, replace)
            \/ MemoryWrite(w)
    BY <1>10 DEF ServiceNext
  <2>2. CASE \E s \in SessionIds, b \in BaseIds : CreateSave(w, s, b)
    BY <2>2, SnapshotUnrepeated DEF CreateSave
  <2>3. CASE \E s \in SessionIds : StepAndPersist(w, s)
    BY <2>3, <1>3 DEF StepAndPersist, tables
  <2>4. CASE SaveState(w)
    <3>1. CASE Exists(req[w].save)
      <4>1. PICK i : i = req[w].save
        OBVIOUS
      <4>2. req' = [req EXCEPT ![w] = [pc |-> "append", save |-> i, ev |-> req[w].ev]]
        BY <2>4, <3>1, <4>1 DEF SaveState, Goto
      <4> [pc |-> "append", save |-> i, ev |-> req[w].ev].pc # "restore_write"
        OBVIOUS
      <4>3. (\A x \in Workers : At(x, "restore_write") => Unrepeated(req[x].row))'
        BY <4>2, OtherRequest
      <4>4. saves' = Put(i, [turn |-> req[w].turn, schema |-> req[w].schema,
                             hist |-> saves[i].hist])
        BY <2>4, <3>1, <4>1 DEF SaveState
      <4>5. saves'[i].hist = saves[i].hist /\ i \in DOMAIN saves \cap DOMAIN saves'
        BY <3>1, <4>1, <4>4 DEF Put, Exists
      <4>6. Unrepeated(saves'[i])
        BY <4>5, SameHistoryUnrepeated DEF HistoriesInv
      <4>7. \A j \in DOMAIN saves' : Unrepeated(saves'[j])
        BY <4>4, <4>6 DEF Put, HistoriesInv
      <4> QED BY <4>3, <4>7 DEF HistoriesInv
    <3>2. CASE ~Exists(req[w].save)
      BY <2>4, <3>2, <1>2 DEF SaveState
    <3> QED BY <3>1, <3>2
  <2>5. CASE AppendExists(w)
    <3>1. [req[w] EXCEPT !.pc = "append_seq"].pc # "restore_write"
      BY <2>5, RequestShape DEF AppendExists, At, TypeOK, AppendReq
    <3> QED BY <2>5, <3>1, <1>2, <1>3 DEF AppendExists, tables
  <2>6. CASE AppendSeq(w)
    BY <2>6, <1>3 DEF AppendSeq, tables
  <2>7. CASE AppendInsert(w)
    BY <2>7, <1>2 DEF AppendInsert
  <2>8. CASE \E i, ms, replace : MemoryExists(w, i, ms, replace)
    BY <2>8, <1>2, <1>3 DEF MemoryExists, tables
  <2>9. CASE MemoryWrite(w)
    BY <2>9, <1>2 DEF MemoryWrite
  <2> QED BY <2>1, <2>2, <2>3, <2>4, <2>5, <2>6, <2>7, <2>8, <2>9
<1> QED BY <1>5, <1>6, <1>7, <1>8, <1>9, <1>10 DEF Next

\* No version is in the migration_history of a save twice (repository.py
\* migrate_save), however migrations, restores and crashes interleave, as long
\* as no state of a migrated version is written over a save.
THEOREM MigratedOnce == NoRewriteSpec => []NoDoubleMigration
<1>1. Init /\ (\A i \in DOMAIN saves : Unrepeated(saves[i])) => HistoriesInv
  BY DEF Init, HistoriesInv, At, Idle
<1>2. TypeOK /\ HistoriesInv /\ [Next /\ ~RewritesMigrated]_vars => HistoriesInv'
  BY NextKeepsHistories
<1>3. /\ TypeOK /\ IsFiniteSet(events) /\ [Next /\ ~RewritesMigrated]_vars
      => TypeOK' /\ IsFiniteSet(events)'
  BY NextKeepsTypes
<1>4. HistoriesInv => NoDoubleMigration
  BY DEF HistoriesInv, Unrepeated, NoDoubleMigration
<1> QED BY InitTypes, <1>1, <1>2, <1>3, <1>4, PTL DEF NoRewriteSpec

-----------------------------------------------------------------------------
(***************************************************************************)
(* One player: sessions and saves stay whole.  What a restore or an import *)
(* writes over a save was read from another save, or from the same one     *)
(* before; it fits the events that are there because all saves with the    *)
(* same base id, backups and bundles included, tell the same turn.         *)
(***************************************************************************)

LogWhole(turn, log) ==
    /\ \A a, b \in 1..Len(log) : a <= b => log[a].turn <= log[b].turn
    /\ IF log = <<>> THEN turn = 0 ELSE log[Len(log)].turn = turn

SavesTold ==
    \A i \in DOMAIN saves : i # <<>> /\ i[1] \in used /\ Whole(saves[i].turn, Told(i))
SameTurn ==
    \A i, j \in DOMAIN saves : i[1] = j[1] => saves[i].turn = saves[j].turn
BundleTold ==
    bundle # NoBundle =>
        /\ bundle.save # <<>> /\ bundle.save[1] \in used
        /\ LogWhole(bundle.turn, bundle.log)
        /\ \A i \in DOMAIN saves : i[1] = bundle.save[1] => saves[i].turn = bundle.turn
TablesTold == SavesTold /\ SameTurn /\ BundleTold

\* What a request under way holds: the turn it has read, or two ids of one base.
RequestTold(r) ==
    /\ r.pc \in {"load_exists", "load_events"} =>
          Exists(r.save) /\ saves[r.save].turn = r.turn
    /\ r.pc \in {"backup", "migrate", "record", "restore"} =>
          r.save # <<>> /\ r.backup # <<>> /\ r.save[1] = r.backup[1]
    /\ r.pc = "restore_write" => (Exists(r.save) => saves[r.save].turn = r.row.turn)
RequestsTold == \A w \in Workers : RequestTold(req[w])
OneBusy == \A w, x \in Busy : w = x
FailuresTold ==
    \A k \in DOMAIN failures :
        /\ failures[k].save # <<>> /\ failures[k].backup # <<>>
        /\ failures[k].save[1] = failures[k].backup[1]
SessionsTold == \A s \in SessionIds : LogWhole(sessions[s].turn, sessions[s].log)

PlayerInv == TablesTold /\ RequestsTold /\ OneBusy /\ FailuresTold /\ SessionsTold

\* Rows listed in order and once each are all the rows.
LEMMA ListingOnto ==
    ASSUME NEW E, IsFiniteSet(E), NEW f \in [1..Cardinality(E) -> E],
           \A a, b \in DOMAIN f : a < b => f[a] # f[b] /\ f[a].seq <= f[b].seq
    PROVE  f \in Surjection(1..Cardinality(E), E)
<1> DEFINE c == Cardinality(E)
<1>1. c \in Nat
  BY FS_CardinalityType
<1>2. ASSUME NEW a \in 1..c, NEW b \in 1..c, f[a] = f[b] PROVE a = b
  <2>1. ~(a < b) /\ ~(b < a)
    BY <1>2
  <2>2. a \in Int /\ b \in Int
    BY <1>1
  <2> QED BY <2>1, <2>2
<1>3. f \in Injection(1..c, E)
  BY <1>2 DEF Injection, IsInjective
<1>4. Cardinality(1..c) = c
  BY <1>1, FS_Interval
<1> QED BY <1>3, <1>4, FS_Injection

\* Every listing of whole rows is a whole log.
LEMMA ListingWhole ==
    ASSUME events \subseteq EventRow, IsFiniteSet(events), NEW i, NEW turn \in Nat,
           Whole(turn, Told(i)), NEW log \in Listings(i)
    PROVE  LogWhole(turn, log)
<1> DEFINE E == EventsOf(i)
           c == Cardinality(E)
<1>1. IsFiniteSet(E) /\ c \in Nat /\ E \subseteq EventRow
  BY FS_Subset, FS_CardinalityType DEF EventsOf
<1>2. PICK f \in [1..c -> E] :
          /\ \A a, b \in DOMAIN f : a < b => f[a] # f[b] /\ f[a].seq <= f[b].seq
          /\ log = [k \in 1..c |-> f[k].ev]
  BY DEF Listings
<1> HIDE DEF c
<1>3. log \in Seq(Event)
  BY ListingsType
<1>4. Len(log) = c /\ \A k \in 1..c : log[k] = f[k].ev
  <2>1. DOMAIN log = 1..c
    BY <1>2
  <2> QED BY <1>1, <1>2, <1>3, <2>1
<1>5. \A k \in 1..c : f[k].ev.turn \in Nat /\ <<f[k].ev, f[k].seq>> \in Told(i)
  BY <1>1, <1>2 DEF EventRow, Event, Told
<1>6. ASSUME NEW a \in 1..c, NEW b \in 1..c, a <= b
      PROVE  log[a].turn <= log[b].turn
  <2>1. CASE a = b
    <3>1. log[a].turn \in Nat
      BY <1>4, <1>5
    <3> QED BY <2>1, <3>1
  <2>2. CASE a < b
    <3>1. f[a].seq <= f[b].seq
      BY <1>2, <2>2
    <3>2. f[a].ev.turn <= f[b].ev.turn
      BY <1>5, <3>1 DEF Whole
    <3> QED BY <1>4, <3>2
  <2> QED BY <1>1, <1>6, <2>1, <2>2
<1>7. CASE c = 0
  <2>1. E = {}
    BY <1>1, <1>7, FS_EmptySet DEF c
  <2>2. turn = 0
    BY <2>1 DEF Whole, Told
  <2>3. log = <<>>
    BY <1>3, <1>4, <1>7
  <2> QED BY <1>4, <1>6, <2>2, <2>3 DEF LogWhole
<1>8. CASE c # 0
  <2>1. c \in 1..c
    BY <1>1, <1>8
  <2>2. f[c].ev.turn <= turn /\ \E e \in Told(i) : e[1].turn = turn
    BY <1>5, <2>1 DEF Whole
  <2>3. PICK r \in E : r.ev.turn = turn
    BY <2>2 DEF Told
  <2>4. f \in Surjection(1..c, E)
    BY <1>1, <1>2, ListingOnto DEF c
  <2>5. PICK k \in 1..c : f[k] = r
    BY <2>3, <2>4 DEF Surjection
  <2>6. log[k].turn <= log[c].turn
    <3>1. k <= c
      BY <1>1
    <3> QED BY <1>6, <2>1, <3>1
  <2>7. log[c].turn = turn
    <3>1. log[k].turn = turn /\ log[c].turn = f[c].ev.turn /\ f[c].ev.turn \in Nat
      BY <1>4, <1>5, <2>1, <2>3, <2>5
    <3> QED BY <2>2, <2>6, <3>1
  <2>8. log # <<>>
    BY <1>3, <1>4, <1>8
  <2> QED BY <1>4, <1>6, <2>7, <2>8 DEF LogWhole
<1> QED BY <1>7, <1>8

\* The rows a snapshot stores for a whole log.
LEMMA LogTold ==
    ASSUME NEW log \in Seq(Event), NEW turn \in Nat, LogWhole(turn, log)
    PROVE  Whole(turn, {<<log[k], k - 1>> : k \in 1..Len(log)})
<1> DEFINE told == {<<log[k], k - 1>> : k \in 1..Len(log)}
<1> SUFFICES Whole(turn, told)
  OBVIOUS
<1>1. \A k \in 1..Len(log) : log[k].turn \in Nat
  <2>1. \A k \in 1..Len(log) : log[k] \in Event
    OBVIOUS
  <2> QED BY <2>1 DEF Event
<1>2. ASSUME NEW e \in told, NEW f \in told, e[2] <= f[2] PROVE e[1].turn <= f[1].turn
  <2>1. PICK a \in 1..Len(log) : e = <<log[a], a - 1>>
    OBVIOUS
  <2>2. PICK b \in 1..Len(log) : f = <<log[b], b - 1>>
    OBVIOUS
  <2>3. a <= b
    BY <1>2, <2>1, <2>2
  <2> QED BY <2>1, <2>2, <2>3 DEF LogWhole
<1>3. CASE log = <<>>
  <2>1. told = {} /\ turn = 0
    BY <1>3 DEF LogWhole
  <2> QED BY <2>1 DEF Whole
<1>4. CASE log # <<>>
  <2>1. Len(log) \in 1..Len(log) /\ log[Len(log)].turn = turn
    BY <1>4 DEF LogWhole
  <2>2. <<log[Len(log)], Len(log) - 1>> \in told
    BY <2>1
  <2>3. \E e \in told : e[1].turn = turn
    BY <2>1, <2>2
  <2>4. ASSUME NEW e \in told PROVE e[1].turn <= turn
    <3>1. PICK a \in 1..Len(log) : e = <<log[a], a - 1>>
      OBVIOUS
    <3>2. a <= Len(log)
      OBVIOUS
    <3> QED BY <2>1, <3>1, <3>2 DEF LogWhole
  <2>5. told # {}
    BY <2>2
  <2> HIDE DEF told
  <2> QED BY <1>2, <2>3, <2>4, <2>5 DEF Whole
<1> QED BY <1>3, <1>4

\* A step of the game loop on a whole session.
LEMMA StepWhole ==
    ASSUME NEW log \in Seq(Event), NEW turn \in Nat, LogWhole(turn, log),
           NEW e \in Event, e.turn = turn + 1
    PROVE  LogWhole(turn + 1, Append(log, e))
<1>1. /\ Append(log, e) \in Seq(Event) /\ Len(Append(log, e)) = Len(log) + 1
      /\ Append(log, e)[Len(log) + 1] = e
      /\ \A k \in 1..Len(log) : Append(log, e)[k] = log[k]
  OBVIOUS
<1>2. Append(log, e) # <<>>
  BY <1>1
<1>3. \A k \in 1..Len(log) : log[k].turn \in Nat /\ log[k].turn <= turn
  <2>1. ASSUME NEW k \in 1..Len(log) PROVE log[k].turn \in Nat /\ log[k].turn <= turn
    <3>1. log # <<>> /\ Len(log) \in 1..Len(log) /\ k <= Len(log)
      OBVIOUS
    <3>2. log[k] \in Event
      OBVIOUS
    <3>3. log[k].turn \in Nat
      BY <3>2 DEF Event
    <3> QED BY <3>1, <3>3 DEF LogWhole
  <2> QED BY <2>1
<1>4. ASSUME NEW a \in 1..Len(log) + 1, NEW b \in 1..Len(log) + 1, a <= b
      PROVE  Append(log, e)[a].turn <= Append(log, e)[b].turn
  <2>1. CASE b \in 1..Len(log)
    <3>1. a \in 1..Len(log)
      BY <1>4, <2>1
    <3> QED BY <1>1, <1>4, <2>1, <3>1 DEF LogWhole
  <2>2. CASE b = Len(log) + 1 /\ a \in 1..Len(log)
    BY <1>1, <1>3, <2>2
  <2>3. CASE b = Len(log) + 1 /\ a = Len(log) + 1
    BY <1>1, <2>3 DEF Event
  <2> QED BY <2>1, <2>2, <2>3
<1> QED BY <1>1, <1>2, <1>4 DEF LogWhole

LEMMA WholeIsOrdered ==
    ASSUME NEW log \in Seq(Event), NEW turn \in Nat, LogWhole(turn, log)
    PROVE  /\ Ordered(log)
           /\ IF log = <<>> THEN turn = 0 ELSE log[Len(log)].turn = turn
<1>1. ASSUME NEW k \in 1..Len(log) - 1 PROVE log[k].turn <= log[k + 1].turn
  <2>1. k \in 1..Len(log) /\ k + 1 \in 1..Len(log) /\ k <= k + 1
    OBVIOUS
  <2> QED BY <2>1 DEF LogWhole
<1> QED BY <1>1 DEF Ordered, LogWhole

-----------------------------------------------------------------------------
\* A step that changes no turn and no event, of the saves it leaves.
LEMMA TurnsKept ==
    ASSUME TablesTold, DOMAIN saves' \subseteq DOMAIN saves,
           \A i \in DOMAIN saves' : saves'[i].turn = saves[i].turn /\ Told(i)' = Told(i),
           used \subseteq used', bundle' = bundle
    PROVE  TablesTold'
<1>1. SavesTold'
  BY DEF TablesTold, SavesTold
<1>2. SameTurn'
  BY DEF TablesTold, SameTurn
<1>3. BundleTold'
  BY DEF TablesTold, BundleTold
<1> QED BY <1>1, <1>2, <1>3 DEF TablesTold

LEMMA TablesUnchanged ==
    ASSUME TablesTold, saves' = saves, events' = events, used \subseteq used', bundle' = bundle
    PROVE  TablesTold'
BY TurnsKept DEF Told, EventsOf

\* A snapshot of a whole log that tells the turn its base id stands for.
LEMMA SnapshotTold ==
    ASSUME TablesTold, NEW w, NEW i, i # <<>>, NEW turn \in Nat, NEW schema,
           NEW log \in Seq(Event), LogWhole(turn, log),
           \A j \in DOMAIN saves : j[1] = i[1] => saves[j].turn = turn,
           (bundle # NoBundle /\ bundle.save[1] = i[1]) => bundle.turn = turn,
           i[1] \in used', used \subseteq used', bundle' = bundle,
           Snapshot(w, i, turn, schema, log)
    PROVE  TablesTold'
<1> DEFINE rest == events \ EventsOf(i)
           hist == IF Exists(i) THEN saves[i].hist ELSE <<>>
           rows == {[key |-> RawKey(log[k]), save |-> i, ev |-> log[k], seq |-> k - 1]
                       : k \in 1..Len(log)}
<1>1. CASE UNCHANGED tables
  BY <1>1, TablesUnchanged DEF tables
<1>2. CASE /\ saves' = Put(i, [turn |-> turn, schema |-> schema, hist |-> hist])
           /\ events' = rest \cup rows
  <2>1. /\ DOMAIN saves' = DOMAIN saves \cup {i} /\ saves'[i].turn = turn
        /\ \A j \in DOMAIN saves : j # i => saves'[j] = saves[j]
    BY <1>2 DEF Put
  <2>2. ASSUME NEW j, j # i PROVE Told(j)' = Told(j)
    <3>1. EventsOf(j)' = EventsOf(j)
      BY <1>2, <2>2 DEF EventsOf
    <3> QED BY <3>1 DEF Told
  <2>3. Told(i)' = {<<log[k], k - 1>> : k \in 1..Len(log)}
    <3>1. EventsOf(i)' = rows
      BY <1>2 DEF EventsOf
    <3>2. Told(i)' = {<<r.ev, r.seq>> : r \in rows}
      BY <3>1 DEF Told
    <3>3. \A r \in rows : \E k \in 1..Len(log) : <<r.ev, r.seq>> = <<log[k], k - 1>>
      OBVIOUS
    <3>4. ASSUME NEW k \in 1..Len(log)
          PROVE  \E r \in rows : <<r.ev, r.seq>> = <<log[k], k - 1>>
      <4> WITNESS [key |-> RawKey(log[k]), save |-> i, ev |-> log[k], seq |-> k - 1] \in rows
      <4> QED OBVIOUS
    <3> HIDE DEF rows
    <3> QED BY <3>2, <3>3, <3>4
  <2>4. Whole(turn, Told(i)')
    BY <2>3, LogTold
  <2> HIDE DEF rest, hist, rows
  <2>5. SavesTold'
    <3>1. ASSUME NEW j \in DOMAIN saves'
          PROVE  j # <<>> /\ j[1] \in used' /\ Whole(saves'[j].turn, Told(j)')
      <4>1. CASE j = i
        BY <2>1, <2>4, <4>1
      <4>2. CASE j # i
        BY <2>1, <2>2, <4>2 DEF TablesTold, SavesTold
      <4> QED BY <4>1, <4>2
    <3> QED BY <3>1 DEF SavesTold
  <2>6. SameTurn'
    BY <2>1 DEF TablesTold, SameTurn
  <2>7. BundleTold'
    BY <2>1 DEF TablesTold, BundleTold
  <2> QED BY <2>5, <2>6, <2>7 DEF TablesTold
<1> QED BY <1>1, <1>2 DEF Snapshot

\* A worker's step: the others are idle, or nothing it shares changes.
LEMMA OthersIdle ==
    ASSUME TypeOK, OneBusy, OneAtATime, NEW w \in Workers, NEW r, NEW end,
           \/ Finish(w, end)
           \/ Goto(w, r) /\ r.pc # "idle"
    PROVE  \/ \A x \in Workers : x # w => req[x] = Idle
           \/ req' = req /\ UNCHANGED <<tables, used, bundle>>
<1>1. \A x \in Workers : At(x, "idle") => req[x] = Idle
  <2>1. ASSUME NEW x \in Workers, At(x, "idle") PROVE req[x] = Idle
    <3>1. req[x] \in Request
      BY DEF TypeOK
    <3>2. \A y \in LoadReq \cup KeepReq \cup RestoreReq \cup RestoreWriteReq
              \cup SaveStateReq \cup AppendReq \cup InsertReq \cup MemoryReq : y.pc # "idle"
      BY DEF LoadReq, KeepReq, RestoreReq, RestoreWriteReq, SaveStateReq, AppendReq,
             InsertReq, MemoryReq
    <3> QED BY <2>1, <3>1, <3>2, RequestUnion DEF At
  <2> QED BY <2>1
<1>2. CASE ~At(w, "idle")
  BY <1>1, <1>2 DEF OneBusy, Busy
<1>3. CASE At(w, "idle") /\ Busy # {}
  <2>1. PICK x \in Workers : ~At(x, "idle") /\ x # w
    BY <1>3 DEF Busy
  <2>2. CASE Finish(w, end)
    <3>1. req' = req
      BY <2>2, <1>1, <1>3 DEF Finish, TypeOK
    <3> QED BY <3>1, <1>3 DEF OneAtATime
  <2>3. CASE Goto(w, r) /\ r.pc # "idle"
    <3>1. req'[w] = r /\ req'[x] = req[x]
      BY <2>1, <2>3 DEF Goto, TypeOK
    <3>2. w \in Busy' /\ x \in Busy'
      BY <2>1, <2>3, <3>1 DEF Busy, At
    <3> QED BY <2>1, <3>2 DEF OneAtATime
  <2> QED BY <2>2, <2>3
<1>4. CASE Busy = {}
  BY <1>1, <1>4 DEF Busy
<1> QED BY <1>2, <1>3, <1>4

\* The requests after a step of the only busy worker.
LEMMA RequestsAfter ==
    ASSUME TypeOK, NEW w \in Workers, \A x \in Workers : x # w => req[x] = Idle,
           NEW r, req' = [req EXCEPT ![w] = r], RequestTold(r)'
    PROVE  RequestsTold' /\ OneBusy'
<1>1. RequestTold(Idle)'
  BY DEF Idle, RequestTold
<1>2. \A x \in Workers : req'[x] = IF x = w THEN r ELSE Idle
  BY DEF TypeOK
<1>3. RequestsTold'
  BY <1>1, <1>2 DEF RequestsTold
<1>4. OneBusy'
  BY <1>2 DEF OneBusy, Busy, At, Idle
<1> QED BY <1>3, <1>4

LEMMA RequestsEnded ==
    ASSUME TypeOK, NEW w \in Workers, \A x \in Workers : x # w => req[x] = Idle,
           NEW end, Finish(w, end)
    PROVE  RequestsTold' /\ OneBusy'
<1>1. RequestTold(Idle)'
  BY DEF Idle, RequestTold
<1> QED BY <1>1, RequestsAfter DEF Finish

-----------------------------------------------------------------------------
\* Ids made from an id keep its base.
LEMMA BackupBase ==
    ASSUME NEW i \in SaveIds, i # <<>>, NEW n \in Int
    PROVE  /\ Append(i, n) # <<>> /\ Append(i, n)[1] = i[1]
           /\ Append(Append(i, n), n) # <<>>
           /\ \A m \in Int : /\ Append(Append(i, n), m) # <<>>
                             /\ Append(Append(i, n), m)[1] = i[1]
<1>1. i \in Seq(Int) /\ Len(i) >= 1
  BY DEF SaveIds
<1>2. ASSUME NEW s \in Seq(Int), Len(s) >= 1, NEW m \in Int
      PROVE  /\ Append(s, m) \in Seq(Int) /\ Len(Append(s, m)) >= 1
             /\ Append(s, m) # <<>> /\ Append(s, m)[1] = s[1]
  BY <1>2
<1> QED BY <1>1, <1>2

LEMMA PlannedBase ==
    ASSUME TypeOK, FailuresTold, NEW i \in DOMAIN saves, i # <<>>
    PROVE  PlannedBackup(i) # <<>> /\ PlannedBackup(i)[1] = i[1]
<1>1. i \in SaveIds
  BY DEF TypeOK, SavesType
<1>2. CASE FailuresOf(i) = {}
  BY <1>1, <1>2, BackupBase DEF PlannedBackup, PreMigrationBackupId
<1>3. CASE FailuresOf(i) # {}
  <2>1. LatestFailure(i) \in FailuresOf(i)
    <3>1. FailuresOf(i) \subseteq Nat /\ IsFiniteSet(FailuresOf(i))
      <4>1. DOMAIN failures = 1..Len(failures) /\ Len(failures) \in Nat
        BY DEF TypeOK
      <4>2. IsFiniteSet(DOMAIN failures) /\ DOMAIN failures \subseteq Nat
        BY <4>1, FS_Interval
      <4>3. FailuresOf(i) \subseteq DOMAIN failures
        BY DEF FailuresOf
      <4> QED BY <4>2, <4>3, FS_Subset
    <3>2. HasMax(FailuresOf(i))
      BY <1>3, <3>1, FiniteMax
    <3> QED BY <3>2 DEF HasMax, LatestFailure
  <2>2. /\ failures[LatestFailure(i)].save = i
        /\ failures[LatestFailure(i)].backup # <<>>
        /\ failures[LatestFailure(i)].save[1] = failures[LatestFailure(i)].backup[1]
    BY <2>1 DEF FailuresOf, FailuresTold
  <2> QED BY <1>3, <2>2 DEF PlannedBackup
<1> QED BY <1>2, <1>3

\* Sessions: started, played, loaded.
LEMMA SessionsStep ==
    ASSUME TypeOK, SessionsTold, NEW s \in SessionIds, StartGame(s) \/ Play(s)
    PROVE  SessionsTold'
<1>1. /\ sessions[s] \in Session /\ sessions[s].turn \in Nat
      /\ sessions[s].log \in Seq(Event) /\ LogWhole(sessions[s].turn, sessions[s].log)
  BY DEF TypeOK, Session, SessionsTold
<1>2. CASE StartGame(s)
  <2>1. \A x \in SessionIds : /\ sessions'[x].turn = sessions[x].turn
                              /\ sessions'[x].log = sessions[x].log
    BY <1>1, <1>2 DEF StartGame, TypeOK, Session
  <2> QED BY <2>1 DEF SessionsTold
<1>3. CASE Play(s)
  <2> DEFINE e == [id |-> nextEvent, turn |-> sessions[s].turn + 1]
  <2>1. e \in Event /\ e.turn = sessions[s].turn + 1
    BY <1>1 DEF TypeOK, Event
  <2> HIDE DEF e
  <2>2. LogWhole(sessions[s].turn + 1, Append(sessions[s].log, e))
    BY <1>1, <2>1, StepWhole
  <2>3. /\ sessions'[s].turn = sessions[s].turn + 1
        /\ sessions'[s].log = Append(sessions[s].log, e)
    BY <1>1, <1>3 DEF Play, Stepped, TypeOK, Session, e
  <2>4. \A x \in SessionIds : x # s => sessions'[x] = sessions[x]
    BY <1>3 DEF Play
  <2>5. ASSUME NEW x \in SessionIds PROVE LogWhole(sessions'[x].turn, sessions'[x].log)
    BY <2>2, <2>3, <2>4 DEF SessionsTold
  <2> QED BY <2>5 DEF SessionsTold
<1> QED BY <1>2, <1>3

LEMMA LoadWhole ==
    ASSUME TypeOK, IsFiniteSet(events), PlayerInv, NEW w \in Workers, NEW s \in SessionIds,
           LoadEvents(w, s)
    PROVE  SessionsTold'
<1>1. PICK i, t : i = req[w].save /\ t = req[w].turn
  OBVIOUS
<1>2. req[w] \in LoadReq /\ t \in Nat
  BY <1>1, RequestShape DEF LoadEvents, At, TypeOK, LoadReq
<1>3. i \in DOMAIN saves /\ saves[i].turn = t
  BY <1>1 DEF LoadEvents, At, PlayerInv, RequestsTold, RequestTold, Exists
<1>4. Whole(t, Told(i))
  BY <1>3 DEF PlayerInv, TablesTold, SavesTold
<1>5. PICK log \in Listings(i) :
          \/ sessions' = sessions
          \/ \E v : sessions' = [sessions EXCEPT ![s] = [live |-> TRUE, turn |-> t, schema |-> v,
                                                         log |-> log, save |-> i]]
  BY <1>1 DEF LoadEvents
<1>6. LogWhole(t, log)
  BY <1>2, <1>4, ListingWhole DEF TypeOK
<1>7. CASE sessions' = sessions
  BY <1>7 DEF PlayerInv, SessionsTold
<1>8. CASE \E v : sessions' = [sessions EXCEPT ![s] = [live |-> TRUE, turn |-> t, schema |-> v,
                                                       log |-> log, save |-> i]]
  <2>1. \A x \in SessionIds :
            \/ sessions'[x] = sessions[x]
            \/ sessions'[x].turn = t /\ sessions'[x].log = log
    BY <1>8 DEF TypeOK
  <2> QED BY <1>6, <2>1 DEF PlayerInv, SessionsTold
<1> QED BY <1>5, <1>7, <1>8

\* A backup of a save: the events of the save under a free id.
LEMMA CopyTold ==
    ASSUME ReferentialIntegrity, NEW i \in DOMAIN saves, NEW b, b \notin DOMAIN saves,
           events' = events \cup BackupEvents(b, i)
    PROVE  Told(b)' = Told(i) /\ \A j : j # b => Told(j)' = Told(j)
<1>1. EventsOf(b) = {} /\ b # i
  BY DEF EventsOf, ReferentialIntegrity, Exists
<1>2. \A r \in BackupEvents(b, i) : r.save = b
  BY DEF BackupEvents
<1>3. ASSUME NEW j, j # b PROVE Told(j)' = Told(j)
  <2>1. EventsOf(j)' = EventsOf(j)
    BY <1>2, <1>3 DEF EventsOf
  <2> QED BY <2>1 DEF Told
<1>4. EventsOf(b)' = BackupEvents(b, i)
  BY <1>1, <1>2 DEF EventsOf
<1>5. Told(b)' = {<<r.ev, r.seq>> : r \in BackupEvents(b, i)}
  BY <1>4 DEF Told
<1>6. \A r \in BackupEvents(b, i) : \E x \in EventsOf(i) : r.ev = x.ev /\ r.seq = x.seq
  BY DEF BackupEvents
<1>7. ASSUME NEW x \in EventsOf(i)
      PROVE  \E r \in BackupEvents(b, i) : r.ev = x.ev /\ r.seq = x.seq
  <2>1. [key |-> BackupKey(b, x.key), save |-> b, ev |-> x.ev, seq |-> x.seq]
        \in BackupEvents(b, i)
    BY DEF BackupEvents
  <2> QED BY <2>1
<1>8. Told(b)' = Told(i)
  <2> HIDE DEF BackupEvents
  <2> QED BY <1>5, <1>6, <1>7 DEF Told
<1> QED BY <1>3, <1>8

\* A backup tells what the save tells that it was taken of.
LEMMA BackupTold ==
    ASSUME TypeOK, IsFiniteSet(events), ReferentialIntegrity, PlayerInv, NEW w \in Workers,
           MigrateBackup(w)
    PROVE  /\ TablesTold'
           /\ \/ Finish(w, "uncaught")
              \/ \E b : /\ b # <<>> /\ b[1] = req[w].save[1] /\ req[w].save # <<>>
                        /\ Goto(w, [req[w] EXCEPT !.pc = "migrate", !.backup = b])
<1>1. PICK i, b : i = req[w].save /\
                  b = IF Exists(BackupId(i)) THEN Append(BackupId(i), NextSeq(i)) ELSE BackupId(i)
  OBVIOUS
<1>2. /\ \/ Exists(b) /\ Exists(i) /\ Finish(w, "uncaught") /\ UNCHANGED tables
         \/ /\ ~(Exists(b) /\ Exists(i))
            /\ Goto(w, [req[w] EXCEPT !.pc = "migrate", !.backup = b])
            /\ saves' = IF Exists(i) THEN Put(b, saves[i]) ELSE saves
            /\ events' = events \cup BackupEvents(b, i)
      /\ used' = used /\ bundle' = bundle /\ At(w, "backup")
  BY <1>1 DEF MigrateBackup
<1>3. req[w] \in KeepReq /\ i \in SaveIds /\ i # <<>>
  BY <1>1, <1>2, RequestShape DEF At, TypeOK, KeepReq, PlayerInv, RequestsTold, RequestTold
<1>4. b # <<>> /\ b[1] = i[1]
  <2>1. NextSeq(i) \in Int
    BY NextSeqType DEF TypeOK
  <2> QED BY <1>1, <1>3, <2>1, BackupBase DEF BackupId
<1>5. ASSUME UNCHANGED tables PROVE TablesTold'
  BY <1>2, <1>5, TablesUnchanged DEF PlayerInv, tables
<1>6. ASSUME ~(Exists(b) /\ Exists(i)),
             saves' = IF Exists(i) THEN Put(b, saves[i]) ELSE saves,
             events' = events \cup BackupEvents(b, i)
      PROVE  TablesTold'
  <2>1. CASE ~Exists(i)
    <3>1. BackupEvents(b, i) = {}
      BY <2>1 DEF BackupEvents, EventsOf, ReferentialIntegrity
    <3> QED BY <1>2, <1>6, <2>1, <3>1, TablesUnchanged DEF PlayerInv
  <2>2. CASE Exists(i) /\ ~Exists(b)
    <3>1. Told(b)' = Told(i) /\ \A j : j # b => Told(j)' = Told(j)
      BY <1>6, <2>2, CopyTold DEF Exists
    <3>2. /\ DOMAIN saves' = DOMAIN saves \cup {b} /\ saves'[b] = saves[i] /\ i \in DOMAIN saves
          /\ \A j \in DOMAIN saves : j # b => saves'[j] = saves[j]
      BY <1>6, <2>2 DEF Put, Exists
    <3>3. TablesTold
      BY DEF PlayerInv
    <3>4. SavesTold'
      <4>1. ASSUME NEW j \in DOMAIN saves'
            PROVE  j # <<>> /\ j[1] \in used' /\ Whole(saves'[j].turn, Told(j)')
        <5>1. CASE j = b
          BY <1>2, <1>4, <3>1, <3>2, <3>3, <5>1 DEF TablesTold, SavesTold
        <5>2. CASE j # b
          BY <1>2, <3>1, <3>2, <3>3, <5>2 DEF TablesTold, SavesTold
        <5> QED BY <5>1, <5>2
      <4> QED BY <4>1 DEF SavesTold
    <3>5. SameTurn'
      BY <1>4, <3>2, <3>3 DEF TablesTold, SameTurn
    <3>6. BundleTold'
      BY <1>2, <1>4, <3>2, <3>3 DEF TablesTold, BundleTold
    <3> QED BY <3>4, <3>5, <3>6 DEF TablesTold
  <2> QED BY <1>6, <2>1, <2>2
<1> QED BY <1>1, <1>2, <1>3, <1>4, <1>5, <1>6

-----------------------------------------------------------------------------
\* One request of the player after another keeps the invariant.
LEMMA PlayerStep ==
    ASSUME TypeOK, IsFiniteSet(events), ReferentialIntegrity, PlayerInv,
           HttpNext, OneAtATime
    PROVE  PlayerInv'
<1>1. /\ TablesTold /\ RequestsTold /\ OneBusy /\ FailuresTold /\ SessionsTold
  BY DEF PlayerInv
<1> DEFINE Others(w) == \A x \in Workers : x # w => req[x] = Idle
           Quiet == req' = req /\ UNCHANGED <<tables, used, bundle>>
<1>2. ASSUME Quiet, SessionsTold' PROVE PlayerInv'
  <2>1. TablesTold'
    BY <1>1, <1>2, TablesUnchanged DEF tables
  <2>2. RequestsTold' /\ OneBusy' /\ FailuresTold'
    BY <1>1, <1>2 DEF tables, RequestsTold, RequestTold, OneBusy, Busy, At, FailuresTold, Exists
  <2> QED BY <1>2, <2>1, <2>2 DEF PlayerInv
<1>3. ASSUME UNCHANGED sessions PROVE SessionsTold'
  BY <1>1, <1>3 DEF SessionsTold
<1>4. ASSUME UNCHANGED failures PROVE FailuresTold'
  BY <1>1, <1>4 DEF FailuresTold
<1>5. ASSUME UNCHANGED <<saves, events, bundle>>, used \subseteq used' PROVE TablesTold'
  BY <1>1, <1>5, TablesUnchanged
<1>6. ASSUME NEW w \in Workers, NEW end, Finish(w, end), TablesTold', FailuresTold',
             SessionsTold'
      PROVE  PlayerInv'
  <2>1. Others(w) \/ Quiet
    BY <1>1, <1>6, OthersIdle
  <2>2. ASSUME Others(w) PROVE RequestsTold' /\ OneBusy'
    BY <1>6, <2>2, RequestsEnded
  <2> HIDE DEF Others, Quiet
  <2> QED BY <1>2, <1>6, <2>1, <2>2 DEF PlayerInv
<1>7. ASSUME NEW w \in Workers, NEW r, Goto(w, r), r.pc # "idle", TablesTold', FailuresTold',
             SessionsTold', RequestTold(r)'
      PROVE  PlayerInv'
  <2>1. Others(w) \/ Quiet
    BY <1>1, <1>7, OthersIdle
  <2>2. ASSUME Others(w) PROVE RequestsTold' /\ OneBusy'
    BY <1>7, <2>2, RequestsAfter DEF Goto
  <2> HIDE DEF Others, Quiet
  <2> QED BY <1>2, <1>7, <2>1, <2>2 DEF PlayerInv
<1> HIDE DEF Others, Quiet
<1>8. /\ \A i \in DOMAIN saves : /\ i \in SaveIds /\ i # <<>> /\ saves[i] \in Row
                                 /\ saves[i].turn \in Nat
      /\ \A s \in SessionIds : /\ sessions[s].turn \in Nat /\ sessions[s].log \in Seq(Event)
                               /\ LogWhole(sessions[s].turn, sessions[s].log)
      /\ events \subseteq EventRow
      /\ \A w \in Workers : req[w] \in Request /\ RequestTold(req[w])
  BY <1>1 DEF TypeOK, SavesType, Row, Session, TablesTold, SavesTold, SessionsTold, RequestsTold
<1>9. CASE SessionNext \/ PlayNext
  <2>1. ASSUME NEW s \in SessionIds, StartGame(s) \/ Play(s) PROVE PlayerInv'
    <3>1. req' = req /\ UNCHANGED <<tables, used, bundle>>
      BY <2>1 DEF StartGame, Play
    <3>2. SessionsTold'
      BY <1>1, <2>1, SessionsStep
    <3> QED BY <1>2, <3>1, <3>2 DEF Quiet
  <2>2. ASSUME NEW w \in Workers, NEW i \in DOMAIN saves, LoadState(w, i) PROVE PlayerInv'
    <3>1. PICK r : r = [pc |-> "load_exists", save |-> i, turn |-> saves[i].turn,
                        schema |-> LoadedSchema(saves[i].schema)]
      OBVIOUS
    <3>2. Goto(w, r) /\ UNCHANGED <<tables, sessions, used, bundle>>
      BY <2>2, <3>1 DEF LoadState, Exists
    <3>3. r.pc = "load_exists" /\ r.save = i /\ r.turn = saves[i].turn
      BY <3>1
    <3>4. RequestTold(r)' /\ r.pc # "idle"
      BY <3>2, <3>3 DEF RequestTold, Exists, tables
    <3> QED BY <1>3, <1>4, <1>5, <1>7, <3>2, <3>4 DEF tables
  <2>3. ASSUME NEW w \in Workers, LoadExists(w) PROVE PlayerInv'
    <3>1. UNCHANGED <<tables, sessions, used, bundle>>
      BY <2>3 DEF LoadExists
    <3>2. CASE Finish(w, "not_found")
      BY <1>3, <1>4, <1>5, <1>6, <3>1, <3>2 DEF tables
    <3>3. CASE Goto(w, [req[w] EXCEPT !.pc = "load_events"])
      <4>1. req[w] \in LoadReq /\ RequestTold(req[w]) /\ req[w].pc = "load_exists"
        BY <1>8, <2>3, RequestShape DEF LoadExists, At
      <4>2. PICK r : r = [req[w] EXCEPT !.pc = "load_events"]
        OBVIOUS
      <4>3. r.pc = "load_events" /\ r.save = req[w].save /\ r.turn = req[w].turn
        BY <4>1, <4>2 DEF LoadReq
      <4>4. RequestTold(r)'
        BY <3>1, <4>1, <4>3 DEF RequestTold, Exists, tables
      <4>5. Goto(w, r) /\ r.pc # "idle"
        BY <3>3, <4>2, <4>3
      <4> QED BY <1>3, <1>4, <1>5, <1>7, <3>1, <4>4, <4>5 DEF tables
    <3> QED BY <2>3, <3>2, <3>3 DEF LoadExists
  <2>4. ASSUME NEW w \in Workers, NEW s \in SessionIds, LoadEvents(w, s) PROVE PlayerInv'
    <3>1. UNCHANGED <<tables, used, bundle>> /\ \E end : Finish(w, end)
      BY <2>4 DEF LoadEvents
    <3>2. SessionsTold'
      BY <2>4, LoadWhole
    <3> QED BY <1>4, <1>5, <1>6, <3>1, <3>2 DEF tables
  <2>5. CASE Crash
    <3>1. UNCHANGED <<tables, used, bundle>> /\ \A w \in Workers : req'[w] = Idle
      BY <2>5 DEF Crash
    <3>2. RequestsTold' /\ OneBusy'
      BY <3>1 DEF RequestsTold, RequestTold, Idle, OneBusy, Busy, At
    <3>3. SessionsTold'
      <4>1. LogWhole(0, <<>>)
        BY DEF LogWhole
      <4>2. \A s \in SessionIds : sessions'[s].turn = 0 /\ sessions'[s].log = <<>>
        BY <2>5 DEF Crash, NoSession
      <4> QED BY <4>1, <4>2 DEF SessionsTold
    <3> QED BY <1>4, <1>5, <3>1, <3>2, <3>3 DEF PlayerInv, tables
  <2> QED BY <1>9, <2>1, <2>2, <2>3, <2>4, <2>5 DEF SessionNext, PlayNext
<1>10. CASE SaveNext
  <2>1. PICK w \in Workers, s \in SessionIds, b \in BaseIds : SaveGame(w, s, b)
    BY <1>10 DEF SaveNext
  <2>2. PICK log, turn : log = sessions[s].log /\ turn = sessions[s].turn
    OBVIOUS
  <2>3. /\ b \notin used /\ used' = used \cup {b} /\ UNCHANGED <<sessions, bundle>>
        /\ Snapshot(w, <<b>>, turn, sessions[s].schema, log)
    BY <2>1, <2>2 DEF SaveGame
  <2>4. <<b>> # <<>> /\ <<b>>[1] = b
    OBVIOUS
  <2>5. (\A j \in DOMAIN saves : j[1] # b) /\ (bundle # NoBundle => bundle.save[1] # b)
    BY <1>1, <2>3 DEF TablesTold, SavesTold, BundleTold
  <2>6. TablesTold'
    BY <1>1, <1>8, <2>2, <2>3, <2>4, <2>5, SnapshotTold
  <2>7. UNCHANGED failures /\ \E end : Finish(w, end)
    BY <2>3 DEF Snapshot, tables
  <2> QED BY <1>3, <1>4, <1>6, <2>3, <2>6, <2>7
<1>11. CASE MigrationNext
  <2>1. PICK w \in Workers :
            \/ \E i \in DOMAIN saves : MigrateCheck(w, i)
            \/ MigrateBackup(w) \/ MigrateApply(w) \/ MigrateFail(w) \/ RecordFailure(w)
            \/ \E i \in DOMAIN saves : RestorePlan(w, i)
            \/ RestoreRead(w) \/ RestoreWrite(w)
    BY <1>11 DEF MigrationNext
  <2>2. ASSUME NEW i \in DOMAIN saves, MigrateCheck(w, i) PROVE PlayerInv'
    <3>1. PICK r : r = [pc |-> IF NeedsBackup(i) THEN "backup" ELSE "migrate",
                        save |-> i, backup |-> BackupId(i)]
      OBVIOUS
    <3>2. Goto(w, r) /\ UNCHANGED <<tables, sessions, used, bundle>>
      BY <2>2, <3>1 DEF MigrateCheck, Exists
    <3>3. BackupId(i) # <<>> /\ BackupId(i)[1] = i[1]
      BY <1>8, BackupBase DEF BackupId
    <3>4. r.pc \in {"backup", "migrate"} /\ r.save = i /\ r.backup = BackupId(i)
      BY <3>1
    <3>5. RequestTold(r)' /\ r.pc # "idle"
      BY <1>8, <3>3, <3>4 DEF RequestTold
    <3> QED BY <1>3, <1>4, <1>5, <1>7, <3>2, <3>5 DEF tables
  <2>3. CASE MigrateBackup(w)
    <3>1. UNCHANGED <<sessions, failures>>
      BY <2>3 DEF MigrateBackup, tables
    <3>2. TablesTold'
      BY <2>3, BackupTold
    <3>3. CASE Finish(w, "uncaught")
      BY <1>3, <1>4, <1>6, <3>1, <3>2, <3>3
    <3>4. ASSUME NEW b, b # <<>>, b[1] = req[w].save[1], req[w].save # <<>>,
                 Goto(w, [req[w] EXCEPT !.pc = "migrate", !.backup = b])
          PROVE  PlayerInv'
      <4>1. req[w] \in KeepReq
        BY <1>8, <2>3, RequestShape DEF MigrateBackup, At
      <4>2. PICK r : r = [req[w] EXCEPT !.pc = "migrate", !.backup = b]
        OBVIOUS
      <4>3. r.pc = "migrate" /\ r.save = req[w].save /\ r.backup = b
        BY <4>1, <4>2 DEF KeepReq
      <4>4. RequestTold(r)' /\ r.pc # "idle" /\ Goto(w, r)
        BY <3>4, <4>2, <4>3 DEF RequestTold
      <4> QED BY <1>3, <1>4, <1>7, <3>1, <3>2, <4>4
    <3> QED BY <2>3, <3>3, <3>4, BackupTold
  <2>4. CASE MigrateApply(w)
    <3>1. UNCHANGED <<events, failures, sessions, used, bundle>> /\ \E end : Finish(w, end)
      BY <2>4 DEF MigrateApply
    <3>2. /\ DOMAIN saves' = DOMAIN saves
          /\ \A i \in DOMAIN saves : saves'[i].turn = saves[i].turn
      BY <1>8, <2>4 DEF MigrateApply, Migrated, Row
    <3>3. TablesTold'
      BY <1>1, <3>1, <3>2, TurnsKept DEF Told, EventsOf
    <3> QED BY <1>3, <1>4, <1>6, <3>1, <3>3
  <2>5. CASE MigrateFail(w)
    <3>1. UNCHANGED <<tables, sessions, used, bundle>>
      BY <2>5 DEF MigrateFail
    <3>2. req[w] \in KeepReq /\ RequestTold(req[w]) /\ req[w].pc = "migrate"
      BY <1>8, <2>5, RequestShape DEF MigrateFail, At
    <3>3. PICK r : r = [req[w] EXCEPT !.pc = "record"]
      OBVIOUS
    <3>4. r.pc = "record" /\ r.save = req[w].save /\ r.backup = req[w].backup
      BY <3>2, <3>3 DEF KeepReq
    <3>5. RequestTold(r)' /\ r.pc # "idle" /\ Goto(w, r)
      BY <2>5, <3>2, <3>3, <3>4 DEF RequestTold, MigrateFail
    <3> QED BY <1>3, <1>4, <1>5, <1>7, <3>1, <3>5 DEF tables
  <2>6. CASE RecordFailure(w)
    <3>1. /\ UNCHANGED <<saves, events, sessions, used, bundle>> /\ Finish(w, "failed")
          /\ failures' = Append(failures, [save |-> req[w].save, backup |-> req[w].backup])
      BY <2>6 DEF RecordFailure
    <3>2. /\ req[w].save # <<>> /\ req[w].backup # <<>>
          /\ req[w].save[1] = req[w].backup[1]
      BY <1>8, <2>6 DEF RecordFailure, At, RequestTold
    <3>3. FailuresTold'
      <4>1. failures \in Seq([save : SaveIds, backup : SaveIds])
        BY DEF TypeOK
      <4>2. PICK f : f = [save |-> req[w].save, backup |-> req[w].backup]
        OBVIOUS
      <4>3. /\ DOMAIN failures' = 1..Len(failures) + 1 /\ failures'[Len(failures) + 1] = f
            /\ \A k \in 1..Len(failures) : failures'[k] = failures[k]
        BY <3>1, <4>1, <4>2
      <4>4. /\ f.save # <<>> /\ f.backup # <<>> /\ f.save[1] = f.backup[1]
        BY <3>2, <4>2
      <4>5. \A k \in DOMAIN failures' : k \in 1..Len(failures) \/ k = Len(failures) + 1
        BY <4>1, <4>3
      <4>6. DOMAIN failures = 1..Len(failures)
        BY <4>1
      <4> QED BY <1>1, <4>3, <4>4, <4>5, <4>6 DEF FailuresTold
    <3> QED BY <1>3, <1>5, <1>6, <3>1, <3>3
  <2>7. ASSUME NEW i \in DOMAIN saves, RestorePlan(w, i) PROVE PlayerInv'
    <3>1. UNCHANGED <<tables, sessions, used, bundle>>
      BY <2>7 DEF RestorePlan
    <3>2. CASE Finish(w, "not_found")
      BY <1>3, <1>4, <1>5, <1>6, <3>1, <3>2 DEF tables
    <3>3. CASE Goto(w, [pc |-> "restore", save |-> i, backup |-> PlannedBackup(i)])
      <4>1. PICK r : r = [pc |-> "restore", save |-> i, backup |-> PlannedBackup(i)]
        OBVIOUS
      <4>2. PlannedBackup(i) # <<>> /\ PlannedBackup(i)[1] = i[1]
        BY <1>1, <1>8, PlannedBase
      <4>3. r.pc = "restore" /\ r.save = i /\ r.backup = PlannedBackup(i)
        BY <4>1
      <4>4. r.save # <<>> /\ r.backup # <<>> /\ r.save[1] = r.backup[1]
        BY <1>8, <4>2, <4>3
      <4>5. RequestTold(r)' /\ r.pc # "idle" /\ Goto(w, r)
        BY <3>3, <4>1, <4>3, <4>4 DEF RequestTold
      <4> QED BY <1>3, <1>4, <1>5, <1>7, <3>1, <4>5 DEF tables
    <3> QED BY <2>7, <3>2, <3>3 DEF RestorePlan
  <2>8. CASE RestoreRead(w)
    <3>1. UNCHANGED <<tables, sessions, used, bundle>>
      BY <2>8 DEF RestoreRead
    <3>2. CASE Finish(w, "not_found")
      BY <1>3, <1>4, <1>5, <1>6, <3>1, <3>2 DEF tables
    <3>3. CASE /\ Exists(req[w].backup)
               /\ Goto(w, [pc |-> "restore_write", save |-> req[w].save,
                           row |-> saves[req[w].backup]])
      <4>1. PICK r : r = [pc |-> "restore_write", save |-> req[w].save,
                          row |-> saves[req[w].backup]]
        OBVIOUS
      <4>2. r.pc = "restore_write" /\ r.save = req[w].save /\ r.row = saves[req[w].backup]
        BY <4>1
      <4>3. req[w].save[1] = req[w].backup[1]
        BY <1>8, <2>8 DEF RestoreRead, At, RequestTold
      <4>4. r.save \in DOMAIN saves => saves[r.save].turn = r.row.turn
        BY <1>1, <3>3, <4>2, <4>3 DEF TablesTold, SameTurn, Exists
      <4>5. RequestTold(r)' /\ r.pc # "idle" /\ Goto(w, r)
        BY <3>1, <3>3, <4>1, <4>2, <4>4 DEF RequestTold, Exists, tables
      <4> QED BY <1>3, <1>4, <1>5, <1>7, <3>1, <4>5 DEF tables
    <3> QED BY <2>8, <3>2, <3>3 DEF RestoreRead
  <2>9. CASE RestoreWrite(w)
    <3>1. UNCHANGED <<events, failures, sessions, used, bundle>> /\ \E end : Finish(w, end)
      BY <2>9 DEF RestoreWrite
    <3>2. Exists(req[w].save) => saves[req[w].save].turn = req[w].row.turn
      BY <1>8, <2>9 DEF RestoreWrite, At, RequestTold
    <3>3. /\ DOMAIN saves' = DOMAIN saves
          /\ \A i \in DOMAIN saves : saves'[i].turn = saves[i].turn
      BY <2>9, <3>2 DEF RestoreWrite, Exists
    <3>4. TablesTold'
      BY <1>1, <3>1, <3>3, TurnsKept DEF Told, EventsOf
    <3> QED BY <1>3, <1>4, <1>6, <3>1, <3>4
  <2> QED BY <2>1, <2>2, <2>3, <2>4, <2>5, <2>6, <2>7, <2>8, <2>9
<1>12. CASE DeleteNext
  <2>1. PICK w \in Workers, i \in DOMAIN saves : DeleteSave(w, i)
    BY <1>12 DEF DeleteNext
  <2>2. /\ UNCHANGED <<sessions, used, bundle, failures>> /\ \E end : Finish(w, end)
        /\ saves' = [j \in DOMAIN saves \ {i} |-> saves[j]]
        /\ events' = events \ EventsOf(i)
    BY <2>1 DEF DeleteSave, Exists, tables
  <2>3. ASSUME NEW j \in DOMAIN saves, j # i PROVE Told(j)' = Told(j)
    <3>1. EventsOf(j)' = EventsOf(j)
      BY <2>2, <2>3 DEF EventsOf
    <3> QED BY <3>1 DEF Told
  <2>4. TablesTold'
    BY <1>1, <2>2, <2>3, TurnsKept
  <2> QED BY <1>3, <1>4, <1>6, <2>2, <2>4
<1>13. CASE BundleNext
  <2>1. PICK w \in Workers :
            \/ \E i \in DOMAIN saves : ExportSave(w, i)
            \/ \E overwrite \in BOOLEAN : ImportSave(w, overwrite)
    BY <1>13 DEF BundleNext
  <2>2. ASSUME NEW i \in DOMAIN saves, ExportSave(w, i) PROVE PlayerInv'
    <3>1. PICK log \in Listings(i) :
              bundle' = [save |-> i, turn |-> saves[i].turn,
                         schema |-> LoadedSchema(saves[i].schema), log |-> log]
      BY <2>2 DEF ExportSave
    <3>2. UNCHANGED <<tables, sessions, used, req>>
      BY <2>2 DEF ExportSave
    <3>3. LogWhole(saves[i].turn, log)
      BY <1>1, <1>8, ListingWhole DEF TablesTold, SavesTold
    <3>4. bundle'.save = i /\ bundle'.turn = saves[i].turn /\ bundle'.log = log
      BY <3>1
    <3>5. BundleTold'
      BY <1>1, <1>8, <3>2, <3>3, <3>4 DEF BundleTold, TablesTold, SavesTold, SameTurn, tables
    <3>6. SavesTold' /\ SameTurn'
      BY <1>1, <3>2 DEF TablesTold, SavesTold, SameTurn, tables, Told, EventsOf
    <3>7. RequestsTold' /\ OneBusy'
      BY <1>1, <3>2 DEF RequestsTold, RequestTold, OneBusy, Busy, At, Exists, tables
    <3> QED BY <1>3, <1>4, <3>2, <3>5, <3>6, <3>7 DEF PlayerInv, TablesTold, tables
  <2>3. ASSUME NEW overwrite \in BOOLEAN, ImportSave(w, overwrite) PROVE PlayerInv'
    <3>1. UNCHANGED <<sessions, used, bundle>> /\ bundle # NoBundle
      BY <2>3 DEF ImportSave
    <3>2. CASE Finish(w, "refused") /\ UNCHANGED tables
      BY <1>3, <1>4, <1>5, <1>6, <3>1, <3>2 DEF tables
    <3>3. CASE Snapshot(w, bundle.save, bundle.turn, bundle.schema, bundle.log)
      <4>1. PICK i, turn, schema, log : /\ i = bundle.save /\ turn = bundle.turn
                                        /\ schema = bundle.schema /\ log = bundle.log
        OBVIOUS
      <4>2. Snapshot(w, i, turn, schema, log)
        BY <3>3, <4>1
      <4>3. turn \in Nat /\ log \in Seq(Event)
        BY <3>1, <4>1 DEF TypeOK
      <4>4. /\ i # <<>> /\ i[1] \in used /\ LogWhole(turn, log)
            /\ \A j \in DOMAIN saves : j[1] = i[1] => saves[j].turn = turn
        BY <1>1, <3>1, <4>1 DEF TablesTold, BundleTold
      <4>5. TablesTold'
        BY <1>1, <3>1, <4>1, <4>2, <4>3, <4>4, SnapshotTold
      <4>6. UNCHANGED failures /\ \E end : Finish(w, end)
        BY <4>2 DEF Snapshot, tables
      <4> QED BY <1>3, <1>4, <1>6, <3>1, <4>5, <4>6
    <3> QED BY <2>3, <3>2, <3>3 DEF ImportSave
  <2> QED BY <2>1, <2>2, <2>3
<1> QED BY <1>9, <1>10, <1>11, <1>12, <1>13 DEF HttpNext

LEMMA PlayerStart ==
    ASSUME Init, \A i \in DOMAIN saves : Whole(saves[i].turn, Told(i))
    PROVE  PlayerInv
<1>1. \A i \in DOMAIN saves : i \in Seq(Nat) /\ Len(i) = 1
  BY OldDataAssumption DEF Init
<1>2. \A i \in DOMAIN saves : i # <<>> /\ i[1] \in used
  BY <1>1 DEF Init
<1>3. ASSUME NEW i \in DOMAIN saves, NEW j \in DOMAIN saves, i[1] = j[1] PROVE i = j
  BY <1>1, <1>3
<1>4. TablesTold
  BY <1>2, <1>3 DEF TablesTold, SavesTold, SameTurn, BundleTold, Init
<1>5. RequestsTold /\ OneBusy
  BY DEF Init, RequestsTold, RequestTold, OneBusy, Busy, At, Idle
<1>6. FailuresTold
  BY DEF Init, FailuresTold
<1>7. SessionsTold
  <2>1. LogWhole(0, <<>>)
    BY DEF LogWhole
  <2> QED BY <2>1 DEF Init, SessionsTold, NoSession
<1> QED BY <1>4, <1>5, <1>6, <1>7 DEF PlayerInv

LEMMA PlayerInvIsWhole ==
    ASSUME TypeOK, IsFiniteSet(events), PlayerInv
    PROVE  SessionsWhole /\ StoredSavesWhole
<1>1. ASSUME NEW s \in SessionIds
      PROVE  /\ Ordered(sessions[s].log)
             /\ IF sessions[s].log = <<>> THEN sessions[s].turn = 0
                ELSE sessions[s].log[Len(sessions[s].log)].turn = sessions[s].turn
  <2>1. /\ sessions[s].log \in Seq(Event) /\ sessions[s].turn \in Nat
        /\ LogWhole(sessions[s].turn, sessions[s].log)
    BY DEF TypeOK, Session, PlayerInv, SessionsTold
  <2> QED BY <2>1, WholeIsOrdered
<1>2. ASSUME NEW i \in DOMAIN saves, NEW log \in Listings(i)
      PROVE  /\ Ordered(log)
             /\ IF log = <<>> THEN saves[i].turn = 0 ELSE log[Len(log)].turn = saves[i].turn
  <2>1. saves[i].turn \in Nat /\ events \subseteq EventRow /\ Whole(saves[i].turn, Told(i))
    BY DEF TypeOK, SavesType, Row, PlayerInv, TablesTold, SavesTold
  <2>2. LogWhole(saves[i].turn, log) /\ log \in Seq(Event)
    BY <2>1, ListingWhole, ListingsType
  <2> QED BY <2>1, <2>2, WholeIsOrdered
<1> QED BY <1>1, <1>2 DEF SessionsWhole, StoredSavesWhole

LEMMA PlayerKeepsInv == PlayerSpec => [](SessionsWhole /\ StoredSavesWhole)
<1>1. [HttpNext /\ OneAtATime]_vars => [Next]_vars
  BY DEF HttpNext, Next
<1>2. Init => ReferentialIntegrity
  BY OldDataAssumption DEF Init, ReferentialIntegrity, Exists
<1>3. TypeOK /\ IsFiniteSet(events) /\ [Next]_vars => TypeOK' /\ IsFiniteSet(events)'
  BY NextKeepsTypes
<1>4. ReferentialIntegrity /\ [Next]_vars => ReferentialIntegrity'
  BY NextKeepsReferences
<1>5. /\ TypeOK /\ IsFiniteSet(events) /\ ReferentialIntegrity /\ PlayerInv
      /\ [HttpNext /\ OneAtATime]_vars
      => PlayerInv'
  <2>1. ASSUME PlayerInv, UNCHANGED vars PROVE PlayerInv'
    BY <2>1 DEF vars, tables, PlayerInv, TablesTold, SavesTold, SameTurn, BundleTold, RequestsTold,
                RequestTold, OneBusy, Busy, At, FailuresTold, SessionsTold, Told, EventsOf, Exists
  <2> QED BY <2>1, PlayerStep
<1>6. TypeOK /\ IsFiniteSet(events) /\ PlayerInv => SessionsWhole /\ StoredSavesWhole
  BY PlayerInvIsWhole
<1>7. Init /\ (\A i \in DOMAIN saves : Whole(saves[i].turn, Told(i))) => PlayerInv
  BY PlayerStart
<1> QED BY InitTypes, <1>1, <1>2, <1>3, <1>4, <1>5, <1>6, <1>7, PTL DEF PlayerSpec


\* A session of one player is whole: its state and its event log tell the same
\* turn, whatever was saved, loaded, migrated, restored, imported or deleted
\* before (main.py load_game, session_store.py restore_session).
THEOREM SessionsStayWhole == PlayerSpec => []SessionsWhole
BY PlayerKeepsInv, PTL

\* So is every save of that player, backups included: state_json and the stored
\* events tell the same turn (repository.py save_snapshot, migrate_save,
\* restore_pre_migration_backup, import_export.py import_save).
THEOREM SavesStayWhole == PlayerSpec => []StoredSavesWhole
BY PlayerKeepsInv, PTL

-----------------------------------------------------------------------------
(***************************************************************************)
(* The order of the stored events.  An append reads the next sequence      *)
(* number on one connection and inserts on another; that no row came in    *)
(* between is what one request at a time gives.                            *)
(***************************************************************************)

Above(i, n) == \A r \in EventsOf(i) : r.seq < n
Reserved == \A w \in Workers : At(w, "append_insert") => Above(req[w].save, req[w].seq)
OrderInv == SequencesUnique /\ OneBusy /\ Reserved

LEMMA SnapshotOrdered ==
    ASSUME SequencesUnique, NEW w, NEW i, NEW turn, NEW schema, NEW log \in Seq(Event),
           Snapshot(w, i, turn, schema, log)
    PROVE  SequencesUnique'
<1> DEFINE rows == {[key |-> RawKey(log[k]), save |-> i, ev |-> log[k], seq |-> k - 1]
                       : k \in 1..Len(log)}
<1>1. CASE UNCHANGED tables
  BY <1>1 DEF tables, SequencesUnique
<1>2. CASE events' = (events \ EventsOf(i)) \cup rows
  <2>1. \A r \in rows : r.save = i
    OBVIOUS
  <2>2. ASSUME NEW r \in rows, NEW x \in rows, r.seq = x.seq PROVE r = x
    <3>1. PICK k \in 1..Len(log) :
              r = [key |-> RawKey(log[k]), save |-> i, ev |-> log[k], seq |-> k - 1]
      OBVIOUS
    <3>2. PICK l \in 1..Len(log) :
              x = [key |-> RawKey(log[l]), save |-> i, ev |-> log[l], seq |-> l - 1]
      OBVIOUS
    <3>3. k - 1 = l - 1
      BY <2>2, <3>1, <3>2
    <3>4. k = l
      BY <3>3
    <3> QED BY <3>1, <3>2, <3>4
  <2>3. \A r \in events \ EventsOf(i) : r \in events /\ r.save # i
    BY DEF EventsOf
  <2> HIDE DEF rows
  <2> QED BY <1>2, <2>1, <2>2, <2>3 DEF SequencesUnique
<1> QED BY <1>1, <1>2 DEF Snapshot

LEMMA NextKeepsOrder ==
    ASSUME TypeOK, IsFiniteSet(events), ReferentialIntegrity, OrderInv, Next, OneAtATime
    PROVE  OrderInv'
<1> DEFINE Others(w) == \A x \in Workers : x # w => req[x] = Idle
           Quiet == req' = req /\ UNCHANGED <<tables, used, bundle>>
<1>1. SequencesUnique /\ OneBusy /\ Reserved /\ events \subseteq EventRow
  BY DEF OrderInv, TypeOK
<1>2. ASSUME events' = events PROVE SequencesUnique'
  BY <1>1, <1>2 DEF SequencesUnique
<1>3. ASSUME req' = req, events' = events PROVE OrderInv'
  BY <1>1, <1>3 DEF OrderInv, SequencesUnique, OneBusy, Busy, At, Reserved, Above, EventsOf
<1>4. ASSUME NEW w \in Workers, NEW end, Finish(w, end), SequencesUnique' PROVE OrderInv'
  <2>1. Others(w) \/ Quiet
    BY <1>1, <1>4, OthersIdle
  <2>2. ASSUME Others(w) PROVE OneBusy' /\ Reserved'
    <3>1. \A x \in Workers : req'[x] = Idle
      BY <1>4, <2>2 DEF Finish, TypeOK
    <3> QED BY <3>1 DEF OneBusy, Busy, At, Idle, Reserved
  <2>3. ASSUME Quiet PROVE OrderInv'
    BY <1>3, <2>3 DEF tables
  <2> HIDE DEF Others, Quiet
  <2> QED BY <1>4, <2>1, <2>2, <2>3 DEF OrderInv
<1>5. ASSUME NEW w \in Workers, NEW r, Goto(w, r), r.pc # "idle", SequencesUnique',
             r.pc = "append_insert" => Above(r.save, r.seq)'
      PROVE  OrderInv'
  <2>1. Others(w) \/ Quiet
    BY <1>1, <1>5, OthersIdle
  <2>2. ASSUME Others(w) PROVE OneBusy' /\ Reserved'
    <3>1. \A x \in Workers : req'[x] = IF x = w THEN r ELSE Idle
      BY <1>5, <2>2 DEF Goto, TypeOK
    <3> QED BY <1>5, <3>1 DEF OneBusy, Busy, At, Idle, Reserved
  <2>3. ASSUME Quiet PROVE OrderInv'
    BY <1>3, <2>3 DEF tables
  <2> HIDE DEF Others, Quiet
  <2> QED BY <1>5, <2>1, <2>2, <2>3 DEF OrderInv
<1> HIDE DEF Others, Quiet
\* A step from one block of a request to the next that writes no event.
<1>6. ASSUME NEW w \in Workers, NEW r, Goto(w, r), events' = events,
             r.pc \notin {"idle", "append_insert"}
      PROVE  OrderInv'
  BY <1>2, <1>5, <1>6
<1>7. ASSUME NEW w \in Workers, NEW end, Finish(w, end), events' = events PROVE OrderInv'
  BY <1>2, <1>4, <1>7
<1>8. \A w \in Workers : req[w] \in Request
  BY DEF TypeOK
<1>9. CASE SessionNext \/ PlayNext
  <2>1. ASSUME NEW s \in SessionIds, StartGame(s) \/ Play(s) PROVE OrderInv'
    BY <1>3, <2>1 DEF StartGame, Play, tables
  <2>2. ASSUME NEW w \in Workers, NEW i \in DOMAIN saves, LoadState(w, i) PROVE OrderInv'
    BY <1>6, <2>2 DEF LoadState, Exists, tables
  <2>3. ASSUME NEW w \in Workers, LoadExists(w) PROVE OrderInv'
    <3>1. PICK r : r = [req[w] EXCEPT !.pc = "load_events"]
      OBVIOUS
    <3>2. r.pc = "load_events"
      BY <1>8, <2>3, <3>1, RequestShape DEF LoadExists, At, LoadReq
    <3> QED BY <1>6, <1>7, <2>3, <3>1, <3>2 DEF LoadExists, tables
  <2>4. ASSUME NEW w \in Workers, NEW s \in SessionIds, LoadEvents(w, s) PROVE OrderInv'
    BY <1>7, <2>4 DEF LoadEvents, tables
  <2>5. CASE Crash
    <3>1. events' = events /\ \A w \in Workers : req'[w] = Idle
      BY <2>5 DEF Crash, tables
    <3> QED BY <1>2, <3>1 DEF OrderInv, OneBusy, Busy, At, Idle, Reserved
  <2> QED BY <1>9, <2>1, <2>2, <2>3, <2>4, <2>5 DEF SessionNext, PlayNext
<1>10. ASSUME NEW w \in Workers, NEW s \in SessionIds, NEW i,
              Snapshot(w, i, sessions[s].turn, sessions[s].schema, sessions[s].log)
       PROVE  OrderInv'
  <2>1. sessions[s].log \in Seq(Event)
    BY DEF TypeOK, Session
  <2>2. SequencesUnique'
    BY <1>1, <1>10, <2>1, SnapshotOrdered
  <2> QED BY <1>4, <1>10, <2>2 DEF Snapshot
<1>11. CASE SaveNext
  BY <1>10, <1>11 DEF SaveNext, SaveGame
<1>12. CASE MigrationNext
  <2>1. PICK w \in Workers :
            \/ \E i \in DOMAIN saves : MigrateCheck(w, i)
            \/ MigrateBackup(w) \/ MigrateApply(w) \/ MigrateFail(w) \/ RecordFailure(w)
            \/ \E i \in DOMAIN saves : RestorePlan(w, i)
            \/ RestoreRead(w) \/ RestoreWrite(w)
    BY <1>12 DEF MigrationNext
  <2>2. ASSUME NEW i \in DOMAIN saves, MigrateCheck(w, i) PROVE OrderInv'
    <3>1. PICK r : r = [pc |-> IF NeedsBackup(i) THEN "backup" ELSE "migrate",
                        save |-> i, backup |-> BackupId(i)]
      OBVIOUS
    <3>2. r.pc \in {"backup", "migrate"}
      BY <3>1
    <3> QED BY <1>6, <2>2, <3>1, <3>2 DEF MigrateCheck, Exists, tables
  <2>3. CASE MigrateBackup(w)
    <3>1. PICK i, b : i = req[w].save /\
                      b = IF Exists(BackupId(i)) THEN Append(BackupId(i), NextSeq(i))
                          ELSE BackupId(i)
      OBVIOUS
    <3>2. CASE Finish(w, "uncaught") /\ UNCHANGED tables
      BY <1>7, <3>2 DEF tables
    <3>3. CASE /\ ~(Exists(b) /\ Exists(i))
               /\ Goto(w, [req[w] EXCEPT !.pc = "migrate", !.backup = b])
               /\ events' = events \cup BackupEvents(b, i)
      <4>1. PICK r : r = [req[w] EXCEPT !.pc = "migrate", !.backup = b]
        OBVIOUS
      <4>2. r.pc = "migrate"
        BY <1>8, <2>3, <4>1, RequestShape DEF MigrateBackup, At, KeepReq
      <4>3. CASE ~Exists(i)
        <5>1. BackupEvents(b, i) = {}
          BY <4>3 DEF BackupEvents, EventsOf, ReferentialIntegrity
        <5> QED BY <1>6, <3>3, <4>1, <4>2, <5>1
      <4>4. CASE ~Exists(b)
        <5>1. \A x \in events : x.save # b
          BY <4>4 DEF ReferentialIntegrity
        <5>2. \A x \in BackupEvents(b, i) :
                  \E y \in EventsOf(i) : x = [key |-> BackupKey(b, y.key), save |-> b,
                                              ev |-> y.ev, seq |-> y.seq]
          BY DEF BackupEvents
        <5>3. ASSUME NEW x \in BackupEvents(b, i), NEW z \in BackupEvents(b, i), x.seq = z.seq
              PROVE  x = z
          BY <1>1, <5>2, <5>3 DEF SequencesUnique, EventsOf
        <5>4. \A x \in BackupEvents(b, i) : x.save = b
          BY <5>2
        <5>5. SequencesUnique'
          BY <1>1, <3>3, <5>1, <5>3, <5>4 DEF SequencesUnique
        <5> QED BY <1>5, <3>3, <4>1, <4>2, <5>5
      <4> QED BY <3>3, <4>3, <4>4
    <3> QED BY <2>3, <3>1, <3>2, <3>3 DEF MigrateBackup
  <2>4. CASE MigrateApply(w)
    BY <1>7, <2>4 DEF MigrateApply
  <2>5. CASE MigrateFail(w)
    <3>1. PICK r : r = [req[w] EXCEPT !.pc = "record"]
      OBVIOUS
    <3>2. r.pc = "record"
      BY <1>8, <2>5, <3>1, RequestShape DEF MigrateFail, At, KeepReq
    <3> QED BY <1>6, <2>5, <3>1, <3>2 DEF MigrateFail, tables
  <2>6. CASE RecordFailure(w)
    BY <1>7, <2>6 DEF RecordFailure
  <2>7. CASE \E i \in DOMAIN saves : RestorePlan(w, i)
    BY <1>6, <1>7, <2>7 DEF RestorePlan, tables
  <2>8. CASE RestoreRead(w)
    BY <1>6, <1>7, <2>8 DEF RestoreRead, tables
  <2>9. CASE RestoreWrite(w)
    BY <1>7, <2>9 DEF RestoreWrite
  <2> QED BY <2>1, <2>2, <2>3, <2>4, <2>5, <2>6, <2>7, <2>8, <2>9
<1>13. CASE DeleteNext
  <2>1. PICK w \in Workers, i \in DOMAIN saves : DeleteSave(w, i)
    BY <1>13 DEF DeleteNext
  <2>2. events' \subseteq events /\ \E end : Finish(w, end)
    BY <2>1 DEF DeleteSave, tables
  <2>3. SequencesUnique'
    BY <1>1, <2>2 DEF SequencesUnique
  <2> QED BY <1>4, <2>2, <2>3
<1>14. CASE BundleNext
  <2>1. CASE \E w \in Workers, i \in DOMAIN saves : ExportSave(w, i)
    BY <1>3, <2>1 DEF ExportSave, tables
  <2>2. ASSUME NEW w \in Workers, NEW overwrite \in BOOLEAN, ImportSave(w, overwrite)
        PROVE  OrderInv'
    <3>1. CASE Finish(w, "refused") /\ UNCHANGED tables
      BY <1>7, <3>1 DEF tables
    <3>2. CASE Snapshot(w, bundle.save, bundle.turn, bundle.schema, bundle.log)
      <4>1. bundle.log \in Seq(Event)
        BY <2>2 DEF ImportSave, TypeOK
      <4>2. SequencesUnique'
        BY <1>1, <3>2, <4>1, SnapshotOrdered
      <4> QED BY <1>4, <3>2, <4>2 DEF Snapshot
    <3> QED BY <2>2, <3>1, <3>2 DEF ImportSave
  <2> QED BY <1>14, <2>1, <2>2 DEF BundleNext
<1>15. CASE ServiceNext
  <2>1. PICK w \in Workers :
            \/ \E s \in SessionIds, b \in BaseIds : CreateSave(w, s, b)
            \/ \E s \in SessionIds : StepAndPersist(w, s)
            \/ SaveState(w) \/ AppendExists(w) \/ AppendSeq(w) \/ AppendInsert(w)
            \/ \E i, ms, replace : MemoryExists(w, i, ms, replace)
            \/ MemoryWrite(w)
    BY <1>15 DEF ServiceNext
  <2>2. CASE \E s \in SessionIds, b \in BaseIds : CreateSave(w, s, b)
    BY <1>10, <2>2 DEF CreateSave
  <2>3. CASE \E s \in SessionIds : StepAndPersist(w, s)
    BY <1>6, <2>3 DEF StepAndPersist, tables
  <2>4. CASE SaveState(w)
    <3>1. PICK r : r = [pc |-> "append", save |-> req[w].save, ev |-> req[w].ev]
      OBVIOUS
    <3>2. r.pc = "append"
      BY <3>1
    <3> QED BY <1>6, <1>7, <2>4, <3>1, <3>2 DEF SaveState
  <2>5. CASE AppendExists(w)
    <3>1. PICK r : r = [req[w] EXCEPT !.pc = "append_seq"]
      OBVIOUS
    <3>2. r.pc = "append_seq"
      BY <1>8, <2>5, <3>1, RequestShape DEF AppendExists, At, AppendReq
    <3> QED BY <1>6, <1>7, <2>5, <3>1, <3>2 DEF AppendExists, tables
  <2>6. CASE AppendSeq(w)
    <3>1. PICK r : r = [pc |-> "append_insert", save |-> req[w].save, ev |-> req[w].ev,
                        seq |-> NextSeq(req[w].save)]
      OBVIOUS
    <3>2. r.pc = "append_insert" /\ r.save = req[w].save /\ r.seq = NextSeq(req[w].save)
      BY <3>1
    <3>3. Goto(w, r) /\ events' = events
      BY <2>6, <3>1 DEF AppendSeq, tables
    <3>4. Above(r.save, r.seq)
      BY <1>1, <3>2, NextSeqType DEF Above
    <3>5. Above(r.save, r.seq)'
      BY <3>3, <3>4 DEF Above, EventsOf
    <3> QED BY <1>2, <1>5, <3>2, <3>3, <3>5
  <2>7. CASE AppendInsert(w)
    <3>1. PICK i, e, n : i = req[w].save /\ e = req[w].ev /\ n = req[w].seq
      OBVIOUS
    <3>2. Above(i, n)
      BY <1>1, <2>7, <3>1 DEF Reserved, AppendInsert
    <3>3. n \in Nat
      BY <1>8, <2>7, <3>1, RequestShape DEF AppendInsert, At, InsertReq
    <3>4. CASE events' = events
      BY <1>7, <2>7, <3>4 DEF AppendInsert
    <3>5. CASE /\ events' = events \cup {[key |-> RawKey(e), save |-> i, ev |-> e, seq |-> n]}
               /\ Finish(w, "ok")
      <4>1. \A r \in events : r.save = i => r.seq < n /\ r.seq \in Nat
        BY <1>1, <3>2 DEF Above, EventsOf, EventRow
      <4>2. \A r \in events : r.save = i => r.seq # n
        BY <3>3, <4>1
      <4>3. SequencesUnique'
        BY <1>1, <3>5, <4>2 DEF SequencesUnique
      <4> QED BY <1>4, <3>5, <4>3
    <3> QED BY <2>7, <3>1, <3>4, <3>5 DEF AppendInsert
  <2>8. CASE \E i, ms, replace : MemoryExists(w, i, ms, replace)
    BY <1>6, <1>7, <2>8 DEF MemoryExists, tables
  <2>9. CASE MemoryWrite(w)
    BY <1>7, <2>9 DEF MemoryWrite
  <2> QED BY <2>1, <2>2, <2>3, <2>4, <2>5, <2>6, <2>7, <2>8, <2>9
<1> QED BY <1>9, <1>11, <1>12, <1>13, <1>14, <1>15 DEF Next

\* No two events of a save share a sequence number, so that list_events is one
\* log, as long as requests come one at a time (repository.py append_event).
THEOREM SequencesStayUnique == OneByOneSpec => []SequencesUnique
<1>1. Init /\ SequencesUnique => OrderInv
  BY DEF Init, OrderInv, OneBusy, Busy, Reserved, At, Idle
<1>2. Init => ReferentialIntegrity
  BY OldDataAssumption DEF Init, ReferentialIntegrity, Exists
<1>3. [Next /\ OneAtATime]_vars => [Next]_vars
  OBVIOUS
<1>4. TypeOK /\ IsFiniteSet(events) /\ [Next]_vars => TypeOK' /\ IsFiniteSet(events)'
  BY NextKeepsTypes
<1>5. ReferentialIntegrity /\ [Next]_vars => ReferentialIntegrity'
  BY NextKeepsReferences
<1>6. /\ TypeOK /\ IsFiniteSet(events) /\ ReferentialIntegrity /\ OrderInv
      /\ [Next /\ OneAtATime]_vars
      => OrderInv'
  <2>1. ASSUME OrderInv, UNCHANGED vars PROVE OrderInv'
    BY <2>1 DEF vars, tables, OrderInv, SequencesUnique, OneBusy, Busy, At, Reserved, Above, EventsOf
  <2> QED BY <2>1, NextKeepsOrder
<1>7. OrderInv => SequencesUnique
  BY DEF OrderInv
<1> QED BY InitTypes, <1>1, <1>2, <1>3, <1>4, <1>5, <1>6, <1>7, PTL DEF OneByOneSpec

-----------------------------------------------------------------------------
(***************************************************************************)
(* What a caller of SaveService loses.  A stored save lacks the events of  *)
(* as many turns as the process died, and of one more while the events of  *)
(* a step are on their way; a session lacks no more, and a session that is *)
(* kept in a save is at the turn of that save unless its state is still to *)
(* be written.                                                             *)
(***************************************************************************)

Appending == {"append", "append_seq", "append_insert"}
LogTurns(log) == {log[k].turn : k \in 1..Len(log)}
Lacks(turn, turns, n) == (\A t \in turns : t <= turn) /\ turn - Cardinality(turns) <= n

EventIds == \A r \in events : r.key = RawKey(r.ev) /\ r.ev.id < nextEvent
IdsKnown == \A i \in DOMAIN saves : i # <<>> /\ i[1] \in used
InFlight(i) == \E w \in Workers : req[w].pc \in Appending /\ req[w].save = i
SavesLack ==
    \A i \in DOMAIN saves :
        Lacks(saves[i].turn, Turns(i), IF InFlight(i) THEN crashes + 1 ELSE crashes)

Settled(s) ==
    sessions[s].save \in DOMAIN saves => saves[sessions[s].save].turn = sessions[s].turn
SessionLacks(s) ==
    /\ Lacks(sessions[s].turn, LogTurns(sessions[s].log), crashes)
    /\ \A k \in 1..Len(sessions[s].log) : sessions[s].log[k].id < nextEvent
    /\ sessions[s].save # <<>> => sessions[s].save[1] \in used
    /\ ~sessions[s].live => sessions[s] = NoSession

FreshEvent(e) == e.id < nextEvent /\ \A r \in events : r.ev.id # e.id
CallerRequest(s, r) ==
    /\ r.pc \in {"load_exists", "load_events"} =>
          Exists(r.save) /\ saves[r.save].turn = r.turn
    /\ r.pc = "save_state" =>
          /\ FreshEvent(r.ev) /\ r.ev.turn = r.turn
          /\ r.save = sessions[s].save /\ r.turn = sessions[s].turn
          /\ r.save \in DOMAIN saves => saves[r.save].turn + 1 = r.turn
    /\ r.pc \in Appending =>
          /\ FreshEvent(r.ev)
          /\ Exists(r.save) => /\ saves[r.save].turn = r.ev.turn
                               /\ \A t \in Turns(r.save) : t < r.ev.turn

CallerInv(s) ==
    /\ EventIds /\ IdsKnown /\ SavesLack /\ SessionLacks(s) /\ OneBusy
    /\ \A w \in Workers : CallerRequest(s, req[w])
    /\ (\A w \in Workers : ~At(w, "save_state")) => Settled(s)

\* The turns of a save are finitely many.
LEMMA TurnsFinite ==
    ASSUME events \subseteq EventRow, IsFiniteSet(events), NEW i
    PROVE  IsFiniteSet(Turns(i)) /\ Turns(i) \subseteq Nat
<1> DEFINE f == [r \in EventsOf(i) |-> r.ev.turn]
<1>1. IsFiniteSet(EventsOf(i)) /\ EventsOf(i) \subseteq EventRow
  BY FS_Subset DEF EventsOf
<1>2. /\ Turns(i) = {f[r] : r \in EventsOf(i)}
      /\ f \in [EventsOf(i) -> {f[r] : r \in EventsOf(i)}]
  BY DEF Turns
<1>3. IsFiniteSet(Turns(i))
  <2> HIDE DEF f
  <2> QED BY <1>1, <1>2, FiniteImage
<1> QED BY <1>1, <1>3 DEF Turns, EventRow, Event

LEMMA LogTurnsFinite ==
    ASSUME NEW log \in Seq(Event)
    PROVE  IsFiniteSet(LogTurns(log)) /\ LogTurns(log) \subseteq Nat
<1> DEFINE f == [k \in 1..Len(log) |-> log[k].turn]
<1>1. IsFiniteSet(1..Len(log))
  BY FS_Interval
<1>2. LogTurns(log) = {f[k] : k \in 1..Len(log)} /\ f \in [1..Len(log) -> {f[k] : k \in 1..Len(log)}]
  BY DEF LogTurns
<1>3. IsFiniteSet(LogTurns(log))
  <2> HIDE DEF f
  <2> QED BY <1>1, <1>2, FiniteImage
<1>4. ASSUME NEW k \in 1..Len(log) PROVE log[k].turn \in Nat
  <2>1. log[k] \in Event
    OBVIOUS
  <2> QED BY <2>1 DEF Event
<1> QED BY <1>3, <1>4 DEF LogTurns

\* One turn more, and it is told.
LEMMA OneMoreTurn ==
    ASSUME NEW turns, IsFiniteSet(turns), turns \subseteq Nat, NEW n \in Nat,
           NEW next \in Nat, \A t \in turns : t < next,
           next - Cardinality(turns) <= n + 1
    PROVE  Lacks(next, turns \cup {next}, n)
<1>1. next \notin turns
  OBVIOUS
<1>2. Cardinality(turns \cup {next}) = Cardinality(turns) + 1 /\ Cardinality(turns) \in Nat
  BY <1>1, FS_AddElement, FS_CardinalityType
<1>3. \A t \in turns \cup {next} : t <= next
  OBVIOUS
<1> QED BY <1>2, <1>3 DEF Lacks

\* A listing tells all the turns of the save.
LEMMA ListingTurns ==
    ASSUME events \subseteq EventRow, IsFiniteSet(events), NEW i, NEW log \in Listings(i)
    PROVE  LogTurns(log) = Turns(i) /\ \A k \in 1..Len(log) : \E r \in EventsOf(i) : log[k] = r.ev
<1> DEFINE E == EventsOf(i)
           c == Cardinality(E)
<1>1. IsFiniteSet(E) /\ c \in Nat /\ E \subseteq EventRow
  BY FS_Subset, FS_CardinalityType DEF EventsOf
<1>2. PICK f \in [1..c -> E] :
          /\ \A a, b \in DOMAIN f : a < b => f[a] # f[b] /\ f[a].seq <= f[b].seq
          /\ log = [k \in 1..c |-> f[k].ev]
  BY DEF Listings
<1>3. f \in Surjection(1..c, E)
  BY <1>1, <1>2, ListingOnto
<1> HIDE DEF c
<1>4. log \in Seq(Event)
  BY ListingsType
<1>5. DOMAIN log = 1..c /\ \A k \in 1..c : log[k] = f[k].ev
  BY <1>2
<1>6. Len(log) = c
  BY <1>1, <1>4, <1>5
<1>7. \A r \in E : \E k \in 1..c : f[k] = r
  BY <1>3 DEF Surjection
<1>8. \A k \in 1..Len(log) : f[k] \in E /\ log[k] = f[k].ev
  BY <1>2, <1>5, <1>6
<1>9. \A t \in LogTurns(log) : t \in Turns(i)
  BY <1>8 DEF LogTurns, Turns
<1>10. \A t \in Turns(i) : t \in LogTurns(log)
  BY <1>5, <1>6, <1>7 DEF LogTurns, Turns
<1> QED BY <1>8, <1>9, <1>10

-----------------------------------------------------------------------------
\* What CallerInv says of the requests, when one worker w is in r or idle.
OneRequest(s, r) ==
    /\ CallerRequest(s, r)
    /\ \A i \in DOMAIN saves :
          Lacks(saves[i].turn, Turns(i),
                IF r.pc \in Appending /\ r.save = i THEN crashes + 1 ELSE crashes)
    /\ r.pc # "save_state" => Settled(s)

LEMMA OneRequestBefore ==
    ASSUME TypeOK, NEW s, CallerInv(s), NEW w \in Workers, NEW r, req[w] = r,
           \A x \in Workers : x # w => req[x] = Idle
    PROVE  OneRequest(s, r)
<1>1. \A i : InFlight(i) <=> r.pc \in Appending /\ r.save = i
  BY DEF InFlight, Appending, Idle
<1>2. r.pc # "save_state" => \A x \in Workers : ~At(x, "save_state")
  BY DEF At, Idle
<1> QED BY <1>1, <1>2 DEF CallerInv, OneRequest, SavesLack

LEMMA OneRequestAfter ==
    ASSUME TypeOK, NEW s, NEW w \in Workers, NEW r, req' = [req EXCEPT ![w] = r],
           \A x \in Workers : x # w => req[x] = Idle,
           OneRequest(s, r)', EventIds', IdsKnown', SessionLacks(s)'
    PROVE  CallerInv(s)'
<1>1. \A x \in Workers : req'[x] = IF x = w THEN r ELSE Idle
  BY DEF TypeOK
<1>2. OneBusy'
  BY <1>1 DEF OneBusy, Busy, At, Idle
<1>3. \A i : InFlight(i)' <=> r.pc \in Appending /\ r.save = i
  BY <1>1 DEF InFlight, Appending, Idle
<1>4. (\A x \in Workers : ~At(x, "save_state"))' => r.pc # "save_state"
  BY <1>1 DEF At
<1>5. CallerRequest(s, Idle)'
  BY DEF CallerRequest, Idle, Appending
<1>6. (\A x \in Workers : CallerRequest(s, req[x]))'
  BY <1>1, <1>5 DEF OneRequest
<1>7. SavesLack'
  BY <1>3 DEF SavesLack, OneRequest
<1> QED BY <1>2, <1>4, <1>6, <1>7 DEF CallerInv, OneRequest

LEMMA LacksMore ==
    ASSUME NEW turn \in Nat, NEW turns, IsFiniteSet(turns), NEW n \in Nat, Lacks(turn, turns, n)
    PROVE  Lacks(turn, turns, n + 1)
<1>1. Cardinality(turns) \in Nat
  BY FS_CardinalityType
<1> QED BY <1>1 DEF Lacks

\* A step of a worker that reads, or writes memories alone.
LEMMA ReadStep ==
    ASSUME TypeOK, IsFiniteSet(events), NEW s, CallerInv(s), OneAtATime, NEW w \in Workers, NEW r, NEW end,
           UNCHANGED <<saves, events, sessions, used, nextEvent, crashes>>,
           \/ Finish(w, end) /\ r = Idle
           \/ Goto(w, r) /\ r.pc # "idle",
           CallerRequest(s, req[w]) => CallerRequest(s, r),
           req[w].pc \in Appending /\ req[w].save \in DOMAIN saves
              => r.pc \in Appending /\ r.save = req[w].save,
           req[w].pc = "save_state" => sessions[s].save \notin DOMAIN saves
    PROVE  CallerInv(s)'
<1>1. CASE req' = req
  <2>1. EventIds' /\ IdsKnown' /\ SessionLacks(s)'
    BY DEF CallerInv, EventIds, IdsKnown, SessionLacks
  <2>2. SavesLack'
    BY <1>1 DEF CallerInv, SavesLack, InFlight, Turns, EventsOf
  <2>3. OneBusy'
    BY <1>1 DEF CallerInv, OneBusy, Busy, At
  <2>4. ASSUME NEW x \in Workers PROVE CallerRequest(s, req[x])'
    BY <1>1 DEF CallerInv, CallerRequest, FreshEvent, Turns, EventsOf, Exists
  <2>5. ((\A x \in Workers : ~At(x, "save_state")) => Settled(s))'
    BY <1>1 DEF CallerInv, Settled, At
  <2> QED BY <2>1, <2>2, <2>3, <2>4, <2>5 DEF CallerInv
<1>2. CASE \A x \in Workers : x # w => req[x] = Idle
  <2>1. PICK q : q = req[w]
    OBVIOUS
  <2>2. OneRequest(s, q)
    BY <1>2, <2>1, OneRequestBefore
  <2>3. CallerRequest(s, r)
    BY <2>1, <2>2 DEF OneRequest
  <2>4. CallerRequest(s, r)'
    BY <2>3 DEF CallerRequest, FreshEvent, Turns, EventsOf, Exists
  <2>5. Settled(s)'
    BY <2>1, <2>2 DEF OneRequest, Settled
  <2>6. \A i \in DOMAIN saves : Turns(i)' = Turns(i)
    BY DEF Turns, EventsOf
  <2>7. ASSUME NEW i \in DOMAIN saves
        PROVE  Lacks(saves[i].turn, Turns(i),
                     IF r.pc \in Appending /\ r.save = i THEN crashes + 1 ELSE crashes)
    <3>1. Lacks(saves[i].turn, Turns(i),
                IF q.pc \in Appending /\ q.save = i THEN crashes + 1 ELSE crashes)
      BY <2>2 DEF OneRequest
    <3>2. saves[i].turn \in Nat /\ crashes \in Nat
      BY DEF TypeOK, SavesType, Row
    <3>3. IsFiniteSet(Turns(i))
      BY TurnsFinite DEF TypeOK
    <3>4. CASE q.pc \in Appending /\ q.save = i
      BY <2>1, <3>1, <3>4
    <3>5. CASE ~(q.pc \in Appending /\ q.save = i)
      BY <3>1, <3>2, <3>3, <3>5, LacksMore
    <3> QED BY <3>4, <3>5
  <2>8. OneRequest(s, r)'
    BY <2>4, <2>5, <2>6, <2>7 DEF OneRequest
  <2>9. EventIds' /\ IdsKnown' /\ SessionLacks(s)'
    BY DEF CallerInv, EventIds, IdsKnown, SessionLacks
  <2> QED BY <1>2, <2>8, <2>9, OneRequestAfter DEF Finish, Goto
<1> QED BY <1>1, <1>2, OthersIdle DEF CallerInv

\* A request ends and has written nothing.
LEMMA EndStep ==
    ASSUME TypeOK, IsFiniteSet(events), NEW s, CallerInv(s), OneAtATime, NEW w \in Workers,
           NEW end, Finish(w, end),
           UNCHANGED <<saves, events, sessions, used, nextEvent, crashes>>,
           req[w].pc \in Appending => req[w].save \notin DOMAIN saves,
           req[w].pc = "save_state" => sessions[s].save \notin DOMAIN saves
    PROVE  CallerInv(s)'
<1>1. PICK r : r = Idle
  OBVIOUS
<1>2. CallerRequest(s, r)
  BY <1>1 DEF CallerRequest, Idle, Appending
<1> QED BY <1>1, <1>2, ReadStep

\* From one block of a request to the next.
LEMMA GoOnStep ==
    ASSUME TypeOK, IsFiniteSet(events), NEW s, CallerInv(s), OneAtATime, NEW w \in Workers,
           NEW r, Goto(w, r), r.pc # "idle",
           UNCHANGED <<saves, events, sessions, used, nextEvent, crashes>>,
           CallerRequest(s, req[w]) => CallerRequest(s, r),
           req[w].pc \in Appending => r.pc \in Appending /\ r.save = req[w].save,
           req[w].pc # "save_state"
    PROVE  CallerInv(s)'
BY ReadStep

LEMMA LoadStep ==
    ASSUME TypeOK, IsFiniteSet(events), NEW s, CallerInv(s), OneAtATime, NEW w \in Workers,
           (\E i \in DOMAIN saves : LoadState(w, i)) \/ LoadExists(w)
    PROVE  CallerInv(s)'
<1>1. req[w] \in Request
  BY DEF TypeOK
<1>2. CASE \E i \in DOMAIN saves : LoadState(w, i)
  <2>1. PICK i \in DOMAIN saves : LoadState(w, i)
    BY <1>2
  <2>2. PICK r : r = [pc |-> "load_exists", save |-> i, turn |-> saves[i].turn,
                      schema |-> LoadedSchema(saves[i].schema)]
    OBVIOUS
  <2>3. Goto(w, r) /\ UNCHANGED <<saves, events, sessions, used, nextEvent, crashes>>
    BY <2>1, <2>2 DEF LoadState, Exists, tables
  <2>4. CallerRequest(s, r) /\ r.pc = "load_exists" /\ req[w].pc = "idle"
    BY <2>1, <2>2 DEF CallerRequest, Exists, Appending, LoadState, At
  <2> QED BY <2>3, <2>4, GoOnStep DEF Appending
<1>3. CASE LoadExists(w)
  <2>1. req[w] \in LoadReq /\ req[w].pc = "load_exists"
    BY <1>1, <1>3, RequestShape DEF LoadExists, At
  <2>2. CASE Finish(w, "not_found")
    BY <1>3, <2>1, <2>2, EndStep DEF LoadExists, Appending, tables
  <2>3. CASE Exists(req[w].save) /\ Goto(w, [req[w] EXCEPT !.pc = "load_events"])
    <3>1. PICK r : r = [req[w] EXCEPT !.pc = "load_events"]
      OBVIOUS
    <3>2. r.pc = "load_events" /\ r.save = req[w].save /\ r.turn = req[w].turn
      BY <2>1, <3>1 DEF LoadReq
    <3>3. CallerRequest(s, req[w]) => CallerRequest(s, r)
      BY <2>1, <3>2 DEF CallerRequest, Appending
    <3> QED BY <1>3, <2>1, <2>3, <3>1, <3>2, <3>3, GoOnStep DEF LoadExists, Appending, tables
  <2> QED BY <1>3, <2>2, <2>3 DEF LoadExists
<1> QED BY <1>2, <1>3

\* A load ends in a session that has all the events of its save.
LEMMA LoadEventsStep ==
    ASSUME TypeOK, IsFiniteSet(events), NEW only, SessionIds = {only}, CallerInv(only),
           OneAtATime, NEW w \in Workers, LoadEvents(w, only)
    PROVE  CallerInv(only)'
<1>1. PICK q : q = req[w]
  OBVIOUS
<1>2. q \in LoadReq /\ q.pc = "load_events"
  BY <1>1, RequestShape DEF LoadEvents, At, TypeOK
<1>3. PICK log \in Listings(q.save) :
          \/ /\ Ordered(log)
             /\ sessions' = [sessions EXCEPT ![only] =
                     [live |-> TRUE, turn |-> q.turn, schema |-> q.schema, log |-> log,
                      save |-> q.save]]
             /\ Finish(w, "ok")
          \/ Finish(w, "uncaught") /\ UNCHANGED sessions
  BY <1>1 DEF LoadEvents
<1>4. UNCHANGED <<saves, events, used, nextEvent, crashes>>
  BY DEF LoadEvents, tables
<1>5. CASE Finish(w, "uncaught") /\ UNCHANGED sessions
  BY <1>1, <1>2, <1>4, <1>5, EndStep DEF Appending
<1>6. CASE /\ sessions' = [sessions EXCEPT ![only] =
                   [live |-> TRUE, turn |-> q.turn, schema |-> q.schema, log |-> log,
                    save |-> q.save]]
           /\ Finish(w, "ok")
  <2>1. req' # req
    BY <1>1, <1>2, <1>6 DEF Finish, Idle, TypeOK
  <2>2. \A x \in Workers : x # w => req[x] = Idle
    BY <1>6, <2>1, OthersIdle DEF CallerInv
  <2>3. OneRequest(only, q)
    BY <1>1, <2>2, OneRequestBefore
  <2>4. q.save \in DOMAIN saves /\ saves[q.save].turn = q.turn
    BY <1>2, <2>3 DEF OneRequest, CallerRequest, Exists
  <2>5. Lacks(q.turn, Turns(q.save), crashes)
    BY <1>2, <2>3, <2>4 DEF OneRequest, Appending
  <2>6. LogTurns(log) = Turns(q.save) /\ \A k \in 1..Len(log) : log[k].id < nextEvent
    <3>1. events \subseteq EventRow
      BY DEF TypeOK
    <3>2. /\ LogTurns(log) = Turns(q.save)
          /\ \A k \in 1..Len(log) : \E r \in EventsOf(q.save) : log[k] = r.ev
      BY <3>1, ListingTurns
    <3> QED BY <3>2 DEF CallerInv, EventIds, EventsOf
  <2>7. sessions'[only] = [live |-> TRUE, turn |-> q.turn, schema |-> q.schema, log |-> log,
                           save |-> q.save]
    BY <1>6 DEF TypeOK
  <2>8. SessionLacks(only)'
    BY <1>4, <2>4, <2>5, <2>6, <2>7 DEF SessionLacks, CallerInv, IdsKnown
  <2>9. EventIds' /\ IdsKnown'
    BY <1>4 DEF CallerInv, EventIds, IdsKnown
  <2>10. PICK r : r = Idle
    OBVIOUS
  <2>11. CallerRequest(only, r)'
    BY <2>10 DEF CallerRequest, Idle, Appending
  <2>12. Settled(only)'
    BY <1>4, <2>4, <2>7 DEF Settled
  <2>13. \A i : Turns(i)' = Turns(i)
    BY <1>4 DEF Turns, EventsOf
  <2>14. \A i \in DOMAIN saves' : Lacks(saves'[i].turn, Turns(i)', crashes')
    BY <1>2, <1>4, <2>3, <2>13 DEF OneRequest, Appending
  <2>15. OneRequest(only, r)'
    BY <2>10, <2>11, <2>12, <2>14 DEF OneRequest, Idle, Appending
  <2> QED BY <1>6, <2>2, <2>8, <2>9, <2>10, <2>15, OneRequestAfter DEF Finish
<1> QED BY <1>3, <1>5, <1>6

LEMMA StartStep ==
    ASSUME TypeOK, NEW only, SessionIds = {only}, CallerInv(only), StartGame(only)
    PROVE  CallerInv(only)'
<1>1. UNCHANGED <<saves, events, used, nextEvent, crashes, req>>
  BY DEF StartGame, tables
<1>2. /\ sessions'[only].turn = sessions[only].turn /\ sessions'[only].log = sessions[only].log
      /\ sessions'[only].save = sessions[only].save /\ sessions'[only].live
  <2>1. sessions[only] \in Session
    BY DEF TypeOK
  <2> QED BY <2>1 DEF StartGame, TypeOK, Session
<1>3. EventIds' /\ IdsKnown' /\ SessionLacks(only)'
  BY <1>1, <1>2 DEF CallerInv, EventIds, IdsKnown, SessionLacks
<1>4. SavesLack'
  BY <1>1 DEF CallerInv, SavesLack, InFlight, Turns, EventsOf
<1>5. OneBusy'
  BY <1>1 DEF CallerInv, OneBusy, Busy, At
<1>6. ASSUME NEW x \in Workers PROVE CallerRequest(only, req[x])'
  BY <1>1, <1>2 DEF CallerInv, CallerRequest, FreshEvent, Turns, EventsOf, Exists
<1>7. ((\A x \in Workers : ~At(x, "save_state")) => Settled(only))'
  BY <1>1, <1>2 DEF CallerInv, Settled, At
<1> QED BY <1>3, <1>4, <1>5, <1>6, <1>7 DEF CallerInv

\* The process dies: one step more may be lost.
LEMMA CrashStep ==
    ASSUME TypeOK, IsFiniteSet(events), NEW only, SessionIds = {only}, CallerInv(only), Crash
    PROVE  CallerInv(only)'
<1>1. /\ UNCHANGED <<saves, events, used, nextEvent>> /\ crashes' = crashes + 1
      /\ sessions'[only] = NoSession /\ \A w \in Workers : req'[w] = Idle
  BY DEF Crash, tables
<1>2. EventIds' /\ IdsKnown'
  BY <1>1 DEF CallerInv, EventIds, IdsKnown
<1>3. SessionLacks(only)'
  <2>1. LogTurns(<<>>) = {} /\ Cardinality({}) = 0
    BY FS_EmptySet DEF LogTurns
  <2>2. crashes' \in Nat
    BY <1>1 DEF TypeOK
  <2>3. Lacks(0, LogTurns(<<>>), crashes')
    BY <2>1, <2>2 DEF Lacks
  <2> QED BY <1>1, <2>3 DEF SessionLacks, NoSession
<1>4. ASSUME NEW i \in DOMAIN saves PROVE Lacks(saves[i].turn, Turns(i), crashes + 1)
  <2>1. Lacks(saves[i].turn, Turns(i), IF InFlight(i) THEN crashes + 1 ELSE crashes)
    BY DEF CallerInv, SavesLack
  <2>2. saves[i].turn \in Nat /\ crashes \in Nat /\ IsFiniteSet(Turns(i))
    BY TurnsFinite DEF TypeOK, SavesType, Row
  <2> QED BY <2>1, <2>2, LacksMore
<1>5. \A i : ~InFlight(i)'
  BY <1>1 DEF InFlight, Idle, Appending
<1>6. SavesLack'
  BY <1>1, <1>4, <1>5 DEF SavesLack, Turns, EventsOf
<1>7. OneBusy' /\ \A w \in Workers : CallerRequest(only, req[w])'
  BY <1>1 DEF OneBusy, Busy, At, Idle, CallerRequest, Appending
<1>8. Settled(only)'
  BY <1>1 DEF Settled, NoSession, CallerInv, IdsKnown
<1> QED BY <1>2, <1>3, <1>6, <1>7, <1>8 DEF CallerInv

\* The caller keeps its session in a new save: its state and its whole log.
LEMMA CreateStep ==
    ASSUME TypeOK, IsFiniteSet(events), ReferentialIntegrity, NEW only, SessionIds = {only},
           CallerInv(only), OneAtATime, NEW w \in Workers, NEW b \in BaseIds,
           CreateSave(w, only, b)
    PROVE  CallerInv(only)'
<1>1. PICK i, turn, schema, log :
          /\ i = <<b>> /\ turn = sessions[only].turn /\ schema = sessions[only].schema
          /\ log = sessions[only].log
  OBVIOUS
<1>2. /\ Snapshot(w, i, turn, schema, log)
      /\ b \notin used /\ used' = used \cup {b} /\ req[w].pc = "idle"
      /\ sessions' = [sessions EXCEPT ![only].save = i]
      /\ UNCHANGED <<nextEvent, crashes>>
  BY <1>1 DEF CreateSave, At
<1>3. PICK end : Finish(w, end)
  BY <1>2 DEF Snapshot
<1>4. \A x \in Workers : x # w => req[x] = Idle
  BY <1>2, <1>3, OthersIdle DEF CallerInv
<1>5. PICK q : q = req[w]
  OBVIOUS
<1>6. OneRequest(only, q) /\ q.pc = "idle"
  BY <1>2, <1>4, <1>5, OneRequestBefore
<1>7. /\ sessions[only] \in Session
      /\ sessions'[only] = [sessions[only] EXCEPT !.save = i]
  BY <1>2 DEF TypeOK
<1>8. /\ sessions'[only].turn = turn /\ sessions'[only].log = log /\ sessions'[only].save = i
      /\ sessions'[only].live
  BY <1>1, <1>7 DEF Session, CreateSave
<1>9. i # <<>> /\ i[1] = b /\ i \notin DOMAIN saves
  BY <1>1, <1>2 DEF CallerInv, IdsKnown
<1>10. Lacks(turn, LogTurns(log), crashes) /\ \A k \in 1..Len(log) : log[k].id < nextEvent
  BY <1>1 DEF CallerInv, SessionLacks
<1>11. SessionLacks(only)'
  BY <1>2, <1>8, <1>9, <1>10 DEF SessionLacks
<1>12. PICK r : r = Idle
  OBVIOUS
<1>13. CallerRequest(only, r)' /\ r.pc = "idle"
  BY <1>12 DEF CallerRequest, Idle, Appending
<1>14. CASE UNCHANGED tables
  <2>1. EventIds' /\ IdsKnown'
    BY <1>2, <1>14 DEF CallerInv, EventIds, IdsKnown, tables
  <2>2. Settled(only)'
    BY <1>8, <1>9, <1>14 DEF Settled, tables
  <2>3. \A j \in DOMAIN saves' : Lacks(saves'[j].turn, Turns(j)', crashes')
    BY <1>2, <1>6, <1>14 DEF OneRequest, Appending, tables, Turns, EventsOf
  <2>4. OneRequest(only, r)'
    BY <1>13, <2>2, <2>3 DEF OneRequest, Appending
  <2> QED BY <1>3, <1>4, <1>11, <1>12, <2>1, <2>4, OneRequestAfter DEF Finish
<1>15. CASE /\ saves' = Put(i, [turn |-> turn, schema |-> schema,
                                hist |-> IF Exists(i) THEN saves[i].hist ELSE <<>>])
            /\ events' = (events \ EventsOf(i)) \cup
                  {[key |-> RawKey(log[k]), save |-> i, ev |-> log[k], seq |-> k - 1]
                      : k \in 1..Len(log)}
  <2> DEFINE rows == {[key |-> RawKey(log[k]), save |-> i, ev |-> log[k], seq |-> k - 1]
                         : k \in 1..Len(log)}
  <2>1. /\ DOMAIN saves' = DOMAIN saves \cup {i} /\ saves'[i].turn = turn
        /\ \A j \in DOMAIN saves : saves'[j] = saves[j]
    BY <1>9, <1>15 DEF Put
  <2>2. EventsOf(i) = {}
    BY <1>9 DEF EventsOf, ReferentialIntegrity, Exists
  <2>3. events' = events \cup rows
    BY <1>15, <2>2
  <2>4. \A r2 \in rows : \E k \in 1..Len(log) :
            r2.key = RawKey(log[k]) /\ r2.save = i /\ r2.ev = log[k]
    OBVIOUS
  <2>5. \A k \in 1..Len(log) : \E r2 \in rows : r2.ev = log[k] /\ r2.save = i
    <3>1. SUFFICES ASSUME NEW k \in 1..Len(log) PROVE \E r2 \in rows : r2.ev = log[k] /\ r2.save = i
      OBVIOUS
    <3> WITNESS [key |-> RawKey(log[k]), save |-> i, ev |-> log[k], seq |-> k - 1] \in rows
    <3> QED OBVIOUS
  <2> HIDE DEF rows
  <2>6. EventIds'
    BY <1>2, <1>10, <2>3, <2>4 DEF CallerInv, EventIds
  <2>7. IdsKnown'
    BY <1>2, <1>9, <2>1 DEF CallerInv, IdsKnown
  <2>8. Turns(i)' = LogTurns(log)
    <3>1. EventsOf(i)' = rows
      BY <2>2, <2>3, <2>4 DEF EventsOf
    <3>2. \A t \in Turns(i)' : t \in LogTurns(log)
      BY <2>4, <3>1 DEF Turns, LogTurns
    <3>3. \A t \in LogTurns(log) : t \in Turns(i)'
      BY <2>5, <3>1 DEF Turns, LogTurns
    <3> QED BY <3>2, <3>3
  <2>9. \A j \in DOMAIN saves : Turns(j)' = Turns(j)
    BY <1>9, <2>3, <2>4 DEF Turns, EventsOf
  <2>10. \A j \in DOMAIN saves' : Lacks(saves'[j].turn, Turns(j)', crashes')
    BY <1>2, <1>6, <1>10, <2>1, <2>8, <2>9 DEF OneRequest, Appending
  <2>11. Settled(only)'
    BY <1>8, <2>1 DEF Settled
  <2>12. OneRequest(only, r)'
    BY <1>13, <2>10, <2>11 DEF OneRequest, Appending
  <2> QED BY <1>3, <1>4, <1>11, <1>12, <2>6, <2>7, <2>12, OneRequestAfter DEF Finish
<1> QED BY <1>2, <1>14, <1>15 DEF Snapshot

\* A step of the session is on its way to the store.
LEMMA PersistStep ==
    ASSUME TypeOK, IsFiniteSet(events), NEW only, SessionIds = {only}, CallerInv(only),
           OneAtATime, NEW w \in Workers, StepAndPersist(w, only)
    PROVE  CallerInv(only)'
<1>1. PICK q, r, s :
          /\ q = req[w] /\ s = sessions[only]
          /\ r = [pc |-> "save_state", save |-> s.save, turn |-> s.turn + 1,
                  schema |-> s.schema, ev |-> [id |-> nextEvent, turn |-> s.turn + 1]]
  OBVIOUS
<1>2. s \in Session /\ s.turn \in Nat /\ s.log \in Seq(Event) /\ nextEvent \in Nat /\ crashes \in Nat
  BY <1>1 DEF TypeOK, Session
<1>3. PICK e : e = [id |-> nextEvent, turn |-> s.turn + 1]
  OBVIOUS
<1>4. Stepped(only) = [s EXCEPT !.turn = @ + 1, !.log = Append(@, e)]
  BY <1>1, <1>3 DEF Stepped
<1>5. Stepped(only).turn = s.turn + 1
  BY <1>2, <1>4 DEF Session
<1>6. /\ Goto(w, r) /\ r.pc = "save_state" /\ r.save = s.save /\ r.turn = s.turn + 1
      /\ r.ev = e /\ q.pc = "idle" /\ s.live /\ s.save # <<>>
      /\ sessions' = [sessions EXCEPT ![only] = Stepped(only)]
      /\ nextEvent' = nextEvent + 1 /\ UNCHANGED <<saves, events, used, crashes>>
  BY <1>1, <1>3, <1>5 DEF StepAndPersist, CanStep, PersistedTurn, At, tables
<1>7. /\ sessions'[only].turn = s.turn + 1 /\ sessions'[only].log = Append(s.log, e)
      /\ sessions'[only].save = s.save /\ sessions'[only].live
  <2>1. sessions'[only] = [s EXCEPT !.turn = @ + 1, !.log = Append(@, e)]
    BY <1>4, <1>6 DEF TypeOK
  <2>2. PICK n, l : n = s.turn + 1 /\ l = Append(s.log, e)
    OBVIOUS
  <2>3. sessions'[only] = [s EXCEPT !.turn = n, !.log = l]
    BY <2>1, <2>2
  <2> HIDE <2>1, <2>2
  <2>4. /\ sessions'[only].turn = n /\ sessions'[only].log = l
        /\ sessions'[only].save = s.save /\ sessions'[only].live
    BY <1>2, <1>6, <2>3 DEF Session
  <2> QED BY <2>2, <2>4
<1>8. \A x \in Workers : x # w => req[x] = Idle
  <2>1. req' # req
    BY <1>1, <1>6 DEF Goto, TypeOK
  <2> QED BY <1>6, <2>1, OthersIdle DEF CallerInv
<1>9. OneRequest(only, q)
  BY <1>1, <1>8, OneRequestBefore
<1>10. Settled(only)
  BY <1>6, <1>9 DEF OneRequest
<1>11. EventIds' /\ IdsKnown'
  BY <1>2, <1>6 DEF CallerInv, EventIds, IdsKnown, TypeOK, EventRow, Event
<1>12. SessionLacks(only)'
  <2>1. e \in Event /\ e.id = nextEvent /\ e.turn = s.turn + 1
    BY <1>2, <1>3 DEF Event
  <2>2. /\ Len(Append(s.log, e)) = Len(s.log) + 1 /\ Len(s.log) \in Nat
        /\ Append(s.log, e)[Len(s.log) + 1] = e
        /\ \A k \in 1..Len(s.log) : Append(s.log, e)[k] = s.log[k]
    BY <1>2, <2>1
  <2>3. LogTurns(Append(s.log, e)) = LogTurns(s.log) \cup {s.turn + 1}
    <3>1. \A k \in 1..Len(s.log) + 1 : k \in 1..Len(s.log) \/ k = Len(s.log) + 1
      BY <2>2
    <3>2. \A k \in 1..Len(s.log) : k \in 1..Len(s.log) + 1
      BY <2>2
    <3>3. Len(s.log) + 1 \in 1..Len(s.log) + 1
      BY <2>2
    <3> QED BY <2>1, <2>2, <3>1, <3>2, <3>3 DEF LogTurns
  <2>4. Lacks(s.turn, LogTurns(s.log), crashes)
    BY <1>1 DEF CallerInv, SessionLacks
  <2>5. /\ IsFiniteSet(LogTurns(s.log)) /\ LogTurns(s.log) \subseteq Nat
    BY <1>2, LogTurnsFinite
  <2>6. PICK turns, next, n : turns = LogTurns(s.log) /\ next = s.turn + 1 /\ n = crashes
    OBVIOUS
  <2>7. IsFiniteSet(turns) /\ turns \subseteq Nat /\ next \in Nat /\ n \in Nat
    BY <1>2, <2>5, <2>6
  <2>8. Cardinality(turns) \in Nat
    BY <2>7, FS_CardinalityType
  <2>9. (\A t \in turns : t <= s.turn) /\ s.turn - Cardinality(turns) <= n
    BY <2>4, <2>6 DEF Lacks
  <2>10. Lacks(next, turns \cup {next}, n)
    <3>1. \A t \in turns : t < next
      BY <1>2, <2>6, <2>7, <2>9
    <3>2. next - Cardinality(turns) <= n + 1
      BY <1>2, <2>6, <2>7, <2>8, <2>9
    <3> QED BY <2>7, <3>1, <3>2, OneMoreTurn
  <2>11. \A k \in 1..Len(s.log) : s.log[k].id < nextEvent /\ s.log[k].id \in Nat
    <3>1. \A k \in 1..Len(s.log) : s.log[k] \in Event
      BY <1>2
    <3> QED BY <1>1, <3>1 DEF CallerInv, SessionLacks, Event
  <2>12. \A k \in 1..Len(Append(s.log, e)) : Append(s.log, e)[k].id < nextEvent + 1
    <3>1. \A k \in 1..Len(s.log) + 1 : k \in 1..Len(s.log) \/ k = Len(s.log) + 1
      BY <2>2
    <3> QED BY <1>2, <2>1, <2>2, <2>11, <3>1
  <2>13. s.save # <<>> => s.save[1] \in used
    BY <1>1 DEF CallerInv, SessionLacks
  <2>14. PICK l : l = Append(s.log, e)
    OBVIOUS
  <2>15. Lacks(next, LogTurns(l), n)
    BY <2>3, <2>6, <2>10, <2>14
  <2>16. /\ sessions'[only].turn = next /\ sessions'[only].log = l /\ crashes' = n
         /\ sessions'[only].save = s.save /\ sessions'[only].live
    BY <1>6, <1>7, <2>6, <2>14
  <2>17. \A k \in 1..Len(l) : l[k].id < nextEvent'
    BY <1>6, <2>12, <2>14
  <2> QED BY <1>6, <2>13, <2>15, <2>16, <2>17 DEF SessionLacks
<1>13. CallerRequest(only, r)'
  <2>1. FreshEvent(e)'
    BY <1>2, <1>3, <1>6 DEF FreshEvent, CallerInv, EventIds, TypeOK, EventRow, Event
  <2>2. r.save \in DOMAIN saves => saves[r.save].turn + 1 = r.turn
    BY <1>1, <1>6, <1>10 DEF Settled
  <2> QED BY <1>3, <1>6, <1>7, <2>1, <2>2 DEF CallerRequest, Appending
<1>14. OneRequest(only, r)'
  BY <1>6, <1>9, <1>13 DEF OneRequest, Appending, Turns, EventsOf
<1> QED BY <1>6, <1>8, <1>11, <1>12, <1>14, OneRequestAfter DEF Goto

\* The state is written: the row is one turn ahead of the events.
LEMMA SaveStateStep ==
    ASSUME TypeOK, IsFiniteSet(events), NEW s, CallerInv(s), OneAtATime, NEW w \in Workers,
           SaveState(w)
    PROVE  CallerInv(s)'
<1>1. PICK q : q = req[w]
  OBVIOUS
<1>2. q \in SaveStateReq /\ q.pc = "save_state"
  BY <1>1, RequestShape DEF SaveState, At, TypeOK
<1>3. UNCHANGED <<events, sessions, used, nextEvent, crashes>>
  BY DEF SaveState
<1>4. PICK r : r = [pc |-> "append", save |-> q.save, ev |-> q.ev]
  OBVIOUS
<1>5. r.pc = "append" /\ r.save = q.save /\ r.ev = q.ev
  BY <1>4
<1>6. \A x \in Workers : x # w => req[x] = Idle
  <2>1. req' # req
    BY <1>1, <1>2, <1>4, <1>5 DEF SaveState, Finish, Goto, Idle, TypeOK
  <2> QED BY <1>1, <1>4, <1>5, <2>1, OthersIdle DEF SaveState, CallerInv
<1>7. OneRequest(s, q)
  BY <1>1, <1>6, OneRequestBefore
<1>8. CallerRequest(s, q)
  BY <1>7 DEF OneRequest
<1>9. CASE Finish(w, "not_found") /\ ~Exists(q.save) /\ UNCHANGED saves
  BY <1>1, <1>2, <1>3, <1>8, <1>9, EndStep DEF CallerRequest, Exists, Appending
<1>10. CASE /\ Exists(q.save) /\ Goto(w, r)
            /\ saves' = Put(q.save, [turn |-> q.turn, schema |-> q.schema,
                                     hist |-> saves[q.save].hist])
  <2>1. /\ DOMAIN saves' = DOMAIN saves /\ saves'[q.save].turn = q.turn
        /\ \A j \in DOMAIN saves : j # q.save => saves'[j] = saves[j]
    BY <1>10 DEF Put, Exists
  <2>2. EventIds' /\ IdsKnown' /\ SessionLacks(s)'
    BY <1>3, <2>1 DEF CallerInv, EventIds, IdsKnown, SessionLacks
  <2>3. Settled(s)'
    BY <1>2, <1>3, <1>8, <2>1 DEF Settled, CallerRequest
  <2>4. \A j : Turns(j)' = Turns(j)
    BY <1>3 DEF Turns, EventsOf
  <2>5. q.save \in DOMAIN saves /\ saves[q.save].turn + 1 = q.turn
    BY <1>2, <1>8, <1>10 DEF CallerRequest, Exists
  <2>6. Lacks(saves[q.save].turn, Turns(q.save), crashes)
    BY <1>2, <1>7, <2>5 DEF OneRequest, Appending
  <2>7. /\ IsFiniteSet(Turns(q.save)) /\ Turns(q.save) \subseteq Nat
        /\ saves[q.save].turn \in Nat /\ q.turn \in Nat /\ crashes \in Nat
    BY <1>2, <2>5, TurnsFinite DEF TypeOK, SavesType, Row, SaveStateReq
  <2>8. Cardinality(Turns(q.save)) \in Nat
    BY <2>7, FS_CardinalityType
  <2>9. \A t \in Turns(q.save) : t < q.turn
    BY <2>5, <2>6, <2>7 DEF Lacks
  <2>10. Lacks(q.turn, Turns(q.save), crashes + 1)
    <3>1. \A t \in Turns(q.save) : t <= q.turn
      BY <2>7, <2>9
    <3>2. q.turn - Cardinality(Turns(q.save)) <= crashes + 1
      BY <2>5, <2>6, <2>7, <2>8 DEF Lacks
    <3> QED BY <3>1, <3>2 DEF Lacks
  <2>11. FreshEvent(r.ev)' /\ r.ev.turn = q.turn
    BY <1>2, <1>3, <1>5, <1>8 DEF CallerRequest, FreshEvent
  <2>12. CallerRequest(s, r)'
    BY <1>5, <2>1, <2>4, <2>9, <2>11 DEF CallerRequest, Appending
  <2>13. ASSUME NEW j \in DOMAIN saves
         PROVE  Lacks(saves'[j].turn, Turns(j),
                      IF j = q.save THEN crashes + 1 ELSE crashes)
    <3>1. CASE j = q.save
      BY <2>1, <2>10, <3>1
    <3>2. CASE j # q.save
      BY <1>2, <1>7, <2>1, <3>2 DEF OneRequest, Appending
    <3> QED BY <3>1, <3>2
  <2>14. OneRequest(s, r)'
    BY <1>3, <1>5, <2>1, <2>3, <2>4, <2>12, <2>13 DEF OneRequest, Appending
  <2> QED BY <1>6, <1>10, <2>2, <2>14, OneRequestAfter DEF Goto
<1> QED BY <1>1, <1>4, <1>9, <1>10 DEF SaveState

\* The event is written: the save is whole again, as far as it was.
LEMMA InsertStep ==
    ASSUME TypeOK, IsFiniteSet(events), NEW s, CallerInv(s), OneAtATime, NEW w \in Workers,
           AppendInsert(w)
    PROVE  CallerInv(s)'
<1>1. PICK q, e : q = req[w] /\ e = q.ev
  OBVIOUS
<1>2. q \in InsertReq /\ q.pc = "append_insert"
  BY <1>1, RequestShape DEF AppendInsert, At, TypeOK
<1>3. UNCHANGED <<saves, sessions, used, nextEvent, crashes>> /\ \E end : Finish(w, end)
  BY DEF AppendInsert
<1>4. \A x \in Workers : x # w => req[x] = Idle
  <2>1. req' # req
    BY <1>1, <1>2, <1>3 DEF Finish, Idle, TypeOK
  <2> QED BY <1>3, <2>1, OthersIdle DEF CallerInv
<1>5. OneRequest(s, q)
  BY <1>1, <1>4, OneRequestBefore
<1>6. CallerRequest(s, q)
  BY <1>5 DEF OneRequest
<1>7. FreshEvent(e) /\ e \in Event
  BY <1>1, <1>2, <1>6 DEF CallerRequest, Appending, InsertReq
<1>8. RawKey(e) \notin KeysUsed
  <2>1. ASSUME NEW x \in events PROVE x.key # RawKey(e)
    <3>1. x.key = RawKey(x.ev) /\ x.ev.id # e.id
      BY <1>7 DEF FreshEvent, CallerInv, EventIds
    <3>2. x.key.id = x.ev.id /\ RawKey(e).id = e.id
      BY <3>1 DEF RawKey
    <3> QED BY <3>1, <3>2
  <2> QED BY <2>1 DEF KeysUsed
<1>9. CASE ~Exists(q.save)
  <2>1. ~InsertAllowed(q.save, e)
    BY <1>9 DEF InsertAllowed
  <2> QED BY <1>1, <1>2, <1>3, <1>9, <2>1, EndStep DEF AppendInsert, Exists
<1>10. CASE Exists(q.save)
  <2>1. PICK x : x = [key |-> RawKey(e), save |-> q.save, ev |-> e, seq |-> q.seq]
    OBVIOUS
  <2>2. events' = events \cup {x} /\ x.key = RawKey(x.ev) /\ x.save = q.save /\ x.ev = e
    BY <1>1, <1>8, <1>10, <2>1 DEF AppendInsert, InsertAllowed
  <2>3. EventIds' /\ IdsKnown' /\ SessionLacks(s)'
    BY <1>3, <1>7, <2>2 DEF CallerInv, EventIds, IdsKnown, SessionLacks, FreshEvent
  <2>4. /\ Turns(q.save)' = Turns(q.save) \cup {e.turn}
        /\ \A j : j # q.save => Turns(j)' = Turns(j)
    BY <2>2 DEF Turns, EventsOf
  <2>5. saves[q.save].turn = e.turn /\ \A t \in Turns(q.save) : t < e.turn
    BY <1>1, <1>2, <1>6, <1>10 DEF CallerRequest, Appending
  <2>6. Lacks(saves[q.save].turn, Turns(q.save), crashes + 1)
    BY <1>2, <1>5, <1>10 DEF OneRequest, Appending, Exists
  <2>7. Lacks(e.turn, Turns(q.save)', crashes)
    <3>1. PICK turns, next, n : turns = Turns(q.save) /\ next = e.turn /\ n = crashes
      OBVIOUS
    <3>2. next \in Nat /\ n \in Nat /\ IsFiniteSet(turns) /\ turns \subseteq Nat
      BY <1>7, <3>1, TurnsFinite DEF TypeOK, Event
    <3>3. (\A t \in turns : t < next) /\ next - Cardinality(turns) <= n + 1
      BY <2>5, <2>6, <3>1 DEF Lacks
    <3>4. Lacks(next, turns \cup {next}, n)
      BY <3>2, <3>3, OneMoreTurn
    <3> QED BY <2>4, <3>1, <3>4
  <2>8. PICK r : r = Idle
    OBVIOUS
  <2>9. CallerRequest(s, r)' /\ r.pc = "idle"
    BY <2>8 DEF CallerRequest, Idle, Appending
  <2>10. Settled(s)'
    BY <1>2, <1>3, <1>5 DEF OneRequest, Settled
  <2>11. ASSUME NEW j \in DOMAIN saves PROVE Lacks(saves[j].turn, Turns(j)', crashes)
    <3>1. CASE j = q.save
      BY <2>5, <2>7, <3>1
    <3>2. CASE j # q.save
      BY <1>5, <2>4, <3>2 DEF OneRequest
    <3> QED BY <3>1, <3>2
  <2>12. OneRequest(s, r)'
    BY <1>3, <2>9, <2>10, <2>11 DEF OneRequest, Appending
  <2> QED BY <1>3, <1>4, <2>3, <2>8, <2>12, OneRequestAfter DEF Finish
<1> QED BY <1>9, <1>10

\* A save goes with its events.
LEMMA DeleteStep ==
    ASSUME TypeOK, IsFiniteSet(events), NEW s, CallerInv(s), OneAtATime, NEW w \in Workers,
           NEW i \in DOMAIN saves, DeleteSave(w, i)
    PROVE  CallerInv(s)'
<1>1. PICK q : q = req[w]
  OBVIOUS
<1>2. /\ Finish(w, "ok") /\ q.pc = "idle" /\ events' = events \ EventsOf(i)
      /\ saves' = [j \in DOMAIN saves \ {i} |-> saves[j]]
      /\ UNCHANGED <<sessions, used, nextEvent, crashes>>
  BY <1>1 DEF DeleteSave, Exists, At
<1>3. DOMAIN saves' = DOMAIN saves \ {i} /\ \A j \in DOMAIN saves' : saves'[j] = saves[j]
  BY <1>2
<1>4. \A x \in Workers : x # w => req[x] = Idle
  <2>1. saves' # saves
    BY <1>3
  <2> QED BY <1>2, <2>1, OthersIdle DEF CallerInv, tables
<1>5. OneRequest(s, q)
  BY <1>1, <1>4, OneRequestBefore
<1>6. EventIds' /\ IdsKnown' /\ SessionLacks(s)'
  BY <1>2, <1>3 DEF CallerInv, EventIds, IdsKnown, SessionLacks
<1>7. \A j \in DOMAIN saves' : Turns(j)' = Turns(j)
  BY <1>2, <1>3 DEF Turns, EventsOf
<1>8. PICK r : r = Idle
  OBVIOUS
<1>9. CallerRequest(s, r)' /\ r.pc = "idle"
  BY <1>8 DEF CallerRequest, Idle, Appending
<1>10. Settled(s)'
  BY <1>2, <1>3, <1>5 DEF OneRequest, Settled
<1>11. ASSUME NEW j \in DOMAIN saves' PROVE Lacks(saves'[j].turn, Turns(j)', crashes)
  BY <1>2, <1>3, <1>5, <1>7 DEF OneRequest, Appending
<1>12. OneRequest(s, r)'
  BY <1>2, <1>9, <1>10, <1>11 DEF OneRequest, Appending
<1> QED BY <1>2, <1>4, <1>6, <1>8, <1>12, OneRequestAfter DEF Finish

LEMMA CallerStep ==
    ASSUME TypeOK, IsFiniteSet(events), ReferentialIntegrity, NEW only, SessionIds = {only},
           CallerInv(only), CallerNext, OneAtATime
    PROVE  CallerInv(only)'
<1>1. CASE SessionNext
  <2>1. CASE Crash
    BY <2>1, CrashStep
  <2>2. CASE \E s \in SessionIds : StartGame(s)
    BY <2>2, StartStep
  <2>3. ASSUME NEW w \in Workers, NEW s \in SessionIds, LoadEvents(w, s) PROVE CallerInv(only)'
    <3>1. s = only
      OBVIOUS
    <3> QED BY <2>3, <3>1, LoadEventsStep
  <2> QED BY <1>1, <2>1, <2>2, <2>3, LoadStep DEF SessionNext
<1>2. CASE DeleteNext
  BY <1>2, DeleteStep DEF DeleteNext
<1>3. CASE ServiceNext
  <2>1. PICK w \in Workers :
            \/ \E s \in SessionIds, b \in BaseIds : CreateSave(w, s, b)
            \/ \E s \in SessionIds : StepAndPersist(w, s)
            \/ SaveState(w) \/ AppendExists(w) \/ AppendSeq(w) \/ AppendInsert(w)
            \/ \E i, ms, replace : MemoryExists(w, i, ms, replace)
            \/ MemoryWrite(w)
    BY <1>3 DEF ServiceNext
  <2>2. req[w] \in Request
    BY DEF TypeOK
  <2>3. CASE \E s \in SessionIds, b \in BaseIds : CreateSave(w, s, b)
    BY <2>3, CreateStep
  <2>4. CASE \E s \in SessionIds : StepAndPersist(w, s)
    BY <2>4, PersistStep
  <2>5. CASE SaveState(w)
    BY <2>5, SaveStateStep
  <2>6. CASE AppendExists(w)
    <3>1. req[w] \in AppendReq /\ req[w].pc = "append"
      BY <2>2, <2>6, RequestShape DEF AppendExists, At
    <3>2. UNCHANGED <<saves, events, sessions, used, nextEvent, crashes>>
      BY <2>6 DEF AppendExists, tables
    <3>3. CASE ~Exists(req[w].save) /\ Finish(w, "not_found")
      BY <3>1, <3>2, <3>3, EndStep DEF Exists
    <3>4. CASE Goto(w, [req[w] EXCEPT !.pc = "append_seq"])
      <4>1. PICK r : r = [req[w] EXCEPT !.pc = "append_seq"]
        OBVIOUS
      <4>2. r.pc = "append_seq" /\ r.save = req[w].save /\ r.ev = req[w].ev
        BY <3>1, <4>1 DEF AppendReq
      <4>3. CallerRequest(only, req[w]) => CallerRequest(only, r)
        BY <3>1, <4>2 DEF CallerRequest, Appending
      <4> QED BY <3>1, <3>2, <3>4, <4>1, <4>2, <4>3, GoOnStep DEF Appending
    <3> QED BY <2>6, <3>3, <3>4 DEF AppendExists
  <2>7. CASE AppendSeq(w)
    <3>1. req[w].pc = "append_seq"
      BY <2>7 DEF AppendSeq, At
    <3>2. PICK r : r = [pc |-> "append_insert", save |-> req[w].save, ev |-> req[w].ev,
                        seq |-> NextSeq(req[w].save)]
      OBVIOUS
    <3>3. r.pc = "append_insert" /\ r.save = req[w].save /\ r.ev = req[w].ev
      BY <3>2
    <3>4. Goto(w, r) /\ UNCHANGED <<saves, events, sessions, used, nextEvent, crashes>>
      BY <2>7, <3>2 DEF AppendSeq, tables
    <3>5. CallerRequest(only, req[w]) => CallerRequest(only, r)
      BY <3>1, <3>3 DEF CallerRequest, Appending
    <3> QED BY <3>1, <3>3, <3>4, <3>5, GoOnStep DEF Appending
  <2>8. CASE AppendInsert(w)
    BY <2>8, InsertStep
  <2>9. CASE \E i, ms, replace : MemoryExists(w, i, ms, replace)
    <3>1. PICK i, ms, replace : MemoryExists(w, i, ms, replace)
      BY <2>9
    <3>2. /\ req[w].pc = "idle"
          /\ UNCHANGED <<saves, events, sessions, used, nextEvent, crashes>>
      BY <3>1 DEF MemoryExists, At, tables
    <3>3. CASE Finish(w, "not_found")
      BY <3>2, <3>3, EndStep DEF Appending
    <3>4. CASE Goto(w, [pc |-> "memory", save |-> i, ids |-> ms, replace |-> replace])
      <4>1. PICK r : r = [pc |-> "memory", save |-> i, ids |-> ms, replace |-> replace]
        OBVIOUS
      <4>2. r.pc = "memory"
        BY <4>1
      <4>3. CallerRequest(only, r)
        BY <4>2 DEF CallerRequest, Appending
      <4> QED BY <3>2, <3>4, <4>1, <4>2, <4>3, GoOnStep DEF Appending
    <3> QED BY <3>1, <3>3, <3>4 DEF MemoryExists
  <2>10. CASE MemoryWrite(w)
    <3>1. /\ req[w].pc = "memory" /\ \E end : Finish(w, end)
          /\ UNCHANGED <<saves, events, sessions, used, nextEvent, crashes>>
      BY <2>10 DEF MemoryWrite, At
    <3> QED BY <3>1, EndStep DEF Appending
  <2> QED BY <2>1, <2>3, <2>4, <2>5, <2>6, <2>7, <2>8, <2>9, <2>10
<1> QED BY <1>1, <1>2, <1>3 DEF CallerNext

\* The database the caller starts on lacks no event.
LEMMA CallerStart ==
    ASSUME NEW only, SessionIds = {only}, Init,
           \A i \in DOMAIN saves : /\ \A t \in Turns(i) : t <= saves[i].turn
                                   /\ saves[i].turn = Cardinality(Turns(i))
    PROVE  CallerInv(only)
<1>1. TypeOK /\ IsFiniteSet(events)
  BY InitTypes
<1>2. EventIds
  <2>1. Cardinality(OldEvents) \in Nat
    BY OldDataAssumption, FS_CardinalityType
  <2> QED BY <2>1, OldDataAssumption DEF Init, EventIds, EventRow, Event
<1>3. IdsKnown
  <2>1. ASSUME NEW i \in DOMAIN saves PROVE i # <<>> /\ i[1] \in used
    <3>1. i \in Seq(Nat) /\ Len(i) = 1
      BY OldDataAssumption DEF Init
    <3>2. i # <<>>
      <4>1. Len(<<>>) = 0 /\ 0 # 1
        OBVIOUS
      <4> QED BY <3>1, <4>1, Zenon
    <3>3. i[1] \in {j[1] : j \in DOMAIN saves} /\ used = {j[1] : j \in DOMAIN saves}
      BY DEF Init
    <3> QED BY <3>2, <3>3
  <2> QED BY <2>1 DEF IdsKnown
<1>4. \A w \in Workers : req[w] = Idle
  BY DEF Init
<1>5. SavesLack
  <2>1. ASSUME NEW i \in DOMAIN saves PROVE Lacks(saves[i].turn, Turns(i), crashes)
    <3>1. saves[i].turn \in Nat /\ crashes = 0
      BY <1>1 DEF TypeOK, SavesType, Row, Init
    <3>2. saves[i].turn - Cardinality(Turns(i)) <= crashes
      BY <3>1
    <3> QED BY <3>2 DEF Lacks
  <2>2. \A i : ~InFlight(i)
    BY <1>4 DEF InFlight, Idle, Appending
  <2> QED BY <2>1, <2>2 DEF SavesLack
<1>6. SessionLacks(only)
  <2>1. LogTurns(<<>>) = {} /\ Cardinality({}) = 0
    BY FS_EmptySet DEF LogTurns
  <2>2. Lacks(0, LogTurns(<<>>), 0)
    <3>1. Lacks(0, {}, 0)
      BY <2>1 DEF Lacks
    <3> QED BY <2>1, <3>1
  <2>3. sessions[only] = NoSession /\ crashes = 0
    BY DEF Init
  <2> QED BY <2>2, <2>3 DEF SessionLacks, NoSession
<1>7. OneBusy /\ \A w \in Workers : CallerRequest(only, req[w])
  BY <1>4 DEF OneBusy, Busy, At, Idle, CallerRequest, Appending
<1>8. Settled(only)
  BY <1>3 DEF Init, Settled, NoSession, IdsKnown
<1> QED BY <1>2, <1>3, <1>5, <1>6, <1>7, <1>8 DEF CallerInv

\* The state of a step is written before its events, so that stored events
\* never run ahead of the stored state, and what a crash loses between the two
\* is one step: for every number of turns, crashes, saves and workers, with one
\* session and one request at a time (save_service.py persist_step).
THEOREM EventsStayCovered ==
    ASSUME NEW only, SessionIds = {only}
    PROVE  CallerSpec => []StoredEventsCovered
<1> DEFINE IInv == TypeOK /\ IsFiniteSet(events) /\ ReferentialIntegrity /\ CallerInv(only)
<1>1. Init /\ (\A i \in DOMAIN saves : /\ \A t \in Turns(i) : t <= saves[i].turn
                                       /\ saves[i].turn = Cardinality(Turns(i))) => IInv
  <2>1. Init => ReferentialIntegrity
    BY OldDataAssumption DEF Init, ReferentialIntegrity, Exists
  <2> QED BY <2>1, InitTypes, CallerStart
<1>2. IInv /\ [CallerNext /\ OneAtATime]_vars => IInv'
  <2>1. [CallerNext /\ OneAtATime]_vars => [Next]_vars
    BY DEF CallerNext, Next
  <2>2. ASSUME CallerInv(only), UNCHANGED vars PROVE CallerInv(only)'
    <3>1. EventIds' /\ IdsKnown' /\ SessionLacks(only)'
      BY <2>2 DEF vars, tables, CallerInv, EventIds, IdsKnown, SessionLacks
    <3>2. SavesLack'
      BY <2>2 DEF vars, tables, CallerInv, SavesLack, InFlight, Turns, EventsOf
    <3>3. OneBusy'
      BY <2>2 DEF vars, CallerInv, OneBusy, Busy, At
    <3>4. ASSUME NEW x \in Workers PROVE CallerRequest(only, req[x])'
      BY <2>2 DEF vars, tables, CallerInv, CallerRequest, FreshEvent, Turns, EventsOf, Exists
    <3>5. ((\A x \in Workers : ~At(x, "save_state")) => Settled(only))'
      BY <2>2 DEF vars, tables, CallerInv, Settled, At
    <3> QED BY <3>1, <3>2, <3>3, <3>4, <3>5 DEF CallerInv
  <2> QED BY <2>1, <2>2, NextKeepsTypes, NextKeepsReferences, CallerStep
<1>3. IInv => StoredEventsCovered
  <2>1. ASSUME IInv, NEW i \in DOMAIN saves
        PROVE  /\ \A t \in Turns(i) : t <= saves[i].turn
               /\ saves[i].turn - Cardinality(Turns(i)) <= crashes + 1
    <3>1. Lacks(saves[i].turn, Turns(i), IF InFlight(i) THEN crashes + 1 ELSE crashes)
      BY <2>1 DEF CallerInv, SavesLack
    <3>2. saves[i].turn \in Nat /\ crashes \in Nat /\ IsFiniteSet(Turns(i))
      BY <2>1, TurnsFinite DEF TypeOK, SavesType, Row
    <3>3. Lacks(saves[i].turn, Turns(i), crashes + 1)
      BY <3>1, <3>2, LacksMore
    <3> QED BY <3>3 DEF Lacks
  <2> QED BY <2>1 DEF StoredEventsCovered
<1> HIDE DEF IInv
<1> QED BY <1>1, <1>2, <1>3, PTL DEF CallerSpec

-----------------------------------------------------------------------------
(***************************************************************************)
(* Backups.  The saves of one base id are one save and its backups, with    *)
(* the same events and memories.  The row a migration may change is the one *)
(* row of an older version among them, and one of these saves always holds  *)
(* that row and is out of reach: no request is about to migrate or restore  *)
(* it, and no failure is recorded for it, so that no restore will.          *)
(***************************************************************************)

Original(i) == OldSaves[<<i[1]>>]
OldRowOnly(i, row) == row.schema # Current => row = Original(i)
Memos(i) == {m.id : m \in {x \in memories : x.save = i}}

Reached(i) ==
    \/ \E w \in Workers :
          req[w].pc \in {"migrate", "record", "restore", "restore_write"} /\ req[w].save = i
    \/ FailuresOf(i) # {}

SavesKept ==
    \A i \in DOMAIN saves :
        /\ i # <<>> /\ i[Len(i)] # -2 /\ <<i[1]>> \in DOMAIN OldSaves
        /\ OldRowOnly(i, saves[i])
SameTold ==
    \A i, j \in DOMAIN saves : i[1] = j[1] => Told(i) = Told(j) /\ Memos(i) = Memos(j)
FailuresKept ==
    \A k \in DOMAIN failures :
        /\ failures[k].save \in DOMAIN saves
        /\ failures[k].backup # <<>> /\ failures[k].backup[1] = failures[k].save[1]
KeeperRequest(r) ==
    /\ r.pc \in {"idle", "backup", "migrate", "record", "restore", "restore_write"}
    /\ r.pc # "idle" => r.save \in DOMAIN saves
    /\ r.pc \in {"backup", "migrate", "record", "restore"} =>
          r.backup # <<>> /\ r.backup[1] = r.save[1]
    /\ r.pc = "restore_write" => OldRowOnly(r.save, r.row)
OneOutOfReach ==
    \A i \in DOMAIN saves :
        Original(i).schema # Current =>
            \E j \in DOMAIN saves : j[1] = i[1] /\ saves[j] = Original(i) /\ ~Reached(j)

KeeperInv ==
    /\ SavesKept /\ SameTold /\ FailuresKept /\ OneOutOfReach
    /\ \A w \in Workers : KeeperRequest(req[w])

\* A step of one worker that writes no save that is out of reach and reaches for
\* none that holds a row to be migrated.
LEMMA KeepStep ==
    ASSUME TypeOK, KeeperInv, NEW w \in Workers, NEW r, req' = [req EXCEPT ![w] = r],
           KeeperRequest(r), DOMAIN saves' = DOMAIN saves,
           SavesKept', SameTold', FailuresKept',
           \A j \in DOMAIN saves : ~Reached(j) =>
               saves'[j] = saves[j] /\ FailuresOf(j)' = FailuresOf(j),
           r.pc \in {"migrate", "record", "restore", "restore_write"} =>
               Reached(r.save) \/ saves[r.save].schema = Current
    PROVE  KeeperInv'
<1>1. \A x \in Workers : req'[x] = IF x = w THEN r ELSE req[x]
  BY DEF TypeOK
<1>2. ASSUME NEW x \in Workers PROVE KeeperRequest(req[x])'
  <2>1. PICK q : q = req'[x]
    OBVIOUS
  <2>2. KeeperRequest(q)
    BY <1>1, <2>1 DEF KeeperInv
  <2>3. KeeperRequest(q)'
    BY <2>2 DEF KeeperRequest, OldRowOnly, Original
  <2> QED BY <2>1, <2>3
<1>3. ASSUME NEW i \in DOMAIN saves', Original(i).schema # Current
      PROVE  \E j \in DOMAIN saves' : j[1] = i[1] /\ saves'[j] = Original(i) /\ ~Reached(j)'
  <2>1. PICK j \in DOMAIN saves : j[1] = i[1] /\ saves[j] = Original(i) /\ ~Reached(j)
    BY <1>3 DEF KeeperInv, OneOutOfReach
  <2>2. saves'[j] = Original(i) /\ FailuresOf(j)' = {} /\ FailuresOf(j) = {}
    BY <2>1 DEF Reached
  <2>3. ~(r.pc \in {"migrate", "record", "restore", "restore_write"} /\ r.save = j)
    BY <1>3, <2>1
  <2>4. ~Reached(j)'
    BY <1>1, <2>1, <2>2, <2>3 DEF Reached
  <2> QED BY <2>1, <2>2, <2>4
<1>4. OneOutOfReach'
  BY <1>3 DEF OneOutOfReach, Original
<1> QED BY <1>2, <1>4 DEF KeeperInv

\* Such a step that leaves the tables as they are.
LEMMA KeepReadStep ==
    ASSUME TypeOK, KeeperInv, NEW w \in Workers, NEW r, req' = [req EXCEPT ![w] = r],
           KeeperRequest(r), UNCHANGED tables,
           r.pc \in {"migrate", "record", "restore", "restore_write"} =>
               Reached(r.save) \/ saves[r.save].schema = Current
    PROVE  KeeperInv'
<1>1. SavesKept' /\ SameTold' /\ FailuresKept'
  BY DEF KeeperInv, tables, SavesKept, SameTold, FailuresKept, OldRowOnly, Original, Told, EventsOf,
         Memos
<1>2. \A j \in DOMAIN saves : saves'[j] = saves[j] /\ FailuresOf(j)' = FailuresOf(j)
  BY DEF tables, FailuresOf
<1>3. DOMAIN saves' = DOMAIN saves
  BY DEF tables
<1> QED BY <1>1, <1>2, <1>3, KeepStep

LEMMA KeepEndStep ==
    ASSUME TypeOK, KeeperInv, NEW w \in Workers, NEW end, Finish(w, end), UNCHANGED tables
    PROVE  KeeperInv'
<1>1. PICK r : r = Idle
  OBVIOUS
<1>2. KeeperRequest(r) /\ r.pc = "idle"
  BY <1>1 DEF KeeperRequest, Idle
<1> QED BY <1>1, <1>2, KeepReadStep DEF Finish

\* A save that somebody reached for is given another row.
LEMMA KeepRowStep ==
    ASSUME TypeOK, KeeperInv, NEW w \in Workers, NEW end, Finish(w, end),
           NEW i \in DOMAIN saves, Reached(i), NEW row, OldRowOnly(i, row),
           saves' = [saves EXCEPT ![i] = row], UNCHANGED <<events, memories, failures>>
    PROVE  KeeperInv'
<1>1. PICK r : r = Idle
  OBVIOUS
<1>2. KeeperRequest(r) /\ r.pc = "idle"
  BY <1>1 DEF KeeperRequest, Idle
<1>3. DOMAIN saves' = DOMAIN saves /\ \A j \in DOMAIN saves : saves'[j] = IF j = i THEN row ELSE saves[j]
  OBVIOUS
<1>4. SavesKept'
  BY <1>3 DEF KeeperInv, SavesKept, OldRowOnly, Original
<1>5. SameTold' /\ FailuresKept'
  <2>1. \A j : Told(j)' = Told(j) /\ Memos(j)' = Memos(j)
    BY DEF Told, EventsOf, Memos
  <2>2. SameTold'
    BY <1>3, <2>1 DEF KeeperInv, SameTold
  <2>3. FailuresKept'
    BY <1>3 DEF KeeperInv, FailuresKept
  <2> QED BY <2>2, <2>3
<1>6. \A j \in DOMAIN saves : ~Reached(j) =>
          saves'[j] = saves[j] /\ FailuresOf(j)' = FailuresOf(j)
  BY <1>3 DEF FailuresOf
<1> QED BY <1>1, <1>2, <1>3, <1>4, <1>5, <1>6, KeepStep DEF Finish

\* Its memories likewise.
LEMMA CopyMemos ==
    ASSUME ReferentialIntegrity, NEW i \in DOMAIN saves, NEW b, b \notin DOMAIN saves,
           memories' = memories \cup
               {[save |-> b, id |-> m.id] : m \in {x \in memories : x.save = i}}
    PROVE  Memos(b)' = Memos(i) /\ \A j : j # b => Memos(j)' = Memos(j)
<1> DEFINE copies == {[save |-> b, id |-> m.id] : m \in {x \in memories : x.save = i}}
<1>1. \A m \in memories : m.save # b
  BY DEF ReferentialIntegrity, Exists
<1>2. \A c \in copies : c.save = b /\ \E m \in memories : m.save = i /\ c.id = m.id
  OBVIOUS
<1>3. ASSUME NEW m \in memories, m.save = i PROVE \E c \in copies : c.save = b /\ c.id = m.id
  <2>1. [save |-> b, id |-> m.id] \in copies
    BY <1>3
  <2> QED BY <2>1
<1>4. memories' = memories \cup copies
  OBVIOUS
<1> HIDE DEF copies
<1>5. ASSUME NEW j, j # b PROVE Memos(j)' = Memos(j)
  <2>1. \A m : (m \in memories' /\ m.save = j) <=> (m \in memories /\ m.save = j)
    BY <1>2, <1>4, <1>5
  <2> QED BY <2>1 DEF Memos
<1>6. \A n \in Memos(b)' : n \in Memos(i)
  BY <1>1, <1>2, <1>4 DEF Memos
<1>7. \A n \in Memos(i) : n \in Memos(b)'
  BY <1>3, <1>4 DEF Memos
<1>8. Memos(b)' = Memos(i)
  BY <1>6, <1>7
<1> QED BY <1>5, <1>8

\* The id of a backup.
LEMMA BackupName ==
    ASSUME TypeOK, IsFiniteSet(events), NEW i \in SaveIds, i # <<>>, NEW b,
           b = IF Exists(BackupId(i)) THEN Append(BackupId(i), NextSeq(i)) ELSE BackupId(i)
    PROVE  b # <<>> /\ b[1] = i[1] /\ b[Len(b)] # -2
<1>1. i \in Seq(Int) /\ Len(i) >= 1
  BY DEF SaveIds
<1>2. PICK n : n = NextSeq(i)
  OBVIOUS
<1>3. n \in Nat
  BY <1>2, NextSeqType DEF TypeOK
<1>4. ASSUME NEW s \in Seq(Int), Len(s) >= 1, NEW m \in Int, m # -2
      PROVE  /\ Append(s, m) \in Seq(Int) /\ Len(Append(s, m)) >= 1 /\ Append(s, m) # <<>>
             /\ Append(s, m)[1] = s[1] /\ Append(s, m)[Len(Append(s, m))] # -2
  BY <1>4
<1>5. n \in Int /\ n # -2 /\ -1 \in Int /\ -1 # -2
  BY <1>3
<1>6. PICK c : c = Append(i, -1)
  OBVIOUS
<1>7. c \in Seq(Int) /\ Len(c) >= 1 /\ c # <<>> /\ c[1] = i[1] /\ c[Len(c)] # -2
  BY <1>1, <1>4, <1>5, <1>6
<1>8. b = c \/ b = Append(c, n)
  BY <1>2, <1>6 DEF BackupId
<1> QED BY <1>4, <1>5, <1>7, <1>8

\* A backup under way: the new save is out of everybody's reach, and the one it
\* was taken of may now be migrated.
LEMMA KeepBackupStep ==
    ASSUME TypeOK, IsFiniteSet(events), ReferentialIntegrity, KeeperInv, NEW w \in Workers,
           MigrateBackup(w)
    PROVE  KeeperInv'
<1>1. PICK q, i, b :
          /\ q = req[w] /\ i = q.save
          /\ b = IF Exists(BackupId(i)) THEN Append(BackupId(i), NextSeq(i)) ELSE BackupId(i)
  OBVIOUS
<1>2. /\ \/ Finish(w, "uncaught") /\ UNCHANGED tables
         \/ /\ ~(Exists(b) /\ Exists(i))
            /\ Goto(w, [q EXCEPT !.pc = "migrate", !.backup = b])
            /\ saves' = IF Exists(i) THEN Put(b, saves[i]) ELSE saves
            /\ events' = events \cup BackupEvents(b, i)
            /\ memories' = memories \cup
                  {[save |-> b, id |-> m.id] : m \in {x \in memories : x.save = i}}
            /\ failures' = failures
      /\ At(w, "backup")
  BY <1>1 DEF MigrateBackup
<1>3. q \in KeepReq /\ q.pc = "backup" /\ KeeperRequest(q)
  BY <1>1, <1>2, RequestShape DEF At, TypeOK, KeeperInv
<1>4. i \in DOMAIN saves
  BY <1>1, <1>3 DEF KeeperRequest
<1>5. i \in SaveIds /\ i # <<>>
  BY <1>4 DEF TypeOK, SavesType, KeeperInv, SavesKept
<1>6. b # <<>> /\ b[1] = i[1] /\ b[Len(b)] # -2
  BY <1>1, <1>5, BackupName
<1>7. CASE Finish(w, "uncaught") /\ UNCHANGED tables
  BY <1>7, KeepEndStep
<1>8. CASE /\ b \notin DOMAIN saves
           /\ Goto(w, [q EXCEPT !.pc = "migrate", !.backup = b])
           /\ saves' = Put(b, saves[i]) /\ events' = events \cup BackupEvents(b, i)
           /\ memories' = memories \cup
                 {[save |-> b, id |-> m.id] : m \in {x \in memories : x.save = i}}
           /\ failures' = failures
  <2>1. PICK r : r = [q EXCEPT !.pc = "migrate", !.backup = b]
    OBVIOUS
  <2>2. r.pc = "migrate" /\ r.save = i /\ r.backup = b
    BY <1>1, <1>3, <2>1 DEF KeepReq
  <2>3. \A x \in Workers : req'[x] = IF x = w THEN r ELSE req[x]
    BY <1>8, <2>1 DEF Goto, TypeOK
  <2>4. /\ DOMAIN saves' = DOMAIN saves \cup {b} /\ saves'[b] = saves[i]
        /\ \A j \in DOMAIN saves : saves'[j] = saves[j] /\ j # b
    BY <1>8 DEF Put
  <2>5. Original(b) = Original(i)
    BY <1>6 DEF Original
  <2>6. SavesKept'
    <3>1. ASSUME NEW j \in DOMAIN saves'
          PROVE  /\ j # <<>> /\ j[Len(j)] # -2 /\ <<j[1]>> \in DOMAIN OldSaves
                 /\ OldRowOnly(j, saves'[j])
      <4>1. CASE j = b
        BY <1>4, <1>6, <2>4, <2>5, <4>1 DEF KeeperInv, SavesKept, OldRowOnly
      <4>2. CASE j # b
        BY <2>4, <4>2 DEF KeeperInv, SavesKept
      <4> QED BY <4>1, <4>2
    <3> QED BY <3>1 DEF SavesKept, OldRowOnly, Original
  <2>7. SameTold'
    <3>1. Told(b)' = Told(i) /\ \A j : j # b => Told(j)' = Told(j)
      BY <1>4, <1>8, CopyTold
    <3>2. Memos(b)' = Memos(i) /\ \A j : j # b => Memos(j)' = Memos(j)
      BY <1>4, <1>8, CopyMemos
    <3>3. \A j \in DOMAIN saves : j[1] = i[1] => Told(j) = Told(i) /\ Memos(j) = Memos(i)
      BY <1>4 DEF KeeperInv, SameTold
    <3>4. ASSUME NEW j \in DOMAIN saves', NEW k \in DOMAIN saves', j[1] = k[1]
          PROVE  Told(j)' = Told(k)' /\ Memos(j)' = Memos(k)'
      <4>1. CASE j = b /\ k = b
        BY <4>1
      <4>2. CASE j = b /\ k # b
        BY <1>6, <2>4, <3>1, <3>2, <3>3, <3>4, <4>2
      <4>3. CASE j # b /\ k = b
        BY <1>6, <2>4, <3>1, <3>2, <3>3, <3>4, <4>3
      <4>4. CASE j # b /\ k # b
        <5>1. Told(j) = Told(k) /\ Memos(j) = Memos(k)
          BY <2>4, <3>4, <4>4 DEF KeeperInv, SameTold
        <5> QED BY <3>1, <3>2, <4>4, <5>1
      <4> QED BY <4>1, <4>2, <4>3, <4>4
    <3> QED BY <3>4 DEF SameTold
  <2>8. FailuresKept'
    BY <1>8, <2>4 DEF KeeperInv, FailuresKept
  <2>9. ASSUME NEW x \in Workers PROVE KeeperRequest(req[x])'
    <3>1. PICK p : p = req'[x]
      OBVIOUS
    <3>2. KeeperRequest(p)'
      <4>1. CASE x = w
        BY <1>4, <1>6, <2>2, <2>3, <2>4, <3>1, <4>1 DEF KeeperRequest
      <4>2. CASE x # w
        <5>1. KeeperRequest(p)
          BY <2>3, <3>1, <4>2 DEF KeeperInv
        <5> QED BY <2>4, <5>1 DEF KeeperRequest, OldRowOnly, Original
      <4> QED BY <4>1, <4>2
    <3> QED BY <3>1, <3>2
  <2>10. ~Reached(b)'
    <3>1. \A x \in Workers : req[x].pc # "idle" => req[x].save \in DOMAIN saves
      BY DEF KeeperInv, KeeperRequest
    <3>2. \A x \in Workers : req[x].pc # "idle" => req[x].save # b
      BY <1>8, <3>1
    <3>3. FailuresOf(b)' = {}
      BY <1>8 DEF FailuresOf, KeeperInv, FailuresKept
    <3>4. ~(req'[w].save = b)
      BY <1>4, <1>8, <2>2, <2>3
    <3> QED BY <2>3, <3>2, <3>3, <3>4 DEF Reached
  <2>11. ASSUME NEW j \in DOMAIN saves, j # i, ~Reached(j) PROVE ~Reached(j)'
    BY <1>8, <2>2, <2>3, <2>11 DEF Reached, FailuresOf
  <2>12. ASSUME NEW k \in DOMAIN saves', Original(k).schema # Current
         PROVE  \E j \in DOMAIN saves' : j[1] = k[1] /\ saves'[j] = Original(k) /\ ~Reached(j)'
    <3>1. PICK l \in DOMAIN saves : l[1] = k[1]
      BY <1>4, <1>6, <2>4
    <3>2. Original(l) = Original(k)
      BY <3>1 DEF Original
    <3>3. PICK j \in DOMAIN saves : j[1] = l[1] /\ saves[j] = Original(l) /\ ~Reached(j)
      BY <2>12, <3>2 DEF KeeperInv, OneOutOfReach
    <3>4. CASE j = i
      BY <1>6, <2>4, <2>10, <3>1, <3>2, <3>3, <3>4
    <3>5. CASE j # i
      BY <2>4, <2>11, <3>1, <3>2, <3>3, <3>5
    <3> QED BY <3>4, <3>5
  <2>13. OneOutOfReach'
    BY <2>12 DEF OneOutOfReach, Original
  <2> QED BY <2>6, <2>7, <2>8, <2>9, <2>13 DEF KeeperInv
<1> QED BY <1>2, <1>4, <1>7, <1>8 DEF Exists

\* What a restore is planned from.
LEMMA KeepPlanned ==
    ASSUME TypeOK, KeeperInv, NEW i \in DOMAIN saves, CanRestore(i)
    PROVE  Reached(i) /\ PlannedBackup(i) # <<>> /\ PlannedBackup(i)[1] = i[1]
<1>1. i # <<>> /\ i \in SaveIds
  BY DEF KeeperInv, SavesKept, TypeOK, SavesType
<1>2. FailuresOf(i) # {}
  <2>1. SUFFICES ASSUME FailuresOf(i) = {} PROVE FALSE
    OBVIOUS
  <2>2. PICK p : p = PreMigrationBackupId(i)
    OBVIOUS
  <2>3. p \in DOMAIN saves
    BY <2>1, <2>2 DEF CanRestore, PlannedBackup, Exists
  <2>4. p[Len(p)] = -2
    <3>1. i \in Seq(Int)
      BY <1>1 DEF SaveIds
    <3>2. ASSUME NEW s \in Seq(Int), NEW m \in Int PROVE Append(s, m)[Len(Append(s, m))] = m
      OBVIOUS
    <3> QED BY <2>2, <3>1, <3>2 DEF PreMigrationBackupId
  <2> QED BY <2>3, <2>4 DEF KeeperInv, SavesKept
<1>3. FailuresTold
  <2>1. \A k \in DOMAIN failures : failures[k].save # <<>>
    BY DEF KeeperInv, FailuresKept, SavesKept
  <2> QED BY <2>1 DEF KeeperInv, FailuresKept, FailuresTold
<1> QED BY <1>1, <1>2, <1>3, PlannedBase DEF Reached

LEMMA KeeperStep ==
    ASSUME TypeOK, IsFiniteSet(events), ReferentialIntegrity, KeeperInv, KeepNext
    PROVE  KeeperInv'
<1>1. CASE Crash
  <2>1. UNCHANGED tables /\ \A w \in Workers : req'[w] = Idle
    BY <1>1 DEF Crash
  <2>2. SavesKept' /\ SameTold' /\ FailuresKept'
    BY <2>1 DEF KeeperInv, tables, SavesKept, SameTold, FailuresKept, OldRowOnly, Original, Told,
                EventsOf, Memos
  <2>3. \A w \in Workers : KeeperRequest(req[w])'
    BY <2>1 DEF KeeperRequest, Idle
  <2>4. \A j : ~Reached(j) => ~Reached(j)'
    BY <2>1 DEF Reached, Idle, FailuresOf, tables
  <2>5. OneOutOfReach'
    BY <2>1, <2>4 DEF KeeperInv, OneOutOfReach, Original, tables
  <2> QED BY <2>2, <2>3, <2>5 DEF KeeperInv
<1>2. CASE MigrationNext
  <2>1. PICK w \in Workers :
            \/ \E i \in DOMAIN saves : MigrateCheck(w, i)
            \/ MigrateBackup(w) \/ MigrateApply(w) \/ MigrateFail(w) \/ RecordFailure(w)
            \/ \E i \in DOMAIN saves : RestorePlan(w, i)
            \/ RestoreRead(w) \/ RestoreWrite(w)
    BY <1>2 DEF MigrationNext
  <2>2. PICK q : q = req[w]
    OBVIOUS
  <2>3. q \in Request /\ KeeperRequest(q)
    BY <2>2 DEF TypeOK, KeeperInv
  <2>4. q.pc \in {"migrate", "record", "restore", "restore_write"} =>
            q.save \in DOMAIN saves /\ Reached(q.save)
    BY <2>2, <2>3 DEF KeeperRequest, Reached
  <2>5. ASSUME NEW i \in DOMAIN saves, MigrateCheck(w, i) PROVE KeeperInv'
    <3>1. PICK r : r = [pc |-> IF NeedsBackup(i) THEN "backup" ELSE "migrate",
                        save |-> i, backup |-> BackupId(i)]
      OBVIOUS
    <3>2. req' = [req EXCEPT ![w] = r] /\ UNCHANGED tables
      BY <2>5, <3>1 DEF MigrateCheck, Exists, Goto
    <3>3. r.save = i /\ r.backup = BackupId(i) /\ r.pc \in {"backup", "migrate"}
      BY <3>1
    <3>4. r.pc = "migrate" => saves[i].schema = Current
      BY <3>1 DEF NeedsBackup
    <3>5. i \in SaveIds /\ i # <<>>
      BY DEF TypeOK, SavesType, KeeperInv, SavesKept
    <3>6. BackupId(i) # <<>> /\ BackupId(i)[1] = i[1]
      BY <3>5, BackupBase DEF BackupId
    <3>7. KeeperRequest(r)
      BY <3>3, <3>6 DEF KeeperRequest
    <3> QED BY <3>2, <3>3, <3>4, <3>7, KeepReadStep
  <2>6. CASE MigrateBackup(w)
    BY <2>6, KeepBackupStep
  <2>7. CASE MigrateApply(w)
    <3>1. q.pc = "migrate" /\ UNCHANGED <<events, memories, failures>>
      BY <2>2, <2>7 DEF MigrateApply, At
    <3>2. CASE (\E end : Finish(w, end)) /\ UNCHANGED saves
      BY <3>1, <3>2, KeepEndStep DEF tables
    <3>3. CASE Finish(w, "ok") /\ saves' = [saves EXCEPT ![q.save] = Migrated(@)]
      <4>1. PICK row : row = Migrated(saves[q.save])
        OBVIOUS
      <4>2. row.schema = Current
        BY <2>4, <3>1, <4>1 DEF Migrated, TypeOK, SavesType, Row
      <4>3. saves' = [saves EXCEPT ![q.save] = row]
        BY <3>3, <4>1
      <4> QED BY <2>4, <3>1, <3>3, <4>2, <4>3, KeepRowStep DEF OldRowOnly
    <3> QED BY <2>2, <2>7, <3>2, <3>3 DEF MigrateApply
  <2>8. CASE MigrateFail(w)
    <3>1. PICK r : r = [q EXCEPT !.pc = "record"]
      OBVIOUS
    <3>2. q \in KeepReq /\ q.pc = "migrate"
      BY <2>2, <2>3, <2>8, RequestShape DEF MigrateFail, At
    <3>3. r.pc = "record" /\ r.save = q.save /\ r.backup = q.backup
      BY <3>1, <3>2 DEF KeepReq
    <3>4. KeeperRequest(r)
      BY <2>3, <3>2, <3>3 DEF KeeperRequest
    <3>5. req' = [req EXCEPT ![w] = r] /\ UNCHANGED tables
      BY <2>2, <2>8, <3>1 DEF MigrateFail, Goto
    <3> QED BY <2>4, <3>2, <3>3, <3>4, <3>5, KeepReadStep
  <2>9. CASE RecordFailure(w)
    <3>1. PICK f : f = [save |-> q.save, backup |-> q.backup]
      OBVIOUS
    <3>2. q.pc = "record" /\ failures' = Append(failures, f) /\ Finish(w, "failed")
          /\ UNCHANGED <<saves, events, memories>>
      BY <2>2, <2>9, <3>1 DEF RecordFailure, At
    <3>3. q.save \in DOMAIN saves /\ Reached(q.save) /\ q.backup # <<>> /\ q.backup[1] = q.save[1]
      BY <2>3, <2>4, <3>2 DEF KeeperRequest
    <3>4. /\ DOMAIN failures' = DOMAIN failures \cup {Len(failures) + 1}
          /\ failures'[Len(failures) + 1] = f
          /\ \A k \in DOMAIN failures : failures'[k] = failures[k]
      <4>1. failures \in Seq([save : SaveIds, backup : SaveIds])
        BY DEF TypeOK
      <4>2. f \in [save : SaveIds, backup : SaveIds]
        <5>1. q \in KeepReq
          BY <2>3, <3>2, RequestShape
        <5> QED BY <3>1, <5>1 DEF KeepReq
      <4> QED BY <3>2, <4>1, <4>2
    <3>5. FailuresKept'
      BY <3>1, <3>2, <3>3, <3>4 DEF KeeperInv, FailuresKept
    <3>6. \A j : j # q.save => FailuresOf(j)' = FailuresOf(j)
      <4>1. ASSUME NEW j, j # q.save
            PROVE  \A k : k \in FailuresOf(j)' <=> k \in FailuresOf(j)
        BY <3>1, <3>4, <4>1 DEF FailuresOf
      <4> QED BY <4>1
    <3>7. SavesKept' /\ SameTold'
      <4>1. \A j : Told(j)' = Told(j) /\ Memos(j)' = Memos(j)
        BY <3>2 DEF Told, EventsOf, Memos
      <4>2. SavesKept'
        BY <3>2 DEF KeeperInv, SavesKept, OldRowOnly, Original
      <4>3. SameTold'
        BY <3>2, <4>1 DEF KeeperInv, SameTold
      <4> QED BY <4>2, <4>3
    <3>8. PICK r : r = Idle
      OBVIOUS
    <3>9. KeeperRequest(r) /\ r.pc = "idle"
      BY <3>8 DEF KeeperRequest, Idle
    <3>10. req' = [req EXCEPT ![w] = r] /\ DOMAIN saves' = DOMAIN saves
      BY <3>2, <3>8 DEF Finish
    <3>11. \A j \in DOMAIN saves : ~Reached(j) =>
               saves'[j] = saves[j] /\ FailuresOf(j)' = FailuresOf(j)
      BY <3>2, <3>3, <3>6
    <3> QED BY <3>5, <3>7, <3>9, <3>10, <3>11, KeepStep
  <2>10. ASSUME NEW i \in DOMAIN saves, RestorePlan(w, i) PROVE KeeperInv'
    <3>1. CASE CanRestore(i)
      <4>1. PICK r : r = [pc |-> "restore", save |-> i, backup |-> PlannedBackup(i)]
        OBVIOUS
      <4>2. req' = [req EXCEPT ![w] = r] /\ UNCHANGED tables
        BY <2>10, <3>1, <4>1 DEF RestorePlan, Goto
      <4>3. r.pc = "restore" /\ r.save = i /\ r.backup = PlannedBackup(i)
        BY <4>1
      <4>4. Reached(i) /\ PlannedBackup(i) # <<>> /\ PlannedBackup(i)[1] = i[1]
        BY <3>1, KeepPlanned
      <4>5. KeeperRequest(r)
        BY <4>3, <4>4 DEF KeeperRequest
      <4> QED BY <4>2, <4>3, <4>4, <4>5, KeepReadStep
    <3>2. CASE ~CanRestore(i)
      BY <2>10, <3>2, KeepEndStep DEF RestorePlan
    <3> QED BY <3>1, <3>2
  <2>11. CASE RestoreRead(w)
    <3>1. q.pc = "restore" /\ UNCHANGED tables
      BY <2>2, <2>11 DEF RestoreRead, At
    <3>2. CASE Finish(w, "not_found")
      BY <3>1, <3>2, KeepEndStep
    <3>3. CASE /\ Exists(q.backup)
               /\ Goto(w, [pc |-> "restore_write", save |-> q.save, row |-> saves[q.backup]])
      <4>1. PICK r : r = [pc |-> "restore_write", save |-> q.save, row |-> saves[q.backup]]
        OBVIOUS
      <4>2. r.pc = "restore_write" /\ r.save = q.save /\ r.row = saves[q.backup]
        BY <4>1
      <4>3. Original(q.backup) = Original(q.save)
        BY <2>3, <3>1 DEF KeeperRequest, Original
      <4>4. OldRowOnly(q.save, saves[q.backup])
        BY <3>3, <4>3 DEF KeeperInv, SavesKept, OldRowOnly, Exists
      <4>5. KeeperRequest(r)
        BY <2>4, <3>1, <4>2, <4>4 DEF KeeperRequest
      <4> QED BY <2>4, <3>1, <3>3, <4>1, <4>2, <4>5, KeepReadStep DEF Goto
    <3> QED BY <2>2, <2>11, <3>2, <3>3 DEF RestoreRead
  <2>12. CASE RestoreWrite(w)
    <3>1. q.pc = "restore_write" /\ UNCHANGED <<events, memories, failures>>
      BY <2>2, <2>12 DEF RestoreWrite, At
    <3>2. CASE Finish(w, "not_found") /\ UNCHANGED saves
      BY <3>1, <3>2, KeepEndStep DEF tables
    <3>3. CASE Finish(w, "ok") /\ saves' = [saves EXCEPT ![q.save] = q.row]
      <4>1. OldRowOnly(q.save, q.row)
        BY <2>3, <3>1 DEF KeeperRequest
      <4> QED BY <2>4, <3>1, <3>3, <4>1, KeepRowStep
    <3> QED BY <2>2, <2>12, <3>2, <3>3 DEF RestoreWrite
  <2> QED BY <2>1, <2>5, <2>6, <2>7, <2>8, <2>9, <2>10, <2>11, <2>12
<1> QED BY <1>1, <1>2 DEF KeepNext

\* At the start every save is an original.
LEMMA KeeperStart == ASSUME Init PROVE KeeperInv
<1>1. ASSUME NEW i \in DOMAIN saves
      PROVE  /\ i # <<>> /\ i[Len(i)] # -2 /\ i = <<i[1]>> /\ i \in DOMAIN OldSaves
             /\ Original(i) = saves[i]
  <2>1. i \in Seq(Nat) /\ Len(i) = 1 /\ i \in DOMAIN OldSaves
    BY OldDataAssumption DEF Init
  <2>2. i[1] \in Nat /\ i[Len(i)] = i[1]
    BY <2>1
  <2>3. i = <<i[1]>>
    <3>1. ASSUME NEW s \in Seq(Nat), Len(s) = 1 PROVE s = <<s[1]>>
      <4>1. <<s[1]>> \in Seq(Nat) /\ Len(<<s[1]>>) = 1 /\ <<s[1]>>[1] = s[1]
        BY <3>1
      <4>2. \A k \in 1..Len(s) : s[k] = <<s[1]>>[k]
        BY <3>1, <4>1
      <4> QED BY <3>1, <4>1, <4>2
    <3> QED BY <2>1, <3>1
  <2>4. i # <<>>
    <3>1. Len(<<>>) = 0 /\ 0 # 1
      OBVIOUS
    <3> QED BY <2>1, <3>1, Zenon
  <2>5. i[Len(i)] # -2
    BY <2>2
  <2>6. Original(i) = saves[i]
    BY <2>3 DEF Original, Init
  <2> QED BY <2>1, <2>3, <2>4, <2>5, <2>6
<1>2. SavesKept
  BY <1>1 DEF SavesKept, OldRowOnly
<1>3. SameTold
  <2>1. ASSUME NEW i \in DOMAIN saves, NEW j \in DOMAIN saves, i[1] = j[1] PROVE i = j
    <3>1. i = <<i[1]>> /\ j = <<j[1]>>
      BY <1>1
    <3> QED BY <2>1, <3>1
  <2> QED BY <2>1 DEF SameTold
<1>4. FailuresKept /\ \A w \in Workers : KeeperRequest(req[w])
  BY DEF Init, FailuresKept, KeeperRequest, Idle
<1>5. \A i : ~Reached(i)
  BY DEF Init, Reached, Idle, FailuresOf
<1>6. OneOutOfReach
  BY <1>1, <1>5 DEF OneOutOfReach
<1> QED BY <1>2, <1>3, <1>4, <1>6 DEF KeeperInv

\* What a step changes it has reached for.
LEMMA KeeperBacksUp ==
    ASSUME TypeOK, IsFiniteSet(events), ReferentialIntegrity, KeeperInv, KeepNext,
           NEW i \in DOMAIN saves, MigrationStep(i)
    PROVE  BackupHolds(i)
<1>1. i \in DOMAIN saves' /\ saves[i].schema # Current /\ saves'[i] = Migrated(saves[i])
  BY DEF MigrationStep
<1>2. saves'[i] # saves[i]
  <2>1. saves[i] \in Row
    BY DEF TypeOK, SavesType
  <2>2. Migrated(saves[i]).schema = Current
    BY <2>1 DEF Migrated, Row
  <2> QED BY <1>1, <2>2
<1>3. Reached(i)
  <2>1. CASE Crash
    BY <1>2, <2>1 DEF Crash, tables
  <2>2. CASE MigrationNext
    <3>1. PICK w \in Workers :
              \/ \E j \in DOMAIN saves : MigrateCheck(w, j)
              \/ MigrateBackup(w) \/ MigrateApply(w) \/ MigrateFail(w) \/ RecordFailure(w)
              \/ \E j \in DOMAIN saves : RestorePlan(w, j)
              \/ RestoreRead(w) \/ RestoreWrite(w)
      BY <2>2 DEF MigrationNext
    <3>2. CASE MigrateBackup(w)
      <4>1. PICK j, b : saves' = saves \/ (b \notin DOMAIN saves /\ saves' = Put(b, saves[j]))
        BY <3>2 DEF MigrateBackup, Exists, tables
      <4> QED BY <1>2, <4>1 DEF Put
    <3>3. CASE MigrateApply(w) \/ RestoreWrite(w)
      <4>1. req[w].pc \in {"migrate", "restore_write"}
        BY <3>3 DEF MigrateApply, RestoreWrite, At
      <4>2. \A j \in DOMAIN saves : j # req[w].save => saves'[j] = saves[j]
        BY <3>3 DEF MigrateApply, RestoreWrite
      <4>3. req[w].save = i
        BY <1>2, <4>2
      <4> QED BY <4>1, <4>3 DEF Reached
    <3> QED BY <1>2, <3>1, <3>2, <3>3 DEF MigrateCheck, MigrateFail, RecordFailure, RestorePlan,
                RestoreRead, tables
  <2> QED BY <2>1, <2>2 DEF KeepNext
<1>4. saves[i] = Original(i) /\ Original(i).schema # Current
  BY <1>1 DEF KeeperInv, SavesKept, OldRowOnly
<1>5. PICK j \in DOMAIN saves : j[1] = i[1] /\ saves[j] = Original(i) /\ ~Reached(j)
  BY <1>4 DEF KeeperInv, OneOutOfReach
<1>6. j # i /\ saves[j] = saves[i]
  BY <1>3, <1>4, <1>5
<1>7. Told(j) = Told(i) /\ Memos(j) = Memos(i)
  BY <1>5 DEF KeeperInv, SameTold
<1> QED BY <1>6, <1>7 DEF BackupHolds, Memos

\* Whatever migrations and restores race, fail, are retried or die halfway: what a
\* migration changes is kept, with its events and memories, in another save
\* (repository.py migrate_save, restore_pre_migration_backup), for every number
\* of workers, saves and process deaths.
THEOREM BackupsComeFirst == KeeperSpec => BackupBeforeMigration
<1>1. Init => KeeperInv
  BY KeeperStart
<1>2. Init => ReferentialIntegrity
  BY OldDataAssumption DEF Init, ReferentialIntegrity, Exists
<1>3. [KeepNext]_vars => [Next]_vars
  BY DEF KeepNext, Next, SessionNext
<1>4. TypeOK /\ IsFiniteSet(events) /\ [Next]_vars => TypeOK' /\ IsFiniteSet(events)'
  BY NextKeepsTypes
<1>5. ReferentialIntegrity /\ [Next]_vars => ReferentialIntegrity'
  BY NextKeepsReferences
<1>6. /\ TypeOK /\ IsFiniteSet(events) /\ ReferentialIntegrity /\ KeeperInv /\ [KeepNext]_vars
      => KeeperInv'
  <2>1. ASSUME KeeperInv, UNCHANGED vars PROVE KeeperInv'
    <3>1. SavesKept' /\ SameTold' /\ FailuresKept'
      BY <2>1 DEF vars, tables, KeeperInv, SavesKept, SameTold, FailuresKept, OldRowOnly, Original,
                  Told, EventsOf, Memos
    <3>2. OneOutOfReach' /\ \A w \in Workers : KeeperRequest(req[w])'
      BY <2>1 DEF vars, tables, KeeperInv, OneOutOfReach, Reached, FailuresOf, Original,
                  KeeperRequest, OldRowOnly
    <3> QED BY <3>1, <3>2 DEF KeeperInv
  <2> QED BY <2>1, KeeperStep
<1>7. /\ TypeOK /\ IsFiniteSet(events) /\ ReferentialIntegrity /\ KeeperInv /\ [KeepNext]_vars
      => [\A i \in DOMAIN saves : MigrationStep(i) => BackupHolds(i)]_vars
  BY KeeperBacksUp
<1> QED BY InitTypes, <1>1, <1>2, <1>3, <1>4, <1>5, <1>6, <1>7, PTL DEF KeeperSpec, BackupBeforeMigration

-----------------------------------------------------------------------------
(***************************************************************************)
(* The kinds of client of SaveClients.  A behaviour keeps its kind, so it  *)
(* is a behaviour of the specification of that kind, and what holds there  *)
(* holds here.                                                             *)
(***************************************************************************)

\* Requests that come one at a time leave the events of a save in one order
\* (repository.py append_event).
LEMMA SinglesKeepOrder ==
    ClientSpec => [](client \in {"player", "caller"} => SequencesUnique)
<1> DEFINE Single == client \in {"player", "caller"}
<1>1. Single /\ [ClientNext]_clientVars => Single'
  BY DEF ClientNext, clientVars
<1>2. ~Single /\ [ClientNext]_clientVars => ~Single'
  BY DEF ClientNext, clientVars
<1>3. ClientInit /\ Single => Init /\ SequencesUnique
  BY DEF ClientInit
<1>4. Single /\ [ClientNext]_clientVars => [Next /\ OneAtATime]_vars
  BY DEF ClientNext, clientVars, HttpNext, CallerNext, Next
<1>5. OneByOneSpec => []SequencesUnique
  BY SequencesStayUnique
<1> QED BY <1>1, <1>2, <1>3, <1>4, <1>5, PTL DEF ClientSpec, OneByOneSpec

\* A player's sessions and saves are whole and in order (main.py load_game,
\* repository.py save_snapshot, migrate_save, restore_pre_migration_backup,
\* import_export.py import_save).
THEOREM PlayersKeepWhole == ClientSpec => []PlayerKeepsWhole
<1>1. client = "player" /\ [ClientNext]_clientVars => (client = "player")'
  BY DEF ClientNext, clientVars
<1>2. ~(client = "player") /\ [ClientNext]_clientVars => (~(client = "player"))'
  BY DEF ClientNext, clientVars
<1>3. ClientInit /\ client = "player"
      => Init /\ \A i \in DOMAIN saves : Whole(saves[i].turn, Told(i))
  BY DEF ClientInit
<1>4. client = "player" /\ [ClientNext]_clientVars => [HttpNext /\ OneAtATime]_vars
  BY DEF ClientNext, clientVars
<1>5. /\ (SessionsWhole /\ StoredSavesWhole) \/ ~(client = "player")
      /\ client \in {"player", "caller"} => SequencesUnique
      => PlayerKeepsWhole
  BY DEF PlayerKeepsWhole
<1> QED BY <1>1, <1>2, <1>3, <1>4, <1>5, SessionsStayWhole, SavesStayWhole, SinglesKeepOrder, PTL
       DEF ClientSpec, PlayerSpec

\* A caller's stored events are in order and never run ahead of the stored state
\* (save_service.py persist_step), with one session.
THEOREM CallersKeepOrder ==
    ASSUME NEW only, SessionIds = {only}
    PROVE  ClientSpec => []CallerKeepsOrder
<1>1. client = "caller" /\ [ClientNext]_clientVars => (client = "caller")'
  BY DEF ClientNext, clientVars
<1>2. ~(client = "caller") /\ [ClientNext]_clientVars => (~(client = "caller"))'
  BY DEF ClientNext, clientVars
<1>3. ClientInit /\ client = "caller"
      => Init /\ \A i \in DOMAIN saves : /\ \A t \in Turns(i) : t <= saves[i].turn
                                         /\ saves[i].turn = Cardinality(Turns(i))
  BY DEF ClientInit
<1>4. client = "caller" /\ [ClientNext]_clientVars => [CallerNext /\ OneAtATime]_vars
  BY DEF ClientNext, clientVars
<1>5. CallerSpec => []StoredEventsCovered
  BY EventsStayCovered
<1>6. /\ StoredEventsCovered \/ ~(client = "caller")
      /\ client \in {"player", "caller"} => SequencesUnique
      => CallerKeepsOrder
  BY DEF CallerKeepsOrder
<1> QED BY <1>1, <1>2, <1>3, <1>4, <1>5, <1>6, SinglesKeepOrder, PTL DEF ClientSpec, CallerSpec

\* A migrator's saves are migrated from a version once (repository.py
\* migrate_save).
THEOREM MigratorsMigrateOnce == ClientSpec => []MigratorMigratesOnce
<1>1. client = "migrator" /\ [ClientNext]_clientVars => (client = "migrator")'
  BY DEF ClientNext, clientVars
<1>2. ~(client = "migrator") /\ [ClientNext]_clientVars => (~(client = "migrator"))'
  BY DEF ClientNext, clientVars
<1>3. ClientInit /\ client = "migrator" => Init /\ \A i \in DOMAIN saves : Unrepeated(saves[i])
  BY DEF ClientInit
<1>4. client = "migrator" /\ [ClientNext]_clientVars => [Next /\ ~RewritesMigrated]_vars
  BY DEF ClientNext, clientVars
<1>5. NoRewriteSpec => []NoDoubleMigration
  BY MigratedOnce
<1>6. (NoDoubleMigration \/ ~(client = "migrator")) => MigratorMigratesOnce
  BY DEF MigratorMigratesOnce
<1> QED BY <1>1, <1>2, <1>3, <1>4, <1>5, <1>6, PTL DEF ClientSpec, NoRewriteSpec

\* A keeper's migrations leave a backup of what they change (repository.py
\* migrate_save, restore_pre_migration_backup).
THEOREM KeepersHaveBackups == ClientSpec => KeeperBackupFirst
<1>1. client = "keeper" /\ [ClientNext]_clientVars => (client = "keeper")'
  BY DEF ClientNext, clientVars
<1>2. ~(client = "keeper") /\ [ClientNext]_clientVars => (~(client = "keeper"))'
  BY DEF ClientNext, clientVars
<1>3. ClientInit /\ client = "keeper" => Init
  BY DEF ClientInit
<1>4. client = "keeper" /\ [ClientNext]_clientVars => [KeepNext]_vars
  BY DEF ClientNext, clientVars
<1>5. KeeperSpec => [][\A i \in DOMAIN saves : MigrationStep(i) => BackupHolds(i)]_vars
  BY BackupsComeFirst DEF BackupBeforeMigration
<1>6. [\A i \in DOMAIN saves : MigrationStep(i) => BackupHolds(i)]_vars \/ ~(client = "keeper")
      => [client = "keeper" =>
             \A i \in DOMAIN saves : MigrationStep(i) => BackupHolds(i)]_vars
  OBVIOUS
<1> QED BY <1>1, <1>2, <1>3, <1>4, <1>5, <1>6, PTL DEF ClientSpec, KeeperSpec, KeeperBackupFirst

\* Whatever the client, the tables keep their types, their references and their
\* key (repository.py).
THEOREM EveryClientKeepsTables ==
    ClientSpec => [](TypeOK /\ ReferentialIntegrity /\ KeysUnique)
<1>1. ClientInit => Init
  BY DEF ClientInit
<1>2. [ClientNext]_clientVars => [Next]_vars
  BY DEF ClientNext, clientVars, HttpNext, CallerNext, KeepNext, Next, SessionNext
<1> QED BY <1>1, <1>2, TypeCorrect, ReferencesHold, KeysStayUnique, PTL DEF ClientSpec, Spec
=============================================================================
