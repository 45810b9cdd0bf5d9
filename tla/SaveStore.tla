------------------------------- MODULE SaveStore -------------------------------
(***************************************************************************)
(* The SQLite save store (backend/app/db) and the HTTP handlers that use   *)
(* it (backend/app/main.py).  Every sqlite3 connection block of the        *)
(* repository is one atomic step; an operation made of several blocks is   *)
(* made of several actions, and the steps of two workers (threads of the   *)
(* server's pool) interleave.                                              *)
(***************************************************************************)
EXTENDS Integers, Sequences, FiniteSets

CONSTANTS
    BaseIds,      \* fresh save ids (uuid4), integers
    MemoryIds,    \* memory record ids
    SessionIds,   \* slots for in-memory game sessions
    Workers,      \* threads of the request pool
    Versions,     \* save schema versions a row may carry
    Current,      \* CURRENT_SAVE_SCHEMA_VERSION
    Legacy,       \* rows whose state_json has no schema_version
    Migratable,   \* versions with a registered migration to Current
    OldSaves,     \* save_games rows found when the program starts
    OldEvents,    \* their stored_events rows
    OldMemories,  \* their stored_memories rows
    MaxTurn,      \* bound on the turn of a session
    MaxEvent,     \* bound on event ids
    MaxIdLen,     \* bound on ".backup" suffixes
    MaxFailures,  \* bound on migration_failures rows
    MaxCrashes    \* bound on process deaths

ASSUME VersionAssumption ==
    /\ Current \in Versions /\ Legacy \in Versions
    /\ Migratable \subseteq Versions \ {Current}
ASSUME BaseIdAssumption == BaseIds \subseteq Nat
ASSUME BoundAssumption ==
    /\ MaxTurn \in Nat /\ MaxEvent \in Nat
    /\ MaxIdLen \in Nat /\ MaxFailures \in Nat /\ MaxCrashes \in Nat

VARIABLES
    saves,     \* table save_games: save id -> row
    events,    \* table stored_events
    memories,  \* table stored_memories
    failures,  \* table migration_failures, oldest first
    sessions,  \* InMemorySessionStore
    used,      \* base ids handed out so far (uuid4 never repeats)
    nextEvent, \* next unused event id (uuid4)
    bundle,    \* the last exported save bundle
    crashes,   \* how often the process died
    req,       \* the request each worker is in the middle of
    reply      \* how the request ended that the last step ended, if it did

tables == <<saves, events, memories, failures>>
vars == <<saves, events, memories, failures, sessions, used, nextEvent,
          bundle, crashes, req, reply>>

(***************************************************************************)
(* A save id is a sequence of integers: a base id, then the suffixes the   *)
(* code appends (-1 for ".backup", -2 for ".pre-migration-backup", n for   *)
(* ".n").                                                                  *)
(***************************************************************************)
SaveIds == Seq(Int)
BackupId(i) == Append(i, -1)
PreMigrationBackupId(i) == Append(i, -2)

Event == [id : Nat, turn : Nat]
Row == [turn : Nat, schema : Versions, hist : Seq(Versions)]

\* stored_events.event_id: the event's own id, prefixed once per backup.
Key == [path : Seq(SaveIds), id : Nat]
RawKey(e) == [path |-> <<>>, id |-> e.id]
BackupKey(b, key) == [path |-> <<b>> \o key.path, id |-> key.id]

EventRow == [key : Key, save : SaveIds, ev : Event, seq : Nat]
\* save: the save the caller of SaveService keeps this session in, <<>> if none.
Session == [live : BOOLEAN, turn : Nat, schema : Versions, log : Seq(Event),
            save : SaveIds]
NoSession == [live |-> FALSE, turn |-> 0, schema |-> Current, log |-> <<>>, save |-> <<>>]

Idle == [pc |-> "idle"]
NoBundle == [none |-> TRUE]

Exists(i) == i \in DOMAIN saves
EventsOf(i) == {r \in events : r.save = i}
KeysUsed == {r.key : r \in events}
\* What the stored events of a save tell, whatever their keys.
Told(i) == {<<r.ev, r.seq>> : r \in EventsOf(i)}

\* The row table after writing row r under id i.
Put(i, r) == [j \in DOMAIN saves \cup {i} |-> IF j = i THEN r ELSE saves[j]]

\* Mutants: the increment forgotten; COALESCE left without its default.
LastSeq(i) ==
    IF EventsOf(i) = {} THEN 0
    ELSE CHOOSE n \in {r.seq : r \in EventsOf(i)} : \A r \in EventsOf(i) : r.seq <= n
NextSeqFromMinusOne(i) == IF EventsOf(i) = {} THEN -1 ELSE LastSeq(i) + 1

\* SELECT COALESCE(MAX(sequence), -1) + 1
NextSeq(i) ==
    IF EventsOf(i) = {} THEN 0
    ELSE 1 + CHOOSE n \in {r.seq : r \in EventsOf(i)} :
                 \A r \in EventsOf(i) : r.seq <= n

\* What list_events may return: rows by sequence, ties in either order.
Listings(i) ==
    {[k \in 1..Cardinality(EventsOf(i)) |-> f[k].ev] :
        f \in {g \in [1..Cardinality(EventsOf(i)) -> EventsOf(i)] :
                 \A a, b \in DOMAIN g : a < b => /\ g[a] # g[b]
                                                 /\ g[a].seq <= g[b].seq}}

\* EventLog.append refuses a turn below the latest one.
Ordered(log) == \A k \in 1..Len(log) - 1 : log[k].turn <= log[k + 1].turn

\* migrate_game_state_payload: a missing schema_version becomes Current.
LoadedSchema(v) == IF v = Legacy THEN Current ELSE v

Goto(w, r) == req' = [req EXCEPT ![w] = r] /\ reply' = "none"
Finish(w, r) == req' = [req EXCEPT ![w] = Idle] /\ reply' = r
At(w, pc) == req[w].pc = pc

Init ==
    /\ saves = OldSaves /\ events = OldEvents
    /\ memories = OldMemories /\ failures = <<>>
    /\ sessions = [s \in SessionIds |-> NoSession]
    /\ used = {i[1] : i \in DOMAIN OldSaves}
    /\ nextEvent = 1 + Cardinality(OldEvents)
    /\ bundle = NoBundle /\ crashes = 0
    /\ req = [w \in Workers |-> Idle]
    /\ reply = "none"

-----------------------------------------------------------------------------
(* Sessions: POST /game/start, and one successful step of the game loop     *)
(* (GameSession models the step itself).                                    *)

StartGame(s) ==
    /\ ~sessions[s].live
    /\ sessions' = [sessions EXCEPT ![s].live = TRUE]
    /\ reply' = "none"
    /\ UNCHANGED <<tables, used, nextEvent, bundle, crashes, req>>

\* The session after a step.
Stepped(s) == [sessions[s] EXCEPT !.turn = @ + 1,
                  !.log = Append(@, [id |-> nextEvent, turn |-> sessions[s].turn + 1])]
CanStep(s) == /\ sessions[s].live /\ sessions[s].turn < MaxTurn
              /\ nextEvent <= MaxEvent

Play(s) ==
    /\ CanStep(s)
    /\ sessions' = [sessions EXCEPT ![s] = Stepped(s)]
    /\ nextEvent' = nextEvent + 1
    /\ reply' = "none"
    /\ UNCHANGED <<tables, used, bundle, crashes, req>>

-----------------------------------------------------------------------------
(* save_snapshot: one transaction that upserts the row (keeping the row's   *)
(* migration_history), deletes the save's events and inserts the given ones *)
(* under their own ids; a key held by another save rolls everything back.   *)

\* Mutant: event_id a key within its save only.
ClashWithinSave(rest, rows, log) ==
    \E a, b \in DOMAIN log : a # b /\ log[a].id = log[b].id

SnapshotClash(rest, rows, log) ==
    \/ \E r \in rest : r.key \in {x.key : x \in rows}
    \/ \E a, b \in DOMAIN log : a # b /\ log[a].id = log[b].id

Snapshot(w, i, turn, schema, log) ==
    LET rest == events \ EventsOf(i)
        hist == IF Exists(i) THEN saves[i].hist ELSE <<>>
        rows == {[key |-> RawKey(log[k]), save |-> i, ev |-> log[k], seq |-> k - 1]
                    : k \in 1..Len(log)}
    IN  IF SnapshotClash(rest, rows, log)
        THEN /\ Finish(w, "refused")
             /\ UNCHANGED tables
        ELSE /\ saves' = Put(i, [turn |-> turn, schema |-> schema, hist |-> hist])
             /\ events' = rest \cup rows
             /\ Finish(w, "ok")
             /\ UNCHANGED <<memories, failures>>

\* POST /game/{session_id}/save: a fresh id, then the session's state and log.
SaveGame(w, s, b) ==
    /\ At(w, "idle") /\ sessions[s].live /\ b \notin used
    /\ used' = used \cup {b}
    /\ Snapshot(w, <<b>>, sessions[s].turn, sessions[s].schema, sessions[s].log)
    /\ UNCHANGED <<sessions, nextEvent, bundle, crashes>>

\* POST /game/load/{save_id}: load_save, then list_events (which first looks
\* whether the save exists, on a connection of its own), then restore_session.
LoadState(w, i) ==
    /\ At(w, "idle")
    /\ IF Exists(i)
       THEN /\ Goto(w, [pc |-> "load_exists", save |-> i, turn |-> saves[i].turn,
                        schema |-> LoadedSchema(saves[i].schema)])
       ELSE Finish(w, "not_found")
    /\ UNCHANGED <<tables, sessions, used, nextEvent, bundle, crashes>>

LoadExists(w) ==
    /\ At(w, "load_exists")
    /\ IF Exists(req[w].save)
       THEN Goto(w, [req[w] EXCEPT !.pc = "load_events"])
       ELSE Finish(w, "not_found")
    /\ UNCHANGED <<tables, sessions, used, nextEvent, bundle, crashes>>

LoadEvents(w, s) ==
    /\ At(w, "load_events") /\ ~sessions[s].live
    /\ \E log \in Listings(req[w].save) :
          IF Ordered(log)
          THEN /\ sessions' = [sessions EXCEPT ![s] =
                     [live |-> TRUE, turn |-> req[w].turn,
                      schema |-> req[w].schema, log |-> log,
                      save |-> req[w].save]]
               /\ Finish(w, "ok")
          ELSE Finish(w, "uncaught") /\ UNCHANGED sessions
    /\ UNCHANGED <<tables, used, nextEvent, bundle, crashes>>

\* DELETE /game/saves/{save_id}; migration_failures keeps its rows.
DeleteSave(w, i) ==
    /\ At(w, "idle")
    /\ IF Exists(i)
       THEN /\ events' = events \ EventsOf(i)
            /\ memories' = {m \in memories : m.save # i}
            /\ saves' = [j \in DOMAIN saves \ {i} |-> saves[j]]
            /\ Finish(w, "ok")
            /\ UNCHANGED failures
       ELSE Finish(w, "not_found") /\ UNCHANGED tables
    /\ UNCHANGED <<sessions, used, nextEvent, bundle, crashes>>

-----------------------------------------------------------------------------
(* migrate_save (not a dry run): read the save, back it up, migrate it in a *)
(* second transaction that reads the row again, record a failure in a third *)

\* Mutant: the test of the schema version the other way round.
BackupWhenCurrent(i) == saves[i].schema = Current

NeedsBackup(i) == saves[i].schema # Current

MigrateCheck(w, i) ==
    /\ At(w, "idle")
    /\ IF ~Exists(i)
       THEN Finish(w, "not_found")
       ELSE /\ Goto(w, [pc |-> IF NeedsBackup(i) THEN "backup" ELSE "migrate",
                        save |-> i, backup |-> BackupId(i)])
    /\ UNCHANGED <<tables, sessions, used, nextEvent, bundle, crashes>>

\* Mutant: the loop over the save's events forgotten.
NoBackupEvents(b, i) == {}

BackupEvents(b, i) ==
    {[key |-> BackupKey(b, r.key), save |-> b, ev |-> r.ev, seq |-> r.seq] :
        r \in EventsOf(i)}

\* _create_backup_in_connection: a taken name gets the next event sequence as
\* a suffix; INSERT ... SELECT inserts no row when the save has vanished, and
\* a second taken name is an IntegrityError nobody turns into a save error.
MigrateBackup(w) ==
    LET i == req[w].save
        b == IF Exists(BackupId(i)) THEN Append(BackupId(i), NextSeq(i))
             ELSE BackupId(i)
    IN  /\ At(w, "backup")
        /\ Len(b) <= MaxIdLen
        /\ IF Exists(b) /\ Exists(i)
           THEN Finish(w, "uncaught") /\ UNCHANGED tables
           ELSE /\ Goto(w, [req[w] EXCEPT !.pc = "migrate", !.backup = b])
                /\ saves' = IF Exists(i) THEN Put(b, saves[i]) ELSE saves
                /\ events' = events \cup BackupEvents(b, i)
                /\ memories' = memories \cup
                     {[save |-> b, id |-> m.id] : m \in {x \in memories : x.save = i}}
                /\ UNCHANGED failures
        /\ UNCHANGED <<sessions, used, nextEvent, bundle, crashes>>

\* Mutant: the schema_version column is not written.
MigratedSameVersion(row) == [row EXCEPT !.hist = Append(@, row.schema)]

Migrated(row) == [row EXCEPT !.schema = Current, !.hist = Append(@, row.schema)]

MigrateApply(w) ==
    LET i == req[w].save
    IN  /\ At(w, "migrate")
        /\ \/ /\ ~Exists(i)
              /\ Finish(w, "not_found") /\ UNCHANGED saves
           \/ /\ Exists(i) /\ saves[i].schema = Current
              /\ Finish(w, "ok") /\ UNCHANGED saves
           \/ /\ Exists(i) /\ saves[i].schema \in Migratable
              /\ saves' = [saves EXCEPT ![i] = Migrated(@)]
              /\ Finish(w, "ok")
        /\ UNCHANGED <<events, memories, failures, sessions, used, nextEvent, bundle, crashes>>

\* No path, a state_json that does not parse, or an sqlite error: rolled back.
MigrateFail(w) ==
    /\ At(w, "migrate") /\ Exists(req[w].save)
    /\ Goto(w, [req[w] EXCEPT !.pc = "record"])
    /\ UNCHANGED <<tables, sessions, used, nextEvent, bundle, crashes>>

RecordFailure(w) ==
    /\ At(w, "record") /\ Len(failures) < MaxFailures
    /\ failures' = Append(failures, [save |-> req[w].save, backup |-> req[w].backup])
    /\ Finish(w, "failed")
    /\ UNCHANGED <<saves, events, memories, sessions, used, nextEvent, bundle, crashes>>

-----------------------------------------------------------------------------
(* migration_recovery_plan and restore_pre_migration_backup                 *)

FailuresOf(i) == {k \in DOMAIN failures : failures[k].save = i}
LatestFailure(i) ==
    CHOOSE k \in FailuresOf(i) : \A j \in FailuresOf(i) : j <= k
PlannedBackup(i) ==
    IF FailuresOf(i) = {} THEN PreMigrationBackupId(i)
    ELSE failures[LatestFailure(i)].backup
CanRestore(i) == Exists(PlannedBackup(i))

RestorePlan(w, i) ==
    /\ At(w, "idle")
    /\ IF CanRestore(i)
       THEN /\ Goto(w, [pc |-> "restore", save |-> i, backup |-> PlannedBackup(i)])
       ELSE Finish(w, "not_found")
    /\ UNCHANGED <<tables, sessions, used, nextEvent, bundle, crashes>>

RestoreRead(w) ==
    /\ At(w, "restore")
    /\ IF Exists(req[w].backup)
       THEN /\ Goto(w, [pc |-> "restore_write", save |-> req[w].save,
                        row |-> saves[req[w].backup]])
       ELSE Finish(w, "not_found")
    /\ UNCHANGED <<tables, sessions, used, nextEvent, bundle, crashes>>

\* UPDATE save_games: the row only, and nothing when the save is gone (the
\* get_save that follows then reports it).
RestoreWrite(w) ==
    /\ At(w, "restore_write")
    /\ IF Exists(req[w].save)
       THEN /\ saves' = [saves EXCEPT ![req[w].save] = req[w].row]
            /\ Finish(w, "ok")
       ELSE Finish(w, "not_found") /\ UNCHANGED saves
    /\ UNCHANGED <<events, memories, failures, sessions, used, nextEvent, bundle, crashes>>

-----------------------------------------------------------------------------
(* export_save and import_save: the bundle keeps the save id, the state and *)
(* the events; the import validates the state and writes a snapshot.        *)

ExportSave(w, i) ==
    /\ At(w, "idle") /\ Exists(i)
    /\ \E log \in Listings(i) :
          bundle' = [save |-> i, turn |-> saves[i].turn,
                     schema |-> LoadedSchema(saves[i].schema), log |-> log]
    /\ reply' = "ok"
    /\ UNCHANGED <<tables, sessions, used, nextEvent, crashes, req>>

ImportSave(w, overwrite) ==
    /\ At(w, "idle") /\ bundle # NoBundle
    /\ IF Exists(bundle.save) /\ ~overwrite
       THEN Finish(w, "refused") /\ UNCHANGED tables
       ELSE Snapshot(w, bundle.save, bundle.turn, bundle.schema, bundle.log)
    /\ UNCHANGED <<sessions, used, nextEvent, bundle, crashes>>

-----------------------------------------------------------------------------
(* SaveService.persist_step after a step of the session: the row, then each *)
(* event, every write a transaction of its own.                             *)

\* create_save: the snapshot of the session under the caller's id.
CreateSave(w, s, b) ==
    /\ At(w, "idle") /\ sessions[s].live /\ b \notin used
    /\ used' = used \cup {b}
    /\ sessions' = [sessions EXCEPT ![s].save = <<b>>]
    /\ Snapshot(w, <<b>>, sessions[s].turn, sessions[s].schema, sessions[s].log)
    /\ UNCHANGED <<nextEvent, bundle, crashes>>

\* Mutant: the state from before the step is written.
PersistedTurnBefore(s) == sessions[s].turn

PersistedTurn(s) == Stepped(s).turn

StepAndPersist(w, s) ==
    /\ At(w, "idle") /\ CanStep(s) /\ sessions[s].save # <<>>
    /\ sessions' = [sessions EXCEPT ![s] = Stepped(s)]
    /\ nextEvent' = nextEvent + 1
    /\ Goto(w, [pc |-> "save_state", save |-> sessions[s].save, turn |-> PersistedTurn(s),
                schema |-> sessions[s].schema,
                ev |-> [id |-> nextEvent, turn |-> Stepped(s).turn]])
    /\ UNCHANGED <<tables, used, bundle, crashes>>

SaveState(w) ==
    LET i == req[w].save
    IN  /\ At(w, "save_state")
        /\ IF Exists(i)
           THEN /\ saves' = Put(i, [turn |-> req[w].turn, schema |-> req[w].schema,
                                    hist |-> saves[i].hist])
                /\ Goto(w, [pc |-> "append", save |-> i, ev |-> req[w].ev])
           ELSE Finish(w, "not_found") /\ UNCHANGED saves
        /\ UNCHANGED <<events, memories, failures, sessions, used, nextEvent, bundle, crashes>>

\* append_event: _save_exists, then MAX(sequence) (sqlite3 opens its
\* transaction only at the INSERT), then the INSERT.
AppendExists(w) ==
    /\ At(w, "append")
    /\ IF Exists(req[w].save)
       THEN Goto(w, [req[w] EXCEPT !.pc = "append_seq"])
       ELSE Finish(w, "not_found")
    /\ UNCHANGED <<tables, sessions, used, nextEvent, bundle, crashes>>

AppendSeq(w) ==
    /\ At(w, "append_seq")
    /\ Goto(w, [pc |-> "append_insert", save |-> req[w].save, ev |-> req[w].ev,
                seq |-> NextSeq(req[w].save)])
    /\ UNCHANGED <<tables, sessions, used, nextEvent, bundle, crashes>>

\* Mutant: PRAGMA foreign_keys off.
InsertAllowedWithoutSave(i, e) == RawKey(e) \notin KeysUsed

InsertAllowed(i, e) == Exists(i) /\ RawKey(e) \notin KeysUsed

AppendInsert(w) ==
    LET i == req[w].save
        e == req[w].ev
    IN  /\ At(w, "append_insert")
        /\ IF InsertAllowed(i, e)
           THEN /\ events' = events \cup
                     {[key |-> RawKey(e), save |-> i, ev |-> e, seq |-> req[w].seq]}
                /\ Finish(w, "ok")
           ELSE Finish(w, "refused") /\ UNCHANGED events
        /\ UNCHANGED <<saves, memories, failures, sessions, used, nextEvent, bundle, crashes>>

-----------------------------------------------------------------------------
(* append_memory (an upsert) and save_memories (delete all, insert all)     *)

MemoryExists(w, i, ms, replace) ==
    /\ At(w, "idle")
    /\ IF Exists(i)
       THEN /\ Goto(w, [pc |-> "memory", save |-> i, ids |-> ms, replace |-> replace])
       ELSE Finish(w, "not_found")
    /\ UNCHANGED <<tables, sessions, used, nextEvent, bundle, crashes>>

MemoryWrite(w) ==
    LET i == req[w].save
        kept == IF req[w].replace THEN {m \in memories : m.save # i} ELSE memories
    IN  /\ At(w, "memory")
        /\ IF Exists(i) \/ req[w].ids = {}
           THEN /\ memories' = kept \cup {[save |-> i, id |-> m] : m \in req[w].ids}
                /\ Finish(w, "ok")
           ELSE /\ Finish(w, IF req[w].replace THEN "uncaught" ELSE "refused")
                /\ UNCHANGED memories
        /\ UNCHANGED <<saves, events, failures, sessions, used, nextEvent, bundle, crashes>>

-----------------------------------------------------------------------------
\* The process dies: sessions and requests are gone, the database stays.
Crash ==
    /\ crashes < MaxCrashes
    /\ crashes' = crashes + 1
    /\ sessions' = [s \in SessionIds |-> NoSession]
    /\ req' = [w \in Workers |-> Idle]
    /\ reply' = "none"
    /\ UNCHANGED <<tables, used, nextEvent, bundle>>

PlayNext == \E s \in SessionIds : Play(s)
SaveNext == \E w \in Workers, s \in SessionIds, b \in BaseIds : SaveGame(w, s, b)

SessionNext ==
    \/ \E s \in SessionIds : StartGame(s)
    \/ \E w \in Workers :
          \/ \E i \in DOMAIN saves : LoadState(w, i)
          \/ LoadExists(w)
          \/ \E s \in SessionIds : LoadEvents(w, s)
    \/ Crash

MigrationNext ==
    \E w \in Workers :
        \/ \E i \in DOMAIN saves : MigrateCheck(w, i)
        \/ MigrateBackup(w) \/ MigrateApply(w) \/ MigrateFail(w) \/ RecordFailure(w)
        \/ \E i \in DOMAIN saves : RestorePlan(w, i)
        \/ RestoreRead(w) \/ RestoreWrite(w)

DeleteNext == \E w \in Workers, i \in DOMAIN saves : DeleteSave(w, i)

BundleNext ==
    \E w \in Workers :
        \/ \E i \in DOMAIN saves : ExportSave(w, i)
        \/ \E overwrite \in BOOLEAN : ImportSave(w, overwrite)

ServiceNext ==
    \E w \in Workers :
        \/ \E s \in SessionIds, b \in BaseIds : CreateSave(w, s, b)
        \/ \E s \in SessionIds : StepAndPersist(w, s)
        \/ SaveState(w) \/ AppendExists(w) \/ AppendSeq(w) \/ AppendInsert(w)
        \/ \E i \in DOMAIN saves, m \in MemoryIds : MemoryExists(w, i, {m}, FALSE)
        \/ \E i \in DOMAIN saves, ms \in SUBSET MemoryIds : MemoryExists(w, i, ms, TRUE)
        \/ MemoryWrite(w)

Next == SessionNext \/ PlayNext \/ SaveNext \/ MigrationNext
        \/ DeleteNext \/ BundleNext \/ ServiceNext

Spec == Init /\ [][Next]_vars

-----------------------------------------------------------------------------
(* Clients that some of the promises are made to.                           *)

\* The HTTP requests.
HttpNext == SessionNext \/ PlayNext \/ SaveNext \/ MigrationNext
            \/ DeleteNext \/ BundleNext

\* One request at a time: at most one worker is busy, and while it is, no other
\* reads or writes the tables.
Busy == {w \in Workers : ~At(w, "idle")}
OneAtATime ==
    /\ \A w, x \in Busy' : w = x
    /\ Busy # {} => req' # req \/ UNCHANGED <<tables, used, bundle, reply>>

\* A turn and stored events that agree: in the order of their sequence numbers
\* the turns of the events never go back, and they end at that turn.
Whole(turn, told) ==
    /\ \A e, f \in told : e[2] <= f[2] => e[1].turn <= f[1].turn
    /\ IF told = {} THEN turn = 0
       ELSE (\E e \in told : e[1].turn = turn) /\ \A e \in told : e[1].turn <= turn

\* list_events is a total order: no two events of a save share a sequence
\* number, so a loaded log is the saved log (one request at a time).
SequencesUnique ==
    \A r, x \in events : (r.save = x.save /\ r.seq = x.seq) => r = x

\* Any requests, one at a time, on a database whose saves are in order.
OneByOneSpec == Init /\ SequencesUnique /\ [][Next /\ OneAtATime]_vars

\* A caller of SaveService: sessions that persist their steps, next to deletes,
\* on a database that lacks no event.
CallerNext == SessionNext \/ ServiceNext \/ DeleteNext
Turns(i) == {r.ev.turn : r \in EventsOf(i)}
CallerSpec ==
    /\ Init /\ \A i \in DOMAIN saves : /\ \A t \in Turns(i) : t <= saves[i].turn
                                       /\ saves[i].turn = Cardinality(Turns(i))
    /\ [][CallerNext /\ OneAtATime]_vars

\* Migrations and restores, on any number of workers.
KeepNext == MigrationNext \/ Crash
KeeperSpec == Init /\ [][KeepNext]_vars

\* One player, on a database of whole saves.
PlayerSpec ==
    /\ Init /\ \A i \in DOMAIN saves : Whole(saves[i].turn, Told(i))
    /\ [][HttpNext /\ OneAtATime]_vars

-----------------------------------------------------------------------------
(* Properties *)

\* What is found in the database at start is a database this program wrote.
ASSUME OldDataAssumption ==
    /\ \A i \in DOMAIN OldSaves : i \in Seq(Nat) /\ Len(i) = 1
    /\ OldSaves \in [DOMAIN OldSaves -> Row]
    /\ OldEvents \subseteq EventRow /\ IsFiniteSet(OldEvents)
    /\ \A r \in OldEvents : r.save \in DOMAIN OldSaves /\ r.key = RawKey(r.ev)
    /\ \A r, x \in OldEvents : r.key = x.key => r = x
    /\ \A r \in OldEvents : r.ev.id <= Cardinality(OldEvents)
    /\ OldMemories \subseteq [save : DOMAIN OldSaves, id : MemoryIds]

Reply == {"none", "ok", "not_found", "refused", "failed", "uncaught"}

\* Requests by the block they are about to run.
Request ==
    {Idle}
    \cup [pc : {"load_exists", "load_events"}, save : SaveIds, turn : Nat, schema : Versions]
    \cup [pc : {"backup", "migrate", "record"}, save : SaveIds, backup : SaveIds]
    \cup [pc : {"restore"}, save : SaveIds, backup : SaveIds]
    \cup [pc : {"restore_write"}, save : SaveIds, row : Row]
    \cup [pc : {"save_state"}, save : SaveIds, turn : Nat, schema : Versions, ev : Event]
    \cup [pc : {"append", "append_seq"}, save : SaveIds, ev : Event]
    \cup [pc : {"append_insert"}, save : SaveIds, ev : Event, seq : Nat]
    \cup [pc : {"memory"}, save : SaveIds, ids : SUBSET MemoryIds, replace : BOOLEAN]

SavesType == DOMAIN saves \subseteq SaveIds /\ saves \in [DOMAIN saves -> Row]

\* Type invariant of the tables, the sessions and the requests.
TypeOK ==
    /\ SavesType
    /\ events \subseteq EventRow
    /\ memories \subseteq [save : SaveIds, id : MemoryIds]
    /\ failures \in Seq([save : SaveIds, backup : SaveIds])
    /\ sessions \in [SessionIds -> Session]
    /\ used \subseteq Int /\ nextEvent \in Nat /\ crashes \in Nat
    /\ \/ bundle = NoBundle
       \/ bundle \in [save : SaveIds, turn : Nat, schema : Versions, log : Seq(Event)]
    /\ req \in [Workers -> Request]
    /\ reply \in Reply

\* No stored event or memory outlives its save, whatever delete, import,
\* backup and append requests run between each other's transactions
\* (repository.py delete_save, append_event, FOREIGN KEY clauses).
ReferentialIntegrity ==
    /\ \A r \in events : Exists(r.save)
    /\ \A m \in memories : Exists(m.save)

\* stored_events.event_id is a primary key over all saves: one row per key,
\* through snapshots, backups of backups, imports and racing appends.
KeysUnique == \A r, x \in events : r.key = x.key => r = x

\* A session's EventLog is whole: turns never go back and the log ends at the
\* turn of the state, whatever saves, loads, migrations, restores, imports and
\* deletes came before, one request at a time (PlayerSpec; main.py load_game,
\* session_store.py restore_session).
SessionsWhole ==
    \A s \in SessionIds : sessions[s].live =>
        LET log == sessions[s].log
        IN  /\ Ordered(log)
            /\ IF log = <<>> THEN sessions[s].turn = 0
               ELSE log[Len(log)].turn = sessions[s].turn

\* The same for what is stored: state_json and the stored events of every
\* save, backups included, tell the same turn.
StoredSavesWhole ==
    \A i \in DOMAIN saves :
        \A log \in Listings(i) :
            /\ Ordered(log)
            /\ IF log = <<>> THEN saves[i].turn = 0
               ELSE log[Len(log)].turn = saves[i].turn

\* persist_step writes the state before the events, so stored events never
\* run ahead of the stored state, and each crash between its transactions
\* loses the events of at most one step (one session of a caller that persists
\* one step after the other, CallerSpec; save_service.py persist_step).
StoredEventsCovered ==
    \A i \in DOMAIN saves :
        /\ \A t \in Turns(i) : t <= saves[i].turn
        /\ saves[i].turn - Cardinality(Turns(i)) <= crashes + 1

\* A migration that changes a row leaves the old row, its events and its
\* memories in another save: the backup of SAVE_MIGRATION_V2_CONTRACT.
BackupHolds(i) ==
    \E b \in DOMAIN saves \ {i} :
        /\ saves[b] = saves[i]
        /\ Told(b) = Told(i)
        /\ {m.id : m \in {x \in memories : x.save = b}}
             = {m.id : m \in {x \in memories : x.save = i}}

MigrationStep(i) ==
    /\ i \in DOMAIN saves \cap DOMAIN saves'
    /\ saves[i].schema # Current /\ saves'[i] = Migrated(saves[i])

\* A migration, raced by another, retried after a failure or asked for again
\* after a restore, leaves what it changes in a backup, wherever nobody deletes
\* or overwrites saves (KeeperSpec; repository.py migrate_save).
BackupBeforeMigration == [][\A i \in DOMAIN saves : MigrationStep(i) => BackupHolds(i)]_vars

\* A step that writes over a save a state of a version the save was migrated
\* from and leaves its history: an import over it, or a step persisted by a
\* session that was loaded before the migration.
RewritesMigrated ==
    \E i \in DOMAIN saves \cap DOMAIN saves' :
        /\ saves'[i].hist = saves[i].hist /\ saves'[i].schema # saves[i].schema
        /\ \E k \in DOMAIN saves[i].hist : saves[i].hist[k] = saves'[i].schema

\* A history as a migration may find it: no version twice, and the version of
\* the row none of them, unless there is nothing left to migrate.
Unrepeated(row) ==
    /\ \A a, b \in DOMAIN row.hist : row.hist[a] = row.hist[b] => a = b
    /\ row.schema = Current \/ \A k \in DOMAIN row.hist : row.hist[k] # row.schema

\* The store where no such state is written, from a database of such rows.
NoRewriteSpec ==
    /\ Init /\ \A i \in DOMAIN saves : Unrepeated(saves[i])
    /\ [][Next /\ ~RewritesMigrated]_vars

\* Two migrations of one save, racing, retried or asked for again after a
\* restore, never both take effect: a row's migration_history names a source
\* version once (repository.py migrate_save; only where NoRewriteSpec holds, as
\* an old state imported over a migrated save is rightly migrated again).
NoDoubleMigration ==
    \A i \in DOMAIN saves :
        \A a, b \in DOMAIN saves[i].hist :
            saves[i].hist[a] = saves[i].hist[b] => a = b

-----------------------------------------------------------------------------
(* Claims of the documentation that the code does not keep *)

\* POST /game/{session_id}/save of a live session succeeds.
SaveNeverRefused == reply # "refused"

\* After a migration was applied the recovery plan offers its backup.
AppliedMigrationRecoverable ==
    \A i \in DOMAIN saves :
        (Len(i) = 1 /\ saves[i].schema = Current /\ saves[i].hist # <<>>)
            => CanRestore(i)
=============================================================================
