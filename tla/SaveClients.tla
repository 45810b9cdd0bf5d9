----------------------------- MODULE SaveClients -----------------------------
(***************************************************************************)
(* A SaveStore and the kind of client it has:                              *)
(* anyone:   every request, on any number of workers.                      *)
(* player:   the HTTP requests, one at a time (PlayerSpec).                *)
(* caller:   a caller of SaveService and of the memory store, next to      *)
(*           deletes, one request at a time (CallerSpec).                  *)
(* keeper:   migrations and restores, on any number of workers             *)
(*           (KeeperSpec).                                                 *)
(* migrator: every request, on any number of workers, but no state of a    *)
(*           migrated version is written over its save (NoRewriteSpec).    *)
(* Process deaths come to all of them.                                     *)
(***************************************************************************)
EXTENDS SaveStore

VARIABLE client

clientVars == <<vars, client>>

\* Each kind starts on the database its specification asks for.
ClientInit ==
    /\ Init
    /\ \/ client = "anyone"
       \/ client = "player" /\ SequencesUnique
                            /\ \A i \in DOMAIN saves : Whole(saves[i].turn, Told(i))
       \/ client = "caller" /\ SequencesUnique
                            /\ \A i \in DOMAIN saves :
                                   /\ \A t \in Turns(i) : t <= saves[i].turn
                                   /\ saves[i].turn = Cardinality(Turns(i))
       \/ client = "keeper"
       \/ client = "migrator" /\ \A i \in DOMAIN saves : Unrepeated(saves[i])

ClientNext ==
    /\ \/ client = "anyone" /\ Next
       \/ client = "player" /\ HttpNext /\ OneAtATime
       \/ client = "caller" /\ CallerNext /\ OneAtATime
       \/ client = "keeper" /\ KeepNext
       \/ client = "migrator" /\ Next /\ ~RewritesMigrated
    /\ UNCHANGED client

ClientSpec == ClientInit /\ [][ClientNext]_clientVars

-----------------------------------------------------------------------------
(* What each kind of client is promised.                                    *)

\* Whatever a player saved, loaded, migrated, restored, imported or deleted
\* before, state and events tell the same turn, in each session (main.py
\* load_game, session_store.py restore_session) and in the row and the stored
\* events of each save, backups included (repository.py save_snapshot,
\* migrate_save, restore_pre_migration_backup, import_export.py import_save),
\* and no two events of a save have one sequence number.
PlayerKeepsWhole ==
    client = "player" => SessionsWhole /\ StoredSavesWhole /\ SequencesUnique

\* Of a caller's save no two stored events have one sequence number and none is
\* ahead of the stored state, and each process death between the transactions of
\* a step loses the events of one step at most (save_service.py persist_step,
\* repository.py append_event).
CallerKeepsOrder == client = "caller" => SequencesUnique /\ StoredEventsCovered

\* Racing and retried migrations, with every other request between them, put no
\* version twice into a history (repository.py migrate_save), as long as no old
\* state is written over a migrated save.
MigratorMigratesOnce == client = "migrator" => NoDoubleMigration

\* What a migration changes is kept, with its events and memories, in another
\* save, whatever migrations and restores race, fail, are retried or die halfway
\* (repository.py migrate_save, restore_pre_migration_backup).
KeeperBackupFirst ==
    [][client = "keeper" =>
           \A i \in DOMAIN saves : MigrationStep(i) => BackupHolds(i)]_vars
=============================================================================
