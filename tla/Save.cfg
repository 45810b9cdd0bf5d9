SPECIFICATION MCSpec
CONSTANTS
    BaseIds = {2, 3}
    MemoryIds = {m1}
    SessionIds = {s1}
    Workers = {w1, w2}
    Versions <- MCVersions
    Current = "0.6"
    Legacy = "legacy"
    Migratable <- MCMigratable
    OldSaves <- OneOldSave
    OldEvents <- OneOldEvents
    OldMemories <- OneOldMemory
    MaxTurn = 3
    MaxEvent = 4
    MaxIdLen = 3
    MaxFailures = 2
    MaxCrashes = 2
SYMMETRY WorkerSymmetry
INVARIANTS
    TypeOK
    ReferentialIntegrity
    KeysUnique
    PlayerKeepsWhole
    CallerKeepsOrder
    MigratorMigratesOnce
PROPERTIES
    KeeperBackupFirst
CHECK_DEADLOCK FALSE
