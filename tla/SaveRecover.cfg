SPECIFICATION KeepSpec
CONSTANTS
    BaseIds = {3}
    MemoryIds = {m1}
    SessionIds = {s1}
    Workers = {w1}
    Versions <- MCVersions
    Current = "0.6"
    Legacy = "legacy"
    Migratable <- MCMigratable
    OldSaves <- MCOldSaves
    OldEvents <- MCOldEvents
    OldMemories <- OneOldMemory
    MaxTurn = 2
    MaxEvent = 2
    MaxIdLen = 3
    MaxFailures = 2
    MaxCrashes = 1
INVARIANTS
    AppliedMigrationRecoverable
CHECK_DEADLOCK FALSE
