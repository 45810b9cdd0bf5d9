SPECIFICATION SaveTwiceSpec
CONSTANTS
    BaseIds = {1, 2}
    MemoryIds = {m1}
    SessionIds = {s1}
    Workers = {w1}
    Versions <- MCVersions
    Current = "0.6"
    Legacy = "legacy"
    Migratable <- MCMigratable
    OldSaves <- NoOldSaves
    OldEvents <- NoOldEvents
    OldMemories <- NoMemories
    MaxTurn = 2
    MaxEvent = 2
    MaxIdLen = 3
    MaxFailures = 2
    MaxCrashes = 1
INVARIANTS
    SaveNeverRefused
CHECK_DEADLOCK FALSE
