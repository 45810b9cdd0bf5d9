SPECIFICATION MCSpec
CONSTANTS
    Workers = {w1}
    Branches = {b1, b2}
    OldWorlds <- MCOldWorlds
    Proposals <- MCProposals
    MaxOps = 2
    MaxFailures = 1
    MaxCrashes = 1
    Places = {"inn", "cave"}
    Npcs = {"ann"}
    Items = {"key"}
    Facts = {"murder"}
    Factions = {"guard"}
    Rumors = {"rumor"}
    Bonds = {"bond"}
    QuestIds = {"quest"}
    Examples = {"chat"}
    Stages = {"s1", "s2", "s3"}
    Objectives = {"o", "find"}
    Player = "player"
    Absent = Absent
    NoTarget = "-"
    NoGame = NoGame
    Defs <- MCDefs
    OldPacks <- MCOldPacks
    MaxEdits = 3
SYMMETRY BranchSymmetry
INVARIANTS
    TypeOK
    SavedIsClean
    RefusedWritesNothing
    MergeTakesOneSided
    PackTypeOK
    AcceptedLoads
    HiddenUnreached
    RaisesOnlyWithoutTarget
CHECK_DEADLOCK FALSE
