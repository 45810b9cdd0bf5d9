SPECIFICATION MCSpec
CONSTANTS
    Workers = {w1, w2}
    Sessions = {s1, s2}
    Talks = {t1}
    MaxTurn = 3
    MaxEvents = 4
SYMMETRY Symmetry
INVARIANTS
    TypeOK
    StateTurnLogged
    EffectsAccounted
    AloneStateIsLog
    AloneTalkClosed
PROPERTIES
    IsStoryBook
CHECK_DEADLOCK FALSE
