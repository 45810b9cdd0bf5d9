SPECIFICATION PlaySpec
CONSTANTS
    Workers = {w1, w2}
    Sessions = {s1}
    Talks = {t1}
    MaxTurn = 3
    MaxEvents = 4
INVARIANTS
    NoLostUpdate
CHECK_DEADLOCK FALSE
