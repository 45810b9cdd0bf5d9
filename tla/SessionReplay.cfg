SPECIFICATION PlaySpec
CONSTANTS
    Workers = {w1}
    Sessions = {s1}
    Talks = {t1}
    MaxTurn = 3
    MaxEvents = 4
INVARIANTS
    ReplayInLogOrder
CHECK_DEADLOCK FALSE
