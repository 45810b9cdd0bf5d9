---------------------------------- MODULE Logs ----------------------------------
(* What the event log of a session says: its turn, and what it changed. *)
EXTENDS Integers, Sequences

LastTurn(l) == IF l = <<>> THEN 0 ELSE l[Len(l)].turn

\* The ids of the events with deltas among the first k, in order.
ChangesUpTo(l) ==
    LET ids[k \in 0..Len(l)] ==
            IF k = 0 THEN <<>>
            ELSE IF l[k].changes THEN Append(ids[k - 1], l[k].id) ELSE ids[k - 1]
    IN  ids

ChangingIds(l) == ChangesUpTo(l)[Len(l)]

\* The world after the events of a log.
Replay(l) == [turn |-> LastTurn(l), applied |-> ChangingIds(l)]
=============================================================================
