----------------------------- MODULE MCTurnRules -----------------------------
(* Instances of TurnRules for TLC. *)
EXTENDS TurnRules

\* Fights share neither state nor rules with trade, searches and locks: a player does
\* the one or the other.  Who fights does so with the first merchant while the
\* second stays as it is; who trades meets two that stay where they are, for a trade
\* asks nothing of them but their shop and their prices.
VARIABLE way
Idle(n) == g'.npc[n] = g.npc[n]
MCInit == /\ Init /\ way \in {"fight", "trade"}
          /\ \A n \in Npcs : n = "n2" \/ way = "trade" => g.npc[n].at = "inn" /\ ~g.npc[n].guarded
MCNext == /\ UNCHANGED way
          /\ \/ ExploreNext
             \/ way = "fight" /\ FightNext
             \/ way = "trade" /\ (SearchNext \/ TradeNext)
          /\ \A n \in Npcs : n = "n2" \/ way = "trade" => Idle(n)
MCSpec == MCInit /\ [][MCNext]_<<vars, way>>

\* Two places, the lock and the clue in the second.
MCPlaces == {"inn", "vault"}
MCExits == [p \in MCPlaces |-> MCPlaces \ {p}]
MCClues == [p \in MCPlaces |-> IF p = "vault" THEN {"clue"} ELSE {}]
MCTriggers == <<
    [quest |-> "q1", kind |-> "visit", of |-> "vault", action |-> "activate"],
    [quest |-> "q1", kind |-> "fact", of |-> "clue", action |-> "complete", objective |-> "o", stage |-> NoTarget],
    [quest |-> "q2", kind |-> "fact", of |-> "mark", action |-> "advance", stage |-> "s2"],
    [quest |-> "q2", kind |-> "item", of |-> "i1", action |-> "complete", objective |-> "o", stage |-> "s2"],
    [quest |-> "q2", kind |-> "talk", of |-> "n1", action |-> "activate"]>>
MCDue == [c \in {"c1", "c2"} |-> IF c = "c1" THEN 1 ELSE 2]
\* The first carries the player off and closes a quest; the second takes a fact
\* back, which fails while the player has not found it, and gives another.
MCEffects == [c \in {"c1", "c2"} |->
    IF c = "c1" THEN <<[op |-> "move", of |-> "vault"], [op |-> "close", of |-> "q1", as |-> "failed"]>>
    ELSE <<[op |-> "see", of |-> "mark"], [op |-> "forget", of |-> "clue"]>>]
MCSchedule == <<"c2", "c1">>
MCBasePrice == [i \in Items |-> 10]
\* The first shop asks less, with a trusted player, than the second pays: the
\* balance check, which compares the two modifiers of one merchant, finds nothing.
MCBuyModifier == [n \in Merchants |-> IF n = "n1" THEN 80 ELSE 100]
MCSellModifier == [n \in Merchants |-> IF n = "n1" THEN 50 ELSE 70]
MCShop == [n \in Npcs |-> IF n = "n1" THEN Items ELSE {}]
=============================================================================
