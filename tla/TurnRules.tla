------------------------------ MODULE TurnRules ------------------------------
(***************************************************************************)
(* One player action after the other, each with what the world tick makes  *)
(* of it: fights, trade, searches, locks, quests and delayed consequences  *)
(* (backend/app/engine/actions; engine/rules: world_tick.py, quests.py,    *)
(* combat.py, economy.py; core/game_loop.py process_player_input).         *)
(*                                                                         *)
(* g is the GameState.  An action computes the state after its own deltas; *)
(* if it succeeded, the triggers of quests and the world tick follow on    *)
(* that state, and what is stored in the end is the last of them.          *)
(* Invalid actions change nothing.  Crimes, rumors and what NPCs make of   *)
(* them are in SocialTick: here an NPC may move and turn hostile at any    *)
(* tick.                                                                   *)
(***************************************************************************)
EXTENDS Combat, Trade, Quests, Functions

CONSTANTS
    Exits,         \* the places a place leads to
    Start,         \* where the player is in the beginning
    Facts,
    Clues,         \* what a search of a place reveals
    Mark,          \* the fact that a lock was scratched
    LockAt,        \* where the locked object is
    Triggers,      \* of all quests, a sequence
    Consequences,  \* ids of the delayed consequences
    Due,           \* when each is due
    Effects,       \* the deltas of each, a sequence
    Schedule,      \* delayed_consequences of the first state, a sequence of ids
    Coins,         \* the player's first currency
    Shop,          \* the shop_inventory of each NPC in the beginning
    MaxClock       \* the last moment told apart; later ones count as it

VARIABLES
    g,        \* the GameState
    outcome,  \* how the last action ended
    owed,     \* triggers whose event a successful action or its tick brought about
    fired     \* how often each consequence was applied

vars == <<g, outcome, owed, fired>>

Player == "player"
Nobody == "none"
FightStates == {"none", "active", "ended"}

\* Left out because no rule asks for it: the player's guard, how a lock that is
\* still locked looks, the turn.  The moment is all of current_time that a rule asks
\* about.  What is pending keeps the order of Schedule: nothing is ever appended.
GameStates ==
    [at : Places, stunned : BOOLEAN, clock : 0..MaxClock,
     seen : SUBSET Facts, marked : BOOLEAN, locked : BOOLEAN,
     owner : [Items -> Merchants \cup {Player, Nobody}], stock : [Npcs -> SUBSET Items], coins : Nat,
     npc : [Npcs -> NpcStates], fights : [Places -> [Npcs -> FightStates]],
     quest : [QuestIds -> QuestStates], pending : SUBSET Consequences]

Kinds == {"fact", "item", "talk", "visit"}
Actions == {"activate", "advance", "complete"}
EffectKinds == {"see", "forget", "move", "give", "close"}

ASSUME WorldAssumption ==
    /\ Exits \in [Places -> SUBSET Places] /\ Start \in Places /\ LockAt \in Places
    /\ Clues \in [Places -> SUBSET Facts] /\ Mark \in Facts
    /\ Player \notin Npcs /\ Merchants \subseteq Npcs /\ Shop \in [Npcs -> SUBSET Items]
    /\ \A n \in Npcs : Shop[n] # {} => n \in Merchants
    /\ \A n, m \in Npcs : n # m => Shop[n] \cap Shop[m] = {}
    /\ Due \in [Consequences -> Nat] /\ Coins \in Nat /\ MaxClock \in Nat

\* The validator has seen to the quests, authors to the consequences.
ASSUME ScriptAssumption ==
    /\ Len(Triggers) \in Nat
    /\ \A i \in 1..Len(Triggers) :
          LET t == Triggers[i]
          IN  /\ t.quest \in QuestIds /\ t.kind \in Kinds /\ t.action \in Actions
              /\ t.action = "advance" => t.stage \in Stages
              /\ t.action = "complete" => t.objective \in Objectives /\ t.stage \in Stages \cup {NoTarget}
    /\ Len(Schedule) \in Nat
    /\ Consequences = {Schedule[i] : i \in 1..Len(Schedule)}
    /\ \A i, j \in 1..Len(Schedule) : Schedule[i] = Schedule[j] => i = j
    /\ \A c \in Consequences :
          /\ Len(Effects[c]) \in Nat
          /\ \A i \in 1..Len(Effects[c]) :
                LET e == Effects[c][i]
                IN  /\ e.op \in EffectKinds
                    /\ e.op \in {"see", "forget"} => e.of \in Facts
                    /\ e.op = "move" => e.of \in Places
                    /\ e.op = "give" => e.of \in Items
                    /\ e.op = "close" => e.of \in QuestIds /\ e.as \in Closed

-----------------------------------------------------------------------------
(* Triggers *)

\* _trigger_matches; talked is the NPC the player talked to in this action.
Matches(t, before, after, talked) ==
    CASE t.kind = "fact" -> t.of \notin before.seen /\ t.of \in after.seen
      [] t.kind = "item" -> before.owner[t.of] # Player /\ after.owner[t.of] = Player
      [] t.kind = "visit" -> before.at # t.of /\ after.at = t.of
      [] t.kind = "talk" -> t.of = talked

\* The quests after one trigger.
Heard(t, before, after, talked, quest) ==
    IF Matches(t, before, after, talked) THEN [quest EXCEPT ![t.quest] = Triggered(@, t)] ELSE quest

\* resolve_quest_triggers, in the order of the quests and their triggers.
QuestRun(before, after, talked) ==
    LET quest[i \in 0..Len(Triggers)] ==
            IF i = 0 THEN after.quest
            ELSE Heard(Triggers[i], before, after, talked, quest[i - 1])
    IN  quest
WithTriggers(before, after, talked) ==
    [after EXCEPT !.quest = QuestRun(before, after, talked)[Len(Triggers)]]

-----------------------------------------------------------------------------
(* Delayed consequences *)

IsDue(h, c) == Due[c] <= h.clock

\* apply_delta: what is not there cannot be removed.
Applicable(h, e) == e.op = "forget" => e.of \in h.seen

Applied(h, e) ==
    CASE e.op = "see" -> [h EXCEPT !.seen = @ \cup {e.of}]
      [] e.op = "forget" -> [h EXCEPT !.seen = @ \ {e.of}]
      [] e.op = "move" -> [h EXCEPT !.at = e.of]
      [] e.op = "give" -> [h EXCEPT !.owner[e.of] = Player]
      [] e.op = "close" -> [h EXCEPT !.quest[e.of].status = e.as]

\* Mutant: a consequence that was carried out is kept.
PendingAfterAll(h) == h.pending

\* A consequence is removed together with its effects.
PendingAfter(h) == {c \in h.pending : ~IsDue(h, c)}

\* One delta after the other; r is the state so far and whether all was applied.
Carry(r, e) == IF r.ok /\ Applicable(r.g, e) THEN [ok |-> TRUE, g |-> Applied(r.g, e)]
                                            ELSE [ok |-> FALSE, g |-> r.g]
Carried(r, effects) ==
    LET run[i \in 0..Len(effects)] == IF i = 0 THEN r ELSE Carry(run[i - 1], effects[i])
    IN  run

\* _resolve_due_delayed_consequences: all that are due, in the order of the list.
RunNext(h, r, c) == IF c \in h.pending /\ IsDue(h, c) THEN Carried(r, Effects[c])[Len(Effects[c])] ELSE r
DueRun(h) ==
    LET run[i \in 0..Len(Schedule)] ==
            IF i = 0 THEN [ok |-> TRUE, g |-> [h EXCEPT !.pending = PendingAfter(h)]]
            ELSE RunNext(h, run[i - 1], Schedule[i])
    IN  run
RunDue(h) == DueRun(h)[Len(Schedule)]

-----------------------------------------------------------------------------
(* The action loop *)

\* What schedules, plans and reactions may do to the NPCs that can act.
Ticked(npc, at, angered) ==
    IF CanAct(npc) THEN [npc EXCEPT !.at = at, !.hostile = @ \/ angered] ELSE npc
NpcTicks(npcs) ==
    {[n \in Npcs |-> Ticked(npcs[n], where[n], n \in angry)] :
        where \in [Npcs -> Places], angry \in SUBSET Npcs}

\* Triggers a step of the player brought about, seen from outside.
Events(before, after) == {i \in 1..Len(Triggers) : Matches(Triggers[i], before, after, Nobody)}

\* Mutant: the triggers are not looked at again after the delayed consequences.
AfterDueUnheard(turned, h) == h

\* The triggers of the tick: once more after the delayed consequences.  The pass
\* before them is left out, nothing it looks at has changed.
AfterDue(turned, h) == WithTriggers(turned, h, Nobody)

\* process_player_input after the handler: a failed action keeps its deltas, and
\* neither triggers nor the tick follow.  A delta that cannot be applied ends the
\* request and nothing is stored.  Every action takes some minutes, which may bring
\* any moment.
Took(after, level, talked) ==
    LET turned == WithTriggers(g, after, talked)
    IN  \E moment \in g.clock..MaxClock :
           IF level = "failure"
           THEN g' = [after EXCEPT !.clock = moment] /\ outcome' = level /\ UNCHANGED <<owed, fired>>
           ELSE \E npcs \in NpcTicks(turned.npc) :
                   LET ticked == [turned EXCEPT !.clock = moment, !.npc = npcs]
                       due == {c \in ticked.pending : IsDue(ticked, c)}
                       run == RunDue(ticked)
                   IN  IF run.ok
                       THEN /\ g' = AfterDue(turned, run.g)
                            /\ outcome' = level
                            /\ owed' = owed \cup Events(g, g')
                            /\ fired' = [c \in Consequences |-> fired[c] + (IF c \in due THEN 1 ELSE 0)]
                       ELSE outcome' = "error" /\ UNCHANGED <<g, owed, fired>>

FirstNpc(at, guarded) == [at |-> at, hp |-> MaxHp, condition |-> "healthy", alive |-> TRUE,
                          guarded |-> guarded, hostile |-> FALSE]
FirstQuest == [status |-> "inactive", known |-> FALSE, stage |-> FirstStage, done |-> {}]

Init ==
    /\ \E at \in [Npcs -> Places], guarded \in SUBSET Npcs :
          g = [at |-> Start, stunned |-> FALSE, clock |-> 0, seen |-> {}, marked |-> FALSE, locked |-> TRUE,
               owner |-> [i \in Items |-> Nobody], stock |-> Shop, coins |-> Coins,
               npc |-> [n \in Npcs |-> FirstNpc(at[n], n \in guarded)],
               fights |-> [p \in Places |-> [n \in Npcs |-> "none"]],
               quest |-> [q \in QuestIds |-> FirstQuest], pending |-> Consequences]
    /\ outcome = "none" /\ owed = {}
    /\ fired = [c \in Consequences |-> 0]

-----------------------------------------------------------------------------
(* The handlers *)

\* Observe, wait, defend, use an item, and a search that finds objects only.
Pass == Took(g, "success", Nobody)

Move(p) == p \in Exits[g.at] /\ Took([g EXCEPT !.at = p], "success", Nobody)

SneakTo(p) ==
    /\ p \in Exits[g.at]
    /\ Took([g EXCEPT !.at = p], "success", Nobody) \/ Took(g, "failure", Nobody)

\* An NPC that has turned hostile may refuse, which changes nothing.
Talk(n) == g.npc[n].at = g.at /\ CanAct(g.npc[n]) /\ Took(g, "success", n)

\* SearchActionHandler; a search that finds nothing is a failure.
Search == LET seen == g.seen \cup Clues[g.at]
          IN  Took([g EXCEPT !.seen = seen], IF seen # g.seen THEN "success" ELSE "failure", Nobody)

\* _lock_scratched_fact_delta: the first mark makes the fact, the next attempt
\* that leaves one makes the player see it.
Scratched(h) == IF h.marked THEN [h EXCEPT !.seen = @ \cup {Mark}] ELSE [h EXCEPT !.marked = TRUE]

Lockpick ==
    /\ g.at = LockAt /\ g.locked
    /\ \/ Took([g EXCEPT !.locked = FALSE], "success", Nobody)
       \/ \E level \in {"success", "failure"} : Took(Scratched(g), level, Nobody)

\* buy_item asks neither where the merchant is nor whose the item is.
Buy(i, n) ==
    /\ n \in Merchants /\ i \in g.stock[n]
    /\ \E band \in Bands :
          /\ Price(i, "buy", n, band) <= g.coins
          /\ Took([g EXCEPT !.coins = @ - Price(i, "buy", n, band), !.stock[n] = @ \ {i},
                            !.owner[i] = Player], "success", Nobody)

\* Mutant: a sale leaves the item with the player.
SellKept(i, n) ==
    /\ n \in Merchants /\ g.owner[i] = Player
    /\ \E band \in Bands :
          Took([g EXCEPT !.coins = @ + Price(i, "sell", n, band), !.stock[n] = @ \cup {i}],
               "success", Nobody)

Sell(i, n) ==
    /\ n \in Merchants /\ g.owner[i] = Player
    /\ \E band \in Bands :
          Took([g EXCEPT !.coins = @ + Price(i, "sell", n, band), !.stock[n] = @ \cup {i},
                         !.owner[i] = n], "success", Nobody)

\* can_attack
CanAttack(n) == g.npc[n].at = g.at /\ CanAct(g.npc[n]) /\ ~g.stunned

\* _combat_state_delta: a fight that is recorded for the place is taken as it is.
Fought(h, n) == [h EXCEPT !.fights[h.at][n] = IF @ = "none" THEN "active" ELSE @]

AttackMiss(n) == /\ CanAttack(n)
                 /\ Took([Fought(g, n) EXCEPT !.npc[n] = Missed(@)], "failure", Nobody)

\* Mutant: the wound is dealt and no fight recorded.
AttackHitUnrecorded(n) ==
    /\ CanAttack(n)
    /\ \E blow \in Blows, lethal \in BOOLEAN :
          Took([g EXCEPT !.npc[n] = Struck(@, blow, lethal)], "success", Nobody)

AttackHit(n) ==
    /\ CanAttack(n)
    /\ \E blow \in Blows, lethal \in BOOLEAN :
          Took([Fought(g, n) EXCEPT !.npc[n] = Struck(@, blow, lethal)], "success", Nobody)

\* flee: hostile NPCs that can act may hold the player, a flight ends all fights.
Fled(h, p) == [h EXCEPT !.at = p,
    !.fights = [q \in Places |-> [n \in Npcs |-> IF @[q][n] = "active" THEN "ended" ELSE @[q][n]]]]
Flee(p) ==
    /\ p \in Exits[g.at]
    /\ \/ Took(Fled(g, p), "success", Nobody)
       \/ /\ \E n \in Npcs : g.npc[n].at = g.at /\ g.npc[n].hostile /\ CanAct(g.npc[n])
          /\ Took([g EXCEPT !.stunned = TRUE], "failure", Nobody)

ExploreNext ==
    \/ Pass
    \/ \E p \in Places : Move(p) \/ SneakTo(p)
    \/ \E n \in Npcs : Talk(n)
SearchNext == Search \/ Lockpick
TradeNext == \E i \in Items, n \in Npcs : Buy(i, n) \/ Sell(i, n)
FightNext == \/ \E n \in Npcs : AttackMiss(n) \/ AttackHit(n)
             \/ \E p \in Places : Flee(p)

Next == ExploreNext \/ SearchNext \/ TradeNext \/ FightNext
Spec == Init /\ [][Next]_vars

-----------------------------------------------------------------------------
(* Properties *)

TypeOK ==
    /\ g \in GameStates
    /\ outcome \in {"none", "success", "failure", "error"}
    /\ owed \subseteq 1..Len(Triggers)
    /\ fired \in [Consequences -> Nat]

\* Hit points, condition and the stored alive flag agree, whatever blows fell, and
\* everybody who was hurt was hurt in a recorded fight and is hostile for it.
LifeConsistent ==
    \A n \in Npcs : LET npc == g.npc[n]
                    IN  /\ npc.alive <=> npc.condition # "dead"
                        /\ npc.hp = 0 <=> npc.condition \in Down
                        /\ npc.hp = MaxHp <=> npc.condition = "healthy"
                        /\ npc.hp < MaxHp =>
                              npc.hostile /\ \E p \in Places : g.fights[p][n] # "none"

\* Nobody recovers, no rule of the loop heals; who is down is left alone by
\* attacks, schedules and reactions alike.
NoWayBack == [][\A n \in Npcs : /\ g'.npc[n].hp <= g.npc[n].hp
                                /\ g.npc[n].condition \in Down => g'.npc[n] = g.npc[n]]_vars

\* A quest the player does not have is untouched, one in progress is known, and a
\* closed one is never taken up again, nor a known one forgotten, whatever triggers
\* and consequences meet in one turn.
InOrder(quest) == /\ quest.status = "inactive" => quest = FirstQuest
                  /\ quest.status = "active" => quest.known
QuestsInOrder ==
    /\ [](\A q \in QuestIds : InOrder(g.quest[q]))
    /\ [][\A q \in QuestIds : /\ g.quest[q].status \in Closed => g'.quest[q].status \in Closed
                              /\ g.quest[q].known => g'.quest[q].known]_vars

\* Whatever a successful action or a consequence of its tick brought about has
\* reached the quest that waits for it: an arrival by any way, an item bought or
\* given, a fact found or told.
TriggersHeard == \A i \in owed : g.quest[Triggers[i].quest].status # "inactive"

\* Every consequence is carried out once and then gone, none that is due survives
\* a tick, and one that cannot be applied takes all of its tick back.
ConsequencesOnce ==
    /\ \A c \in Consequences : fired[c] = (IF c \in g.pending THEN 0 ELSE 1)
    /\ outcome = "success" => \A c \in g.pending : ~IsDue(g, c)

\* "Only one ownership location should be active at a time": an item is with the
\* player or in one shop, unless a consequence gives it away, which asks no shop.
Given == {i \in Items : \E c \in Consequences : \E k \in 1..Len(Effects[c]) :
                            Effects[c][k].op = "give" /\ Effects[c][k].of = i}
OneHolder == \A i \in Items \ Given :
    /\ \A n, m \in Npcs : i \in g.stock[n] \cap g.stock[m] => n = m
    /\ g.owner[i] = Player => \A n \in Npcs : i \notin g.stock[n]

\* What the player has, with every item at the best price any shop ever pays.
Offers(i) == {0} \cup {Price(i, "sell", n, "trusted") : n \in Merchants}
BestOffer(i) == CHOOSE offer \in Offers(i) : \A other \in Offers(i) : other <= offer
Holdings(owner) == SumFunctionOnSet([i \in Items |-> IF owner[i] = Player THEN BestOffer(i) ELSE 0], Items)
Worth(h) == h.coins + Holdings(h.owner)

\* Money is made in one way only, by buying an item in a shop that asks less for it
\* than some shop pays, and no more than that margin at a time: never by selling,
\* never by going back and forth between reputations, only else by a consequence.
\* Where authors leave a margin the player does earn, without end if they leave one
\* both ways: the code relates no two modifiers.
MoneyNeedsMargin ==
    [][Worth(g') > Worth(g) /\ g'.pending = g.pending =>
          \E i \in Items, n \in Merchants :
             /\ i \in g.stock[n] /\ g.owner[i] # Player /\ g'.owner[i] = Player
             /\ Worth(g') - Worth(g) <= BestOffer(i) - Price(i, "buy", n, "trusted")]_vars
=============================================================================
