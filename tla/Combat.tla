------------------------------- MODULE Combat -------------------------------
(***************************************************************************)
(* Blows and what they do to an NPC (backend/app/engine/rules: combat.py,  *)
(* life_state.py).  Stances and the scores behind a roll are left out: any *)
(* roll may come.  Of the status effects of an NPC only guarded is asked   *)
(* about; no rule makes an NPC stunned.                                    *)
(***************************************************************************)
EXTENDS Integers

CONSTANTS
    Places,  \* locations
    Npcs,    \* every NPC is visible to the player
    MaxHp,   \* max_hp of every NPC
    Blows    \* what a blow that does not miss takes, the weapon's bonus included

ASSUME CombatAssumption == MaxHp \in Nat \ {0} /\ Blows \subseteq Nat

Conditions == {"healthy", "wounded", "critical", "incapacitated", "dead"}
Down == {"incapacitated", "dead"}

NpcStates == [at : Places, hp : 0..MaxHp, condition : Conditions, alive : BOOLEAN,
              guarded : BOOLEAN, hostile : BOOLEAN]

\* Mutant: who is knocked out is not excepted.
CanActAlive(npc) == npc.alive

\* can_act
CanAct(npc) == npc.alive /\ npc.condition \notin Down

Larger(a, b) == IF a > b THEN a ELSE b

\* condition_for_hp
ConditionForHp(hp, lethal) ==
    CASE hp = 0 -> IF lethal THEN "dead" ELSE "incapacitated"
      [] hp \in 1..Larger(MaxHp \div 4, 1) -> "critical"
      [] OTHER -> IF hp < MaxHp THEN "wounded" ELSE "healthy"

\* Mutant: the hit points are not kept from falling below zero.
DamagedBelowZero(npc, amount, lethal) ==
    LET condition == ConditionForHp(npc.hp - amount, lethal)
    IN  [npc EXCEPT !.hp = @ - amount, !.condition = condition, !.alive = (condition # "dead")]

\* apply_damage and update_condition
Damaged(npc, amount, lethal) ==
    LET hp == Larger(npc.hp - amount, 0)
        condition == ConditionForHp(hp, lethal)
    IN  [npc EXCEPT !.hp = hp, !.condition = condition, !.alive = (condition # "dead")]

\* A guarded NPC takes two less; a blow that takes nothing changes no condition.
Struck(npc, blow, lethal) ==
    LET amount == IF npc.guarded THEN Larger(blow - 2, 0) ELSE blow
        hurt == IF amount > 0 THEN Damaged(npc, amount, lethal) ELSE npc
    IN  [hurt EXCEPT !.hostile = TRUE, !.guarded = FALSE]

Missed(npc) == [npc EXCEPT !.hostile = TRUE]
=============================================================================
