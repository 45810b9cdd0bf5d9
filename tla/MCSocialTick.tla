---------------------------- MODULE MCSocialTick ----------------------------
(* An instance of SocialTick for TLC: two places, two guards of the watch,   *)
(* one of whom is at his post by day, and a villager of no faction.          *)
EXTENDS SocialTick

MCFactions == {"watch"}
MCFactionOf == <<"watch", "watch", "none">>
MCPlaces == {"square", "road"}
MCExit == [p \in MCPlaces |-> IF p = "square" THEN "road" ELSE "square"]
MCTimes == {"day", "night"}
MCSchedule ==
    [n \in Npcs |-> [t \in MCTimes |-> IF n = 1 /\ t = "day" THEN "square" ELSE "none"]]
MCSuspicious == -3
MCHostile == -6
MCHome == [n \in Npcs |-> "square"]
=============================================================================
