------------------------------- MODULE SocialTick -------------------------------
(***************************************************************************)
(* What a crime of the player does to the world: GameLoop.step runs        *)
(* run_world_tick after a successful action and resolve_crime_from_event   *)
(* after the tick (backend/app/engine/rules: crime, social_tick, rumors,   *)
(* faction_conflict, npc_reactions, npc_planning, schedule, world_tick).   *)
(* Every loop of the tick is an action that takes one item, so that a step *)
(* of the game loop is the sequence of actions from phase "play" to "play".*)
(*                                                                         *)
(* Left out: moods, activities, suspicion and goals as strings, which no   *)
(* rule here reads; NPCs have no structured goals and no relationship      *)
(* records.  Whether an NPC notices a crime (light, cover, alertness,      *)
(* suspicion, visibility) is free.                                         *)
(***************************************************************************)
EXTENDS Integers, FiniteSets, Functions

CONSTANTS
    N,           \* NPCs, numbered in the order of their ids
    Factions,
    FactionOf,   \* faction of an NPC, or "none"
    Places,
    Exit,        \* first exit of a place
    Times,       \* times of day
    Schedule,    \* place of an NPC at a time, or "none"
    Home,        \* place of an NPC in a new game
    CrimeIds,    \* bound on crimes; their order is the order of the random ids
    Suspicious,  \* highest reputation of the suspicious band
    Hostile      \* highest reputation of the hostile band

Npcs == 1..N

ASSUME WorldAssumption ==
    /\ N \in Nat /\ CrimeIds \subseteq Nat
    /\ FactionOf \in [Npcs -> Factions \cup {"none"}] /\ "none" \notin Factions
    /\ Exit \in [Places -> Places]
    /\ Schedule \in [Npcs -> [Times -> Places \cup {"none"}]] /\ "none" \notin Places
    /\ Home \in [Npcs -> Places]
    /\ Suspicious \in Int /\ Hostile \in Int

VARIABLES
    phase,      \* where the step is, with the NPC whose turn it is
    act,        \* the player's action as classify_crime sees it
    here,       \* place of the player
    at,         \* place of each NPC
    condition,  \* condition of each NPC
    trust,      \* relationship_to_player of each NPC
    crimes,     \* crime records by id
    rumors,     \* rumor of a crime, by the crime's id
    rep,        \* reputation of the player with each faction
    alert,      \* alert level of each faction
    flags       \* social_flags that are true

body == <<here, at, condition>>
social == <<trust, crimes, rumors, rep, alert, flags>>
vars == <<phase, act, here, at, condition, trust, crimes, rumors, rep, alert, flags>>

Ranks == <<"healthy", "wounded", "critical", "incapacitated", "dead">>
Conditions == {Ranks[k] : k \in DOMAIN Ranks}
RankOf(c) == CHOOSE k \in DOMAIN Ranks : Ranks[k] = c

NoAct == [crime |-> FALSE]
CrimeAct(type, severity, victim) ==
    [crime |-> TRUE, type |-> type, severity |-> severity, victim |-> victim]

At(name) == phase.name = name
Phase(name) == [name |-> name, npc |-> 1]

CanAct(n) == condition[n] \notin {"incapacitated", "dead"}
Injured(n) == condition[n] \in {"wounded", "critical"}

Members(f) == {n \in Npcs : FactionOf[n] = f}
FactionsOf(W) == {FactionOf[n] : n \in W} \ {"none"}
Least(S) == CHOOSE x \in S : \A y \in S : x <= y
Greatest(S) == CHOOSE x \in S : \A y \in S : x >= y

Init ==
    /\ phase = Phase("play") /\ act = NoAct
    /\ here \in Places /\ at = Home
    /\ condition = [n \in Npcs |-> "healthy"]
    /\ trust = [n \in Npcs |-> 0]
    /\ crimes = << >> /\ rumors = << >>
    /\ rep = [f \in Factions |-> 0] /\ alert = [f \in Factions |-> 0]
    /\ flags = {}

-----------------------------------------------------------------------------
(* The player's actions, as far as crimes and the tick go. *)

\* A successful or partly successful action is followed by the tick, any other
\* by the classification of its event.
Succeeds(a) == act' = a /\ phase' = Phase("schedule")
Fails(a) == act' = a /\ phase' = Phase("record")

MayOffend == At("play") /\ DOMAIN crimes # CrimeIds

Wait == At("play") /\ Succeeds(NoAct) /\ UNCHANGED <<body, social>>

Move ==
    /\ At("play") /\ Succeeds(NoAct)
    /\ here' = Exit[here]
    /\ UNCHANGED <<at, condition, social>>

Lockpick ==
    /\ MayOffend
    /\ \/ Succeeds(CrimeAct("lockpicking", 1, 0))
       \/ Fails(CrimeAct("lockpicking", 2, 0))
    /\ UNCHANGED <<body, social>>

\* The event sets the owner of the item to the player, which is what theft is
\* told by; no other action of the game does that.
Buy == MayOffend /\ Succeeds(CrimeAct("theft", 2, 0)) /\ UNCHANGED <<body, social>>

\* hit is the condition the damage leaves the target in.
Attack(n, hit) ==
    /\ MayOffend /\ at[n] = here /\ CanAct(n)
    /\ RankOf(hit) >= RankOf(condition[n])
    /\ condition' = [condition EXCEPT ![n] = hit]
    /\ Succeeds(IF hit = "dead" THEN CrimeAct("murder", 5, n) ELSE CrimeAct("assault", 3, n))
    /\ UNCHANGED <<here, at, social>>

\* A miss, or an attack the rules refuse: the event still is an assault.
AttackInVain(n) ==
    /\ MayOffend
    /\ Fails(CrimeAct("assault", 3, n))
    /\ UNCHANGED <<body, social>>

-----------------------------------------------------------------------------
(* resolve_npc_schedules: the time of day is any; those who can move go     *)
(* where their schedule says.                                               *)

FollowSchedule(t) ==
    /\ At("schedule")
    /\ at' = [n \in Npcs |-> IF CanAct(n) /\ Schedule[n][t] # "none"
                             THEN Schedule[n][t] ELSE at[n]]
    /\ phase' = Phase("reports")
    /\ UNCHANGED <<act, here, condition, social>>

-----------------------------------------------------------------------------
(* _resolve_crime_reports *)

\* Mutant: the status of the crime not looked at.
DueForReportWhateverStatus(c) ==
    crimes[c].witnesses # {} /\ <<"crime_consequence", c>> \notin flags

DueForReport(c) ==
    /\ crimes[c].status \in {"hidden", "witnessed"}
    /\ crimes[c].witnesses # {}
    /\ <<"crime_consequence", c>> \notin flags

\* Mutant: the rumor known by every witness.
RumorOfAll(W) == [knownBy |-> W, factions |-> FactionsOf(W), spread |-> 1]

\* Mutant: a witness of no faction not told apart.
RumorOfNoFaction(W) ==
    [knownBy |-> {Greatest(W)}, factions |-> {FactionOf[Greatest(W)]}, spread |-> 1]

\* One rumor is created for each witness, under the same id: the last stays.
RumorOf(W) ==
    [knownBy |-> {Greatest(W)}, factions |-> FactionsOf({Greatest(W)}), spread |-> 1]

\* apply_crime_consequences: how the record of a crime changes, ...
AfterConsequences(k) ==
    [k EXCEPT !.status = IF FactionsOf(k.witnesses) # {} THEN "reported"
                         ELSE IF k.witnesses # {} /\ @ = "hidden" THEN "witnessed" ELSE @,
              !.reportedTo = @ \cup FactionsOf(k.witnesses),
              !.applied = @ + 1]

\* ... the reputations, one loss for each witness of the faction, and the rumor.
LoseReputation(k) ==
    rep' = [f \in Factions |->
              rep[f] - k.severity * Cardinality(k.witnesses \cap Members(f))]
StartRumor(c, W) ==
    rumors' = IF c \in DOMAIN rumors \/ W = {} THEN rumors
              ELSE [r \in DOMAIN rumors \cup {c} |-> IF r = c THEN RumorOf(W) ELSE rumors[r]]

Report ==
    /\ At("reports")
    /\ \E c \in DOMAIN crimes :
          /\ DueForReport(c)
          /\ \A d \in DOMAIN crimes : DueForReport(d) => c <= d
          /\ crimes' = [crimes EXCEPT ![c] = AfterConsequences(@)]
          /\ LoseReputation(crimes[c])
          /\ StartRumor(c, crimes[c].witnesses)
          /\ flags' = flags \cup {<<"crime_consequence", c>>}
    /\ UNCHANGED <<phase, act, body, trust, alert>>

-----------------------------------------------------------------------------
(* propagate_rumors *)

\* Mutant: an NPC that can no longer talk is told.
HearersAnyCondition(n, r) ==
    {m \in Npcs \ rumors[r].knownBy : m # n /\ at[m] = at[n] /\ CanAct(n)}

\* best_rumor_target, without relationship records: the first by id.
Hearers(n, r) ==
    {m \in Npcs \ rumors[r].knownBy : m # n /\ at[m] = at[n] /\ CanAct(n) /\ CanAct(m)}

Tellers(r) == {n \in rumors[r].knownBy : Hearers(n, r) # {}}

Tell(n, r) ==
    rumors' = [rumors EXCEPT ![r].knownBy = @ \cup {Least(Hearers(n, r))},
                             ![r].spread = @ + 1]

Gossip ==
    /\ At("reports") /\ \A c \in DOMAIN crimes : ~DueForReport(c)
    /\ LET told == {r \in DOMAIN rumors : Tellers(r) # {}}
       IN  IF told = {} THEN UNCHANGED rumors
           ELSE Tell(Least(Tellers(Least(told))), Least(told))
    /\ phase' = Phase("conflicts")
    /\ UNCHANGED <<act, body, trust, crimes, rep, alert, flags>>

-----------------------------------------------------------------------------
(* _resolve_faction_conflicts: crimes against a member of a faction, rumors *)
(* a faction has heard, bad reputations; each once (apply_faction_incident).*)

Incident(flag, f, amount) == [flag |-> flag, faction |-> f, amount |-> amount]

CrimeIncidents ==
    {Incident(<<"crime", c>>, FactionOf[crimes[c].victim], crimes[c].severity) :
        c \in {d \in DOMAIN crimes : /\ crimes[d].victim # 0
                                     /\ FactionOf[crimes[d].victim] # "none"}}
RumorIncidents ==
    UNION {{Incident(<<"rumor", r, f>>, f, 1) : f \in rumors[r].factions} : r \in DOMAIN rumors}
BandIncidents ==
    {Incident(<<"hostile", f>>, f, 2) : f \in {g \in Factions : rep[g] <= Hostile}}
    \cup {Incident(<<"suspicious", f>>, f, 1) :
            f \in {g \in Factions : rep[g] <= Suspicious /\ rep[g] > Hostile}}
Incidents == CrimeIncidents \cup RumorIncidents \cup BandIncidents

\* Mutant: the flag of an incident not looked at for bad reputations.
NewIncidentsBandAgain == {i \in Incidents : i.flag \notin flags \/ i.flag[1] = "suspicious"}

NewIncidents == {i \in Incidents : i.flag \notin flags}

Conflict ==
    /\ At("conflicts")
    /\ \E i \in NewIncidents :
          /\ alert' = [alert EXCEPT ![i.faction] = @ + i.amount]
          /\ flags' = flags \cup {i.flag}
    /\ UNCHANGED <<phase, act, body, trust, crimes, rumors, rep>>

ConflictsDone ==
    /\ At("conflicts") /\ NewIncidents = {}
    /\ phase' = Phase("react")
    /\ UNCHANGED <<act, body, social>>

-----------------------------------------------------------------------------
(* resolve_npc_reactions, NPC after NPC *)

NextNpc(after) ==
    phase' = IF phase.npc < N THEN [phase EXCEPT !.npc = @ + 1] ELSE Phase(after)

Distrusts(n, c) ==
    /\ n \in crimes[c].witnesses /\ crimes[c].status \in {"witnessed", "reported"}
    /\ <<"trust", n, c>> \notin flags

LoseTrust ==
    LET n == phase.npc
    IN  /\ At("react") /\ CanAct(n)
        /\ \E c \in DOMAIN crimes :
              /\ Distrusts(n, c)
              /\ trust' = [trust EXCEPT ![n] = @ - crimes[c].severity]
              /\ flags' = flags \cup {<<"trust", n, c>>}
        /\ UNCHANGED <<phase, act, body, crimes, rumors, rep, alert>>

\* The injured flee once for each condition.
React ==
    LET n == phase.npc
        flees == CanAct(n) /\ Injured(n) /\ <<"flee", n, condition[n]>> \notin flags
    IN  /\ At("react")
        /\ CanAct(n) => \A c \in DOMAIN crimes : ~Distrusts(n, c)
        /\ at' = IF flees THEN [at EXCEPT ![n] = Exit[@]] ELSE at
        /\ flags' = IF flees THEN flags \cup {<<"flee", n, condition[n]>>} ELSE flags
        /\ NextNpc("plan")
        /\ UNCHANGED <<act, here, condition, trust, crimes, rumors, rep, alert>>

-----------------------------------------------------------------------------
(* resolve_npc_planning_tick: the injured rest, the others report a crime   *)
(* they know or else pass a rumor on.                                       *)

\* Mutant: the crimes that are reported already not passed over.
ReportableEvenReported(n) == {c \in DOMAIN crimes : n \in crimes[c].witnesses}

Reportable(n) ==
    {c \in DOMAIN crimes : n \in crimes[c].witnesses /\ crimes[c].status # "reported"}

Tellable(n) == {r \in DOMAIN rumors : n \in rumors[r].knownBy /\ Hearers(n, r) # {}}

Plan ==
    LET n == phase.npc
        able == CanAct(n) /\ ~Injured(n)
    IN  /\ At("plan")
        /\ \/ /\ able /\ Reportable(n) # {}
              /\ crimes' = [crimes EXCEPT ![Least(Reportable(n))].status = "reported",
                                          ![Least(Reportable(n))].reportedTo =
                                              @ \cup {"local_authority"}]
              /\ UNCHANGED rumors
           \/ /\ able /\ Reportable(n) = {} /\ Tellable(n) # {}
              /\ Tell(n, Least(Tellable(n)))
              /\ UNCHANGED crimes
           \/ /\ ~able \/ Reportable(n) \cup Tellable(n) = {}
              /\ UNCHANGED <<crimes, rumors>>
        /\ NextNpc("record")
        /\ UNCHANGED <<act, body, trust, rep, alert, flags>>

-----------------------------------------------------------------------------
(* resolve_crime_from_event, at the end of the step: W are the witnesses. *)

MayWitness(n) == at[n] = here /\ CanAct(n)

NewCrime(W) ==
    [type |-> act.type, severity |-> act.severity, victim |-> act.victim, witnesses |-> W,
     status |-> "hidden", reportedTo |-> {}, applied |-> 0]

RecordCrime(c, W) ==
    /\ At("record") /\ act.crime
    /\ c \notin DOMAIN crimes /\ \A n \in W : MayWitness(n)
    /\ crimes' = [d \in DOMAIN crimes \cup {c} |->
                    IF d = c THEN AfterConsequences(NewCrime(W)) ELSE crimes[d]]
    /\ LoseReputation(NewCrime(W))
    /\ StartRumor(c, W)
    /\ act' = NoAct /\ phase' = Phase("play")
    /\ UNCHANGED <<body, trust, alert, flags>>

NoCrime ==
    /\ At("record") /\ ~act.crime
    /\ phase' = Phase("play")
    /\ UNCHANGED <<act, body, social>>

-----------------------------------------------------------------------------
Play ==
    \/ Wait \/ Move \/ Lockpick \/ Buy
    \/ \E n \in Npcs : AttackInVain(n) \/ \E hit \in Conditions : Attack(n, hit)

Tick ==
    \/ \E t \in Times : FollowSchedule(t)
    \/ Report \/ Gossip \/ Conflict \/ ConflictsDone
    \/ LoseTrust \/ React \/ Plan
    \/ NoCrime
    \/ \E c \in CrimeIds, W \in SUBSET Npcs : RecordCrime(c, W)

Next == Play \/ Tick

\* The code runs a step to its end, and the player goes on taking turns.
Fairness == WF_vars(Tick) /\ SF_vars(Wait)

Spec == Init /\ [][Next]_vars
FairSpec == Spec /\ Fairness

-----------------------------------------------------------------------------
(* Properties *)

Crime ==
    [type : {"lockpicking", "theft", "assault", "murder"}, severity : 1..5,
     victim : 0..N, witnesses : SUBSET Npcs, status : {"hidden", "witnessed", "reported"},
     reportedTo : SUBSET (Factions \cup {"local_authority"}), applied : Nat]
Rumor == [knownBy : SUBSET Npcs, factions : SUBSET Factions, spread : Nat]
PhaseNames ==
    {"play", "schedule", "reports", "conflicts", "react", "plan", "record"}

\* Type invariant.
TypeOK ==
    /\ phase \in [name : PhaseNames, npc : 1..N \cup {1}]
    /\ act = NoAct \/ act \in [crime : {TRUE}, type : {"lockpicking", "theft", "assault", "murder"},
                               severity : 1..5, victim : 0..N]
    /\ here \in Places /\ at \in [Npcs -> Places]
    /\ condition \in [Npcs -> Conditions]
    /\ trust \in [Npcs -> Int]
    /\ DOMAIN crimes \subseteq CrimeIds /\ \A c \in DOMAIN crimes : crimes[c] \in Crime
    /\ DOMAIN rumors \subseteq CrimeIds /\ \A r \in DOMAIN rumors : rumors[r] \in Rumor
    /\ rep \in [Factions -> Int] /\ alert \in [Factions -> Int]

\* What a faction holds against the player for each crime, and how severe it was.
Resentment(f) ==
    [c \in DOMAIN crimes |-> crimes[c].severity * Cardinality(crimes[c].witnesses \cap Members(f))]
Severity == [c \in DOMAIN crimes |-> crimes[c].severity]

\* A faction holds a crime against the player once for each of its members who
\* saw it, whether it was reported at once, by the tick or by a plan
\* (test_social_tick.py: the same crime does not repeat the loss).
ReputationOnce == \A f \in Factions : rep[f] = -SumFunction(Resentment(f))

\* What the flags say a faction or an NPC has dealt with.
Answered(f) ==
    {c \in DOMAIN crimes : <<"crime", c>> \in flags /\ FactionOf[crimes[c].victim] = f}
Heard(f) == {c \in DOMAIN crimes : <<"rumor", c, f>> \in flags}
Held(n) == {c \in DOMAIN crimes : <<"trust", n, c>> \in flags}
Bands(f) ==
    (IF <<"suspicious", f>> \in flags THEN 1 ELSE 0) + (IF <<"hostile", f>> \in flags THEN 2 ELSE 0)

\* Alert levels and distrust are the sum of what the flags say was dealt with:
\* each incident and each crime a witness reacts to counts once, in any order
\* of crimes, rumors and changes of the reputation band.
ReactionsOnce ==
    /\ \A f \in Factions :
          alert[f] = SumFunctionOnSet(Severity, Answered(f)) + Cardinality(Heard(f)) + Bands(f)
    /\ \A n \in Npcs : trust[n] = -SumFunctionOnSet(Severity, Held(n))

\* The rumor of a crime exists iff somebody saw it, a witness is among those who
\* tell it, and its spread level counts exactly those who know it, whether the
\* tick's gossip or an NPC's plan passed it on.
RumorsTraceable ==
    /\ DOMAIN rumors = {c \in DOMAIN crimes : crimes[c].witnesses # {}}
    /\ \A r \in DOMAIN rumors :
          /\ rumors[r].spread = Cardinality(rumors[r].knownBy)
          /\ rumors[r].knownBy \cap crimes[r].witnesses # {}

StaysOut(n) ==
    /\ at'[n] = at[n] /\ trust'[n] = trust[n]
    /\ \A r \in DOMAIN rumors : n \in rumors'[r].knownBy => n \in rumors[r].knownBy
    /\ \A c \in DOMAIN crimes' \ DOMAIN crimes : n \notin crimes'[c].witnesses

\* Who can no longer act takes no part: does not move, hears nothing, witnesses
\* nothing and reacts to nothing (WORLD_ENGINE.md: "Dead or incapacitated NPCs
\* do not react").
UnableStayOut == [][\A n \in Npcs : ~CanAct(n) => StaysOut(n)]_vars

Unreported(c) == c \in DOMAIN crimes /\ crimes[c].status = "witnessed"
FitWitness(c) == \E n \in crimes[c].witnesses : CanAct(n) /\ ~Injured(n)

\* While the player goes on taking turns, a crime somebody saw gets reported,
\* unless no uninjured witness is left.
WitnessedGetsReported ==
    \A c \in CrimeIds : Unreported(c) ~> ~(Unreported(c) /\ FitWitness(c))

-----------------------------------------------------------------------------
(* Claims of the documentation that the code does not keep *)

\* The consequences of a crime are applied once.
AppliedOnce == \A c \in DOMAIN crimes : crimes[c].applied <= 1
=============================================================================
