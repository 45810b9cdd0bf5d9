---------------------------- MODULE SocialTickProofs ----------------------------
(* Theorems about SocialTick, for every number of NPCs, places, factions and *)
(* crimes, and for every schedule and reputation band.                        *)
EXTENDS SocialTick, Recursion

-----------------------------------------------------------------------------
(* The first and the last of a set of ids. *)

Less == {p \in Nat \X Nat : p[1] < p[2]}

LEMMA LessWellFounded == IsWellFoundedOn(Less, Nat)
<1>1. OpToRel(<, Nat) = Less
  BY Zenon DEF OpToRel, Less
<1> QED BY <1>1, NatLessThanWellFounded, Zenon

LEMMA HasLeast ==
    ASSUME NEW S, S \subseteq Nat, S # {}
    PROVE  \E x \in S : \A y \in S : x <= y
<1>1. PICK x \in S : \A y \in S : ~ (<<y, x>> \in Less)
  BY WFMin, LessWellFounded
<1>2. \A y \in S : x <= y
  <2> TAKE y \in S
  <2>1. x \in Nat /\ y \in Nat /\ ~ (<<y, x>> \in Less)
    BY <1>1
  <2> QED BY <2>1 DEF Less
<1> QED BY <1>2

LEMMA LeastIn ==
    ASSUME NEW S, S \subseteq Nat, S # {}
    PROVE  Least(S) \in S
BY HasLeast DEF Least

LEMMA GreatestIn ==
    ASSUME NEW S, S \subseteq Npcs, S # {}
    PROVE  Greatest(S) \in S
<1> DEFINE D == {N - x : x \in S}
<1>1. D \subseteq Nat /\ D # {} /\ S \subseteq 1..N /\ N \in Nat
  <2>1. N \in Nat /\ S \subseteq 1..N
    BY WorldAssumption DEF Npcs
  <2>2. \A x \in S : N - x \in Nat
    BY <2>1
  <2> QED BY <2>1, <2>2
<1>2. PICK d \in D : \A e \in D : d <= e
  <2> HIDE DEF D
  <2> QED BY <1>1, HasLeast
<1>3. PICK x \in S : d = N - x
  BY <1>2
<1>4. \A y \in S : x >= y
  <2> TAKE y \in S
  <2>1. d <= N - y /\ x \in Int /\ y \in Int
    BY <1>1, <1>2
  <2> QED BY <2>1, <1>1, <1>3
<1> QED BY <1>4 DEF Greatest

LEMMA NpcsFinite ==
    /\ IsFiniteSet(Npcs) /\ Npcs \subseteq Nat
    /\ \A W \in SUBSET Npcs : IsFiniteSet(W) /\ Cardinality(W) \in Nat
<1>1. IsFiniteSet(Npcs) /\ Npcs \subseteq Nat
  BY FS_Interval, WorldAssumption DEF Npcs
<1> QED BY <1>1, FS_Subset, FS_CardinalityType

LEMMA ExceptType ==
    ASSUME NEW S, NEW T, NEW f \in [S -> T], NEW x, NEW v, x \in S => v \in T
    PROVE  [f EXCEPT ![x] = v] \in [S -> T]
OBVIOUS

-----------------------------------------------------------------------------
(* What the operators of the rules return. *)

LEMMA FactionsOfType ==
    ASSUME NEW W \in SUBSET Npcs
    PROVE  FactionsOf(W) \subseteq Factions
BY WorldAssumption DEF FactionsOf

\* The rumor a crime starts: one witness knows it.
LEMMA RumorOfSeen ==
    ASSUME NEW W \in SUBSET Npcs, W # {}
    PROVE  /\ RumorOf(W) \in Rumor
           /\ RumorOf(W).knownBy = {Greatest(W)} /\ Greatest(W) \in W
           /\ RumorOf(W).spread = 1
<1>1. Greatest(W) \in W
  BY GreatestIn
<1>2. FactionsOf({Greatest(W)}) \in SUBSET Factions
  BY <1>1, FactionsOfType
<1> QED BY <1>1, <1>2 DEF RumorOf, Rumor

LEMMA AfterConsequencesType ==
    ASSUME NEW k \in Crime
    PROVE  AfterConsequences(k) \in Crime /\ AfterConsequences(k).witnesses = k.witnesses
<1> DEFINE F == FactionsOf(k.witnesses)
           st == IF F # {} THEN "reported"
                 ELSE IF k.witnesses # {} /\ k.status = "hidden" THEN "witnessed" ELSE k.status
<1>1. F \subseteq Factions
  BY FactionsOfType DEF Crime
<1>2. AfterConsequences(k) = [k EXCEPT !.status = st, !.reportedTo = @ \cup F, !.applied = @ + 1]
  BY Zenon DEF AfterConsequences
<1>3. st \in {"hidden", "witnessed", "reported"}
  BY DEF Crime
<1>4. k.reportedTo \cup F \in SUBSET (Factions \cup {"local_authority"}) /\ k.applied + 1 \in Nat
  BY <1>1 DEF Crime
<1> HIDE DEF st, F
<1> DEFINE k1 == [k EXCEPT !.status = st]
           k2 == [k1 EXCEPT !.reportedTo = k.reportedTo \cup F]
           k3 == [k2 EXCEPT !.applied = k.applied + 1]
<1>5. k1 \in Crime /\ k1.witnesses = k.witnesses /\ k1.reportedTo = k.reportedTo /\ k1.applied = k.applied
  BY <1>3 DEF Crime
<1>6. k2 \in Crime /\ k2.witnesses = k.witnesses /\ k2.applied = k.applied
  <2> HIDE DEF k1
  <2> QED BY <1>4, <1>5 DEF Crime
<1>7. k3 \in Crime /\ k3.witnesses = k.witnesses
  <2> HIDE DEF k1, k2
  <2> QED BY <1>4, <1>6 DEF Crime
<1>8. k3 = AfterConsequences(k)
  BY <1>2
<1> QED BY <1>7, <1>8

ReportedRecord(k) ==
    [k EXCEPT !.status = "reported", !.reportedTo = @ \cup {"local_authority"}]

LEMMA ReportedType ==
    ASSUME NEW k \in Crime
    PROVE  ReportedRecord(k) \in Crime /\ ReportedRecord(k).witnesses = k.witnesses
<1> DEFINE k1 == [k EXCEPT !.status = "reported"]
           k2 == [k1 EXCEPT !.reportedTo = k.reportedTo \cup {"local_authority"}]
<1>1. k1 \in Crime /\ k1.witnesses = k.witnesses /\ k1.reportedTo = k.reportedTo
  BY DEF Crime
<1>2. k2 \in Crime /\ k2.witnesses = k.witnesses
  <2>1. k.reportedTo \cup {"local_authority"} \in SUBSET (Factions \cup {"local_authority"})
    BY DEF Crime
  <2> HIDE DEF k1
  <2> QED BY <1>1, <2>1 DEF Crime
<1>3. k2 = ReportedRecord(k)
  BY DEF ReportedRecord
<1> QED BY <1>2, <1>3

-----------------------------------------------------------------------------
(***************************************************************************)
(* Types are inductive by themselves.                                      *)
(***************************************************************************)

PhaseSet == [name : PhaseNames, npc : 1..N \cup {1}]
ActSet == [crime : {TRUE}, type : {"lockpicking", "theft", "assault", "murder"},
           severity : 1..5, victim : 0..N]
CrimesOK == DOMAIN crimes \subseteq CrimeIds /\ \A c \in DOMAIN crimes : crimes[c] \in Crime
RumorsOK == DOMAIN rumors \subseteq CrimeIds /\ \A r \in DOMAIN rumors : rumors[r] \in Rumor

LEMMA TypeParts ==
    TypeOK <=> /\ phase \in PhaseSet /\ act \in {NoAct} \cup ActSet
               /\ here \in Places /\ at \in [Npcs -> Places]
               /\ condition \in [Npcs -> Conditions] /\ trust \in [Npcs -> Int]
               /\ CrimesOK /\ RumorsOK
               /\ rep \in [Factions -> Int] /\ alert \in [Factions -> Int]
BY Zenon DEF TypeOK, PhaseSet, ActSet, CrimesOK, RumorsOK

LEMMA PhaseType == \A name \in PhaseNames : Phase(name) \in PhaseSet
BY DEF Phase, PhaseSet

LEMMA NextNpcType ==
    ASSUME phase \in PhaseSet, NEW after \in PhaseNames, NextNpc(after)
    PROVE  phase' \in PhaseSet
<1>1. N \in Nat
  BY WorldAssumption
<1>2. CASE phase.npc < N
  <2>1. phase.npc + 1 \in 1..N
    BY <1>1, <1>2 DEF PhaseSet
  <2>2. phase' = [phase EXCEPT !.npc = @ + 1]
    BY <1>2 DEF NextNpc
  <2> QED BY <2>1, <2>2 DEF PhaseSet
<1>3. CASE ~(phase.npc < N)
  BY <1>3, PhaseType DEF NextNpc
<1> QED BY <1>2, <1>3

LEMMA ActType ==
    ASSUME NEW type \in {"lockpicking", "theft", "assault", "murder"},
           NEW severity \in 1..5, NEW v \in 0..N
    PROVE  CrimeAct(type, severity, v) \in ActSet
BY DEF CrimeAct, ActSet

\* A witness less, a crime more: reputations stay numbers.
LEMMA ReputationType ==
    ASSUME rep \in [Factions -> Int], NEW k \in Crime, LoseReputation(k)
    PROVE  rep' \in [Factions -> Int]
<1>1. \A f \in Factions : Cardinality(k.witnesses \cap Members(f)) \in Nat
  <2> TAKE f \in Factions
  <2>1. k.witnesses \cap Members(f) \in SUBSET Npcs
    BY DEF Crime
  <2> QED BY <2>1, NpcsFinite
<1>2. k.severity \in Int
  BY DEF Crime
<1>3. \A x \in Int, y \in Int, z \in Nat : x - y * z \in Int
  OBVIOUS
<1>4. \A f \in Factions : rep[f] - k.severity * Cardinality(k.witnesses \cap Members(f)) \in Int
  BY <1>1, <1>2, <1>3
<1> QED BY <1>4 DEF LoseReputation

LEMMA StartRumorType ==
    ASSUME RumorsOK, NEW c \in CrimeIds, NEW W \in SUBSET Npcs, StartRumor(c, W)
    PROVE  RumorsOK'
<1>1. CASE c \in DOMAIN rumors \/ W = {}
  BY <1>1 DEF StartRumor, RumorsOK
<1>2. CASE c \notin DOMAIN rumors /\ W # {}
  <2>1. RumorOf(W) \in Rumor
    BY <1>2, RumorOfSeen
  <2>2. rumors' = [r \in DOMAIN rumors \cup {c} |-> IF r = c THEN RumorOf(W) ELSE rumors[r]]
    BY <1>2 DEF StartRumor
  <2> QED BY <2>1, <2>2 DEF RumorsOK
<1> QED BY <1>1, <1>2

\* Telling a rumor adds one who did not know it, and who can act.
LEMMA Told ==
    ASSUME RumorsOK, NEW n, NEW r \in DOMAIN rumors, Hearers(n, r) # {}, Tell(n, r)
    PROVE  /\ RumorsOK'
           /\ \E m \in Npcs \ rumors[r].knownBy, R \in Rumor :
                /\ CanAct(m)
                /\ rumors' = [rumors EXCEPT ![r] = R]
                /\ R.knownBy = rumors[r].knownBy \cup {m} /\ R.spread = rumors[r].spread + 1
<1> DEFINE m == Least(Hearers(n, r))
           q == rumors[r]
           q1 == [q EXCEPT !.knownBy = @ \cup {m}]
           R == [q1 EXCEPT !.spread = @ + 1]
<1>1. Hearers(n, r) \subseteq Npcs \ rumors[r].knownBy /\ \A x \in Hearers(n, r) : CanAct(x)
  BY DEF Hearers
<1>2. m \in Npcs \ rumors[r].knownBy /\ CanAct(m)
  BY <1>1, LeastIn, NpcsFinite
<1>3. rumors' = [rumors EXCEPT ![r].knownBy = @ \cup {m}, ![r].spread = @ + 1]
  BY DEF Tell
<1> HIDE DEF m
<1>4. q \in Rumor
  BY DEF RumorsOK
<1>5. q1 \in Rumor /\ q1.knownBy = q.knownBy \cup {m} /\ q1.spread = q.spread
  <2> HIDE DEF q
  <2> QED BY <1>2, <1>4 DEF Rumor
<1>6. R \in Rumor /\ R.knownBy = q.knownBy \cup {m} /\ R.spread = q.spread + 1
  <2> HIDE DEF q, q1
  <2> QED BY <1>5 DEF Rumor
<1>7. rumors' = [rumors EXCEPT ![r] = R]
  BY <1>3
<1> HIDE DEF q1, R
<1>8. RumorsOK'
  BY <1>6, <1>7 DEF RumorsOK
<1> QED BY <1>2, <1>6, <1>7, <1>8

\* The rumor and the teller that Gossip and Plan choose are there to choose.
LEMMA GossipPicks ==
    ASSUME RumorsOK, {r \in DOMAIN rumors : Tellers(r) # {}} # {}
    PROVE  LET r == Least({q \in DOMAIN rumors : Tellers(q) # {}})
           IN  r \in DOMAIN rumors /\ Hearers(Least(Tellers(r)), r) # {}
<1> DEFINE told == {r \in DOMAIN rumors : Tellers(r) # {}}
           r == Least(told)
<1>1. r \in told
  BY LeastIn, WorldAssumption DEF RumorsOK
<1> HIDE DEF r
<1>2. Tellers(r) # {} /\ Tellers(r) \subseteq Npcs
  BY <1>1 DEF Tellers, RumorsOK, Rumor
<1>3. Least(Tellers(r)) \in Tellers(r)
  BY <1>2, LeastIn, NpcsFinite
<1>4. r \in DOMAIN rumors /\ Hearers(Least(Tellers(r)), r) # {}
  BY <1>1, <1>3 DEF Tellers
<1> QED BY <1>4 DEF r

LEMMA PlanPicks ==
    ASSUME RumorsOK, NEW n, Tellable(n) # {}
    PROVE  Least(Tellable(n)) \in DOMAIN rumors /\ Hearers(n, Least(Tellable(n))) # {}
<1>1. Tellable(n) \subseteq DOMAIN rumors
  BY DEF Tellable
<1>2. Least(Tellable(n)) \in Tellable(n)
  BY <1>1, LeastIn, WorldAssumption DEF RumorsOK
<1> QED BY <1>2 DEF Tellable

LEMMA InitTypes == Init => TypeOK
<1> SUFFICES ASSUME Init PROVE TypeOK
  OBVIOUS
<1>1. phase \in PhaseSet
  BY PhaseType DEF Init, PhaseNames
<1>2. "healthy" \in Conditions
  BY DEF Conditions, Ranks
<1>3. /\ here \in Places /\ at \in [Npcs -> Places]
      /\ condition \in [Npcs -> Conditions] /\ trust \in [Npcs -> Int]
      /\ rep \in [Factions -> Int] /\ alert \in [Factions -> Int]
  BY <1>2, WorldAssumption DEF Init
<1>4. CrimesOK /\ RumorsOK
  <2>1. crimes = << >> /\ rumors = << >> /\ DOMAIN << >> = {}
    BY DEF Init
  <2> QED BY <2>1 DEF CrimesOK, RumorsOK
<1> QED BY <1>1, <1>3, <1>4, TypeParts DEF Init

\* The incidents of a tick raise alert levels by whole numbers.
LEMMA IncidentAmount ==
    ASSUME CrimesOK, NEW i \in Incidents
    PROVE  i.amount \in Int
<1>1. CASE i \in CrimeIncidents
  <2>1. PICK c \in DOMAIN crimes :
          i = Incident(<<"crime", c>>, FactionOf[crimes[c].victim], crimes[c].severity)
    BY <1>1 DEF CrimeIncidents
  <2>2. crimes[c].severity \in Int
    BY DEF CrimesOK, Crime
  <2>3. i.amount = crimes[c].severity
    BY <2>1 DEF Incident
  <2> QED BY <2>2, <2>3
<1>2. CASE i \in RumorIncidents
  BY <1>2 DEF RumorIncidents, Incident
<1>3. CASE i \in BandIncidents
  BY <1>3 DEF BandIncidents, Incident
<1> QED BY <1>1, <1>2, <1>3 DEF Incidents

LEMMA NextKeepsTypes ==
    ASSUME TypeOK, [Next]_vars
    PROVE  TypeOK'
<1>1. /\ phase \in PhaseSet /\ act \in {NoAct} \cup ActSet
      /\ here \in Places /\ at \in [Npcs -> Places]
      /\ condition \in [Npcs -> Conditions] /\ trust \in [Npcs -> Int]
      /\ CrimesOK /\ RumorsOK
      /\ rep \in [Factions -> Int] /\ alert \in [Factions -> Int]
  BY TypeParts
<1>2. SUFFICES /\ phase' \in PhaseSet /\ act' \in {NoAct} \cup ActSet
               /\ here' \in Places /\ at' \in [Npcs -> Places]
               /\ condition' \in [Npcs -> Conditions] /\ trust' \in [Npcs -> Int]
               /\ CrimesOK' /\ RumorsOK'
               /\ rep' \in [Factions -> Int] /\ alert' \in [Factions -> Int]
  BY Zenon DEF TypeOK, PhaseSet, ActSet, CrimesOK, RumorsOK, NoAct, PhaseNames
<1> USE <1>1
<1>3. CASE UNCHANGED vars
  BY <1>3 DEF vars, CrimesOK, RumorsOK
<1>4. ASSUME UNCHANGED social
      PROVE  /\ trust' \in [Npcs -> Int] /\ CrimesOK' /\ RumorsOK'
             /\ rep' \in [Factions -> Int] /\ alert' \in [Factions -> Int]
  BY <1>4 DEF social, CrimesOK, RumorsOK
<1>5. ASSUME NEW a \in {NoAct} \cup ActSet, Succeeds(a) \/ Fails(a)
      PROVE  phase' \in PhaseSet /\ act' \in {NoAct} \cup ActSet
  BY <1>5, PhaseType DEF Succeeds, Fails, PhaseNames
<1>6. \A name \in PhaseNames : Phase(name) \in PhaseSet
  BY PhaseType
<1>7. CASE Play
  <2>1. CASE Wait
    BY <1>4, <1>5, <2>1 DEF Wait, body
  <2>2. CASE Move
    BY <1>4, <1>5, <2>2, WorldAssumption DEF Move
  <2>3. CASE Lockpick \/ Buy
    <3>1. /\ CrimeAct("lockpicking", 1, 0) \in ActSet /\ CrimeAct("lockpicking", 2, 0) \in ActSet
          /\ CrimeAct("theft", 2, 0) \in ActSet
      BY ActType, WorldAssumption
    <3> QED BY <1>4, <1>5, <2>3, <3>1 DEF Lockpick, Buy, body
  <2>4. ASSUME NEW n \in Npcs
        PROVE  /\ CrimeAct("murder", 5, n) \in ActSet
               /\ CrimeAct("assault", 3, n) \in ActSet
    <3>1. n \in 0..N
      BY WorldAssumption DEF Npcs
    <3> QED BY <3>1, ActType
  <2>5. ASSUME NEW n \in Npcs, AttackInVain(n)
        PROVE  <1>2!1
    BY <1>4, <1>5, <2>4, <2>5 DEF AttackInVain, body
  <2>6. ASSUME NEW n \in Npcs, NEW hit \in Conditions, Attack(n, hit)
        PROVE  <1>2!1
    <3>1. condition' \in [Npcs -> Conditions] /\ UNCHANGED <<here, at, social>>
      BY <2>6 DEF Attack
    <3>2. PICK a \in ActSet : Succeeds(a)
      BY <2>4, <2>6 DEF Attack
    <3> QED BY <1>4, <1>5, <3>1, <3>2
  <2> QED BY <1>7, <2>1, <2>2, <2>3, <2>5, <2>6 DEF Play
<1>8. CASE Tick
  <2>1. ASSUME NEW t \in Times, FollowSchedule(t)
        PROVE  <1>2!1
    <3>1. at' \in [Npcs -> Places]
      BY <2>1, WorldAssumption DEF FollowSchedule
    <3> QED BY <1>4, <1>6, <2>1, <3>1 DEF FollowSchedule, PhaseNames
  <2>2. CASE Report
    <3>1. PICK c \in DOMAIN crimes :
            /\ crimes' = [crimes EXCEPT ![c] = AfterConsequences(@)]
            /\ LoseReputation(crimes[c])
            /\ StartRumor(c, crimes[c].witnesses)
            /\ UNCHANGED <<phase, act, body, trust, alert>>
      BY <2>2 DEF Report
    <3>2. c \in CrimeIds /\ crimes[c] \in Crime /\ crimes[c].witnesses \in SUBSET Npcs
      BY DEF CrimesOK, Crime
    <3>3. rep' \in [Factions -> Int] /\ RumorsOK'
      BY <3>1, <3>2, ReputationType, StartRumorType
    <3>4. CrimesOK'
      BY <3>1, <3>2, AfterConsequencesType DEF CrimesOK
    <3> QED BY <3>1, <3>3, <3>4 DEF body
  <2>3. CASE Gossip
    <3>1. RumorsOK'
      <4> DEFINE told == {r \in DOMAIN rumors : Tellers(r) # {}}
      <4>1. CASE told = {}
        BY <2>3, <4>1 DEF Gossip, RumorsOK
      <4>2. CASE told # {}
        <5> DEFINE r == Least(told)
                   t == Least(Tellers(r))
        <5>1. r \in DOMAIN rumors /\ Hearers(t, r) # {}
          BY <4>2, GossipPicks
        <5>2. Tell(t, r)
          BY <2>3, <4>2 DEF Gossip
        <5> HIDE DEF r, t
        <5> QED BY <5>1, <5>2, Told
      <4> QED BY <4>1, <4>2
    <3> QED BY <1>6, <2>3, <3>1 DEF Gossip, body, CrimesOK, PhaseNames
  <2>4. CASE Conflict
    <3>1. PICK i \in NewIncidents : /\ alert' = [alert EXCEPT ![i.faction] = @ + i.amount]
                                    /\ UNCHANGED <<phase, act, body, trust, crimes, rumors, rep>>
      BY <2>4 DEF Conflict
    <3>2. i.amount \in Int
      BY IncidentAmount DEF NewIncidents
    <3>3. i.faction \in Factions => alert[i.faction] + i.amount \in Int
      BY <3>2
    <3>4. alert' \in [Factions -> Int]
      BY <3>1, <3>3, ExceptType
    <3> QED BY <3>1, <3>4 DEF body, CrimesOK, RumorsOK
  <2>5. CASE ConflictsDone
    BY <1>4, <1>6, <2>5 DEF ConflictsDone, body, PhaseNames
  <2>6. CASE LoseTrust
    <3>1. PICK c \in DOMAIN crimes : trust' = [trust EXCEPT ![phase.npc] = @ - crimes[c].severity]
      BY <2>6 DEF LoseTrust
    <3>2. crimes[c].severity \in Int
      BY DEF CrimesOK, Crime
    <3>3. phase.npc \in Npcs => trust[phase.npc] - crimes[c].severity \in Int
      BY <3>2
    <3>4. trust' \in [Npcs -> Int]
      BY <3>1, <3>3, ExceptType
    <3> QED BY <2>6, <3>4 DEF LoseTrust, body, CrimesOK, RumorsOK
  <2>7. CASE React
    <3>1. NextNpc("plan") /\ UNCHANGED <<act, here, condition, trust, crimes, rumors, rep, alert>>
          /\ (at' = at \/ at' = [at EXCEPT ![phase.npc] = Exit[@]])
      BY <2>7 DEF React
    <3>2. phase' \in PhaseSet
      BY <3>1, NextNpcType DEF PhaseNames
    <3>3. at' \in [Npcs -> Places]
      BY <3>1, WorldAssumption
    <3> QED BY <3>1, <3>2, <3>3 DEF CrimesOK, RumorsOK
  <2>8. CASE Plan
    <3> DEFINE n == phase.npc
               c == Least(Reportable(n))
    <3>1. NextNpc("record") /\ UNCHANGED <<act, body, trust, rep, alert, flags>>
      BY <2>8 DEF Plan
    <3>2. phase' \in PhaseSet
      BY <3>1, NextNpcType DEF PhaseNames
    <3>3. CASE /\ Reportable(n) # {} /\ UNCHANGED rumors
               /\ crimes' = [crimes EXCEPT ![c].status = "reported",
                                           ![c].reportedTo = @ \cup {"local_authority"}]
      <4>1. c \in DOMAIN crimes
        <5>1. Reportable(n) \subseteq DOMAIN crimes
          BY DEF Reportable
        <5> QED BY <3>3, <5>1, LeastIn, WorldAssumption DEF CrimesOK
      <4>2. ReportedRecord(crimes[c]) \in Crime
        BY <4>1, ReportedType DEF CrimesOK
      <4>3. CrimesOK'
        <5> HIDE DEF c
        <5>1. crimes' = [crimes EXCEPT ![c] = ReportedRecord(@)]
          BY <3>3, <4>1 DEF ReportedRecord
        <5> QED BY <4>1, <4>2, <5>1 DEF CrimesOK
      <4> QED BY <3>1, <3>2, <3>3, <4>3 DEF body, RumorsOK
    <3>4. CASE /\ Tellable(n) # {} /\ Tell(n, Least(Tellable(n))) /\ UNCHANGED crimes
      <4>1. Least(Tellable(n)) \in DOMAIN rumors /\ Hearers(n, Least(Tellable(n))) # {}
        BY <3>4, PlanPicks
      <4>2. RumorsOK'
        BY <3>4, <4>1, Told
      <4> QED BY <3>1, <3>2, <3>4, <4>2 DEF body, CrimesOK
    <3>5. CASE UNCHANGED <<crimes, rumors>>
      BY <3>1, <3>2, <3>5 DEF body, CrimesOK, RumorsOK
    <3> QED BY <2>8, <3>3, <3>4, <3>5 DEF Plan
  <2>9. CASE NoCrime
    BY <1>4, <1>6, <2>9 DEF NoCrime, body, PhaseNames
  <2>10. ASSUME NEW c \in CrimeIds, NEW W \in SUBSET Npcs, RecordCrime(c, W)
         PROVE  <1>2!1
    <3>1. act \in ActSet
      BY <2>10 DEF RecordCrime, NoAct
    <3>2. NewCrime(W) \in Crime
      BY <3>1 DEF NewCrime, ActSet, Crime
    <3>3. AfterConsequences(NewCrime(W)) \in Crime
      BY <3>2, AfterConsequencesType
    <3>4. rep' \in [Factions -> Int] /\ RumorsOK'
      BY <2>10, <3>2, ReputationType, StartRumorType DEF RecordCrime
    <3>5. CrimesOK'
      BY <2>10, <3>3 DEF RecordCrime, CrimesOK
    <3> QED BY <1>6, <2>10, <3>4, <3>5 DEF RecordCrime, body, PhaseNames
  <2> QED BY <1>8, <2>1, <2>2, <2>3, <2>4, <2>5, <2>6, <2>7, <2>8, <2>9, <2>10 DEF Tick
<1> QED BY <1>3, <1>7, <1>8 DEF Next

\* Every NPC, crime, rumor, reputation and alert level keeps its type.
THEOREM TypeCorrect == Spec => []TypeOK
<1>1. TypeOK /\ [Next]_vars => TypeOK'
  BY NextKeepsTypes
<1> QED BY InitTypes, <1>1, PTL DEF Spec

-----------------------------------------------------------------------------
(***************************************************************************)
(* Those who cannot act stay out of it.  Each action that moves, tells or  *)
(* takes a witness asks can_act of the very NPC it changes.                *)
(***************************************************************************)

LEMMA UnableStep ==
    ASSUME TypeOK, [Next]_vars, NEW n \in Npcs, ~CanAct(n)
    PROVE  StaysOut(n)
<1> USE DEF StaysOut
<1>1. CrimesOK /\ RumorsOK /\ at \in [Npcs -> Places] /\ trust \in [Npcs -> Int]
  BY TypeParts
<1>2. CASE UNCHANGED <<at, trust, rumors, crimes>>
  BY <1>2
<1>3. CASE UNCHANGED vars
  BY <1>2, <1>3 DEF vars
<1>4. CASE Play
  BY <1>2, <1>4 DEF Play, Wait, Move, Lockpick, Buy, Attack, AttackInVain, body, social
<1>5. CASE \E t \in Times : FollowSchedule(t)
  BY <1>1, <1>5 DEF FollowSchedule, social
<1>6. CASE Report
  <2>1. PICK c \in DOMAIN crimes :
          /\ crimes' = [crimes EXCEPT ![c] = AfterConsequences(@)]
          /\ StartRumor(c, crimes[c].witnesses)
          /\ UNCHANGED <<at, trust>>
    BY <1>6 DEF Report, body
  <2>2. \A r \in DOMAIN rumors : rumors'[r] = rumors[r]
    BY <2>1 DEF StartRumor
  <2>3. DOMAIN crimes' = DOMAIN crimes
    BY <2>1
  <2> QED BY <2>1, <2>2, <2>3
<1>7. ASSUME NEW t, NEW r \in DOMAIN rumors, Hearers(t, r) # {}, Tell(t, r),
             UNCHANGED <<at, trust>>, DOMAIN crimes' = DOMAIN crimes
      PROVE  StaysOut(n)
  <2>1. PICK m \in Npcs \ rumors[r].knownBy, R \in Rumor :
          /\ CanAct(m) /\ rumors' = [rumors EXCEPT ![r] = R]
          /\ R.knownBy = rumors[r].knownBy \cup {m}
    BY <1>1, <1>7, Told
  <2> QED BY <1>7, <2>1
<1>8. CASE Gossip
  <2> DEFINE told == {r \in DOMAIN rumors : Tellers(r) # {}}
             r == Least(told)
             t == Least(Tellers(r))
  <2>1. UNCHANGED <<at, trust, crimes>>
    BY <1>8 DEF Gossip, body
  <2>2. CASE told = {}
    BY <1>2, <1>8, <2>1, <2>2 DEF Gossip
  <2>3. CASE told # {}
    <3>1. r \in DOMAIN rumors /\ Hearers(t, r) # {}
      BY <1>1, <2>3, GossipPicks
    <3>2. Tell(t, r)
      BY <1>8, <2>3 DEF Gossip
    <3> HIDE DEF r, t
    <3> QED BY <1>7, <2>1, <3>1, <3>2
  <2> QED BY <2>2, <2>3
<1>9. CASE Conflict \/ ConflictsDone \/ NoCrime
  BY <1>2, <1>9 DEF Conflict, ConflictsDone, NoCrime, body, social
<1>10. CASE LoseTrust
  <2>1. CanAct(phase.npc)
    BY <1>10 DEF LoseTrust
  <2>2. PICK v : trust' = [trust EXCEPT ![phase.npc] = v]
    BY <1>10 DEF LoseTrust
  <2>3. UNCHANGED <<at, rumors, crimes>>
    BY <1>10 DEF LoseTrust, body
  <2> QED BY <1>1, <2>1, <2>2, <2>3
<1>11. CASE React
  <2>1. at' = at \/ (CanAct(phase.npc) /\ at' = [at EXCEPT ![phase.npc] = Exit[@]])
    BY <1>11 DEF React
  <2>2. UNCHANGED <<trust, rumors, crimes>>
    BY <1>11 DEF React
  <2> QED BY <1>1, <2>1, <2>2
<1>12. CASE Plan
  <2> DEFINE p == phase.npc
             r == Least(Tellable(p))
  <2>1. UNCHANGED <<at, trust>> /\ DOMAIN crimes' = DOMAIN crimes
    BY <1>12 DEF Plan, body
  <2>2. CASE UNCHANGED rumors
    BY <2>1, <2>2
  <2>3. CASE Tellable(p) # {} /\ Tell(p, r)
    <3>1. r \in DOMAIN rumors /\ Hearers(p, r) # {}
      BY <1>1, <2>3, PlanPicks
    <3> HIDE DEF r, p
    <3> QED BY <1>7, <2>1, <2>3, <3>1
  <2> QED BY <1>12, <2>2, <2>3 DEF Plan
<1>13. ASSUME NEW c \in CrimeIds, NEW W \in SUBSET Npcs, RecordCrime(c, W)
       PROVE  StaysOut(n)
  <2>1. n \notin W /\ NewCrime(W).witnesses = W
    BY <1>13 DEF RecordCrime, MayWitness, NewCrime
  <2>2. UNCHANGED <<at, trust>>
    BY <1>13 DEF RecordCrime, body
  <2>3. \A r \in DOMAIN rumors : rumors'[r] = rumors[r]
    BY <1>13 DEF RecordCrime, StartRumor
  <2>4. AfterConsequences(NewCrime(W)).witnesses = W
    <3>1. act \in ActSet
      BY <1>13, TypeParts DEF RecordCrime, NoAct
    <3>2. NewCrime(W) \in Crime
      BY <3>1 DEF NewCrime, ActSet, Crime
    <3> QED BY <2>1, <3>2, AfterConsequencesType
  <2>5. DOMAIN crimes' \ DOMAIN crimes \subseteq {c} /\ crimes'[c] = AfterConsequences(NewCrime(W))
    BY <1>13 DEF RecordCrime
  <2> QED BY <2>1, <2>2, <2>3, <2>4, <2>5
<1> QED BY <1>3, <1>4, <1>5, <1>6, <1>8, <1>9, <1>10, <1>11, <1>12, <1>13 DEF Next, Tick

\* An NPC that is incapacitated or dead neither moves nor hears, witnesses or
\* reacts to anything in any step of a tick.
THEOREM UnableTakeNoPart == Spec => UnableStayOut
<1>1. TypeOK /\ [Next]_vars => [\A n \in Npcs : ~CanAct(n) => StaysOut(n)]_vars
  BY UnableStep
<1> QED BY TypeCorrect, <1>1, PTL DEF Spec, UnableStayOut

-----------------------------------------------------------------------------
(***************************************************************************)
(* Rumors can be traced to a witness.  Given the types this is inductive:  *)
(* a new crime starts the rumor of its last witness, a report finds it     *)
(* there, and a telling adds one NPC and one to the spread.                *)
(***************************************************************************)

LEMMA TellKeepsTrace ==
    ASSUME CrimesOK, RumorsOK, RumorsTraceable,
           NEW t, NEW r \in DOMAIN rumors, Hearers(t, r) # {}, Tell(t, r),
           UNCHANGED crimes
    PROVE  RumorsTraceable'
<1>1. PICK m \in Npcs \ rumors[r].knownBy, R \in Rumor :
        /\ rumors' = [rumors EXCEPT ![r] = R]
        /\ R.knownBy = rumors[r].knownBy \cup {m} /\ R.spread = rumors[r].spread + 1
  BY Told
<1>2. rumors[r].knownBy \in SUBSET Npcs
  BY DEF RumorsOK, Rumor
<1>3. Cardinality(R.knownBy) = Cardinality(rumors[r].knownBy) + 1
  BY <1>1, <1>2, NpcsFinite, FS_AddElement
<1>4. R.spread = Cardinality(R.knownBy) /\ R.knownBy \cap crimes[r].witnesses # {}
  BY <1>1, <1>3 DEF RumorsTraceable
<1>5. DOMAIN rumors' = DOMAIN rumors /\ rumors'[r] = R
      /\ \A q \in DOMAIN rumors \ {r} : rumors'[q] = rumors[q]
  BY <1>1
<1>6. DOMAIN rumors' = {c \in DOMAIN crimes' : crimes'[c].witnesses # {}}
  BY <1>5 DEF RumorsTraceable
<1>7. ASSUME NEW q \in DOMAIN rumors'
      PROVE  /\ rumors'[q].spread = Cardinality(rumors'[q].knownBy)
             /\ rumors'[q].knownBy \cap crimes'[q].witnesses # {}
  <2>1. CASE q = r
    BY <2>1, <1>4, <1>5
  <2>2. CASE q # r
    BY <2>2, <1>5 DEF RumorsTraceable
  <2> QED BY <2>1, <2>2
<1> QED BY <1>6, <1>7 DEF RumorsTraceable

\* The records may change as long as crimes and witnesses stay.
LEMMA SameWitnesses ==
    ASSUME RumorsTraceable, UNCHANGED rumors, DOMAIN crimes' = DOMAIN crimes,
           \A c \in DOMAIN crimes : crimes'[c].witnesses = crimes[c].witnesses
    PROVE  RumorsTraceable'
BY DEF RumorsTraceable

LEMMA NextKeepsTrace ==
    ASSUME TypeOK, RumorsTraceable, [Next]_vars
    PROVE  RumorsTraceable'
<1>1. CrimesOK /\ RumorsOK
  BY TypeParts
<1>2. CASE UNCHANGED <<rumors, crimes>>
  BY <1>2, SameWitnesses
<1>3. CASE UNCHANGED vars
  BY <1>2, <1>3 DEF vars
<1>4. CASE Play
  BY <1>2, <1>4 DEF Play, Wait, Move, Lockpick, Buy, Attack, AttackInVain, social
<1>5. CASE \/ \E t \in Times : FollowSchedule(t)
           \/ Conflict \/ ConflictsDone \/ LoseTrust \/ React \/ NoCrime
  BY <1>2, <1>5 DEF FollowSchedule, Conflict, ConflictsDone, LoseTrust, React, NoCrime, social
<1>6. CASE Report
  <2>1. PICK c \in DOMAIN crimes :
          /\ crimes[c].witnesses # {}
          /\ crimes' = [crimes EXCEPT ![c] = AfterConsequences(@)]
          /\ StartRumor(c, crimes[c].witnesses)
    BY <1>6 DEF Report, DueForReport
  <2>2. UNCHANGED rumors
    BY <2>1 DEF StartRumor, RumorsTraceable
  <2>3. AfterConsequences(crimes[c]).witnesses = crimes[c].witnesses
    BY <1>1, AfterConsequencesType DEF CrimesOK
  <2> QED BY <2>1, <2>2, <2>3, SameWitnesses
<1>7. CASE Gossip
  <2> DEFINE told == {r \in DOMAIN rumors : Tellers(r) # {}}
             r == Least(told)
             t == Least(Tellers(r))
  <2>1. UNCHANGED crimes
    BY <1>7 DEF Gossip
  <2>2. CASE told = {}
    BY <1>2, <1>7, <2>1, <2>2 DEF Gossip
  <2>3. CASE told # {}
    <3>1. r \in DOMAIN rumors /\ Hearers(t, r) # {}
      BY <1>1, <2>3, GossipPicks
    <3>2. Tell(t, r)
      BY <1>7, <2>3 DEF Gossip
    <3> HIDE DEF r, t
    <3> QED BY <1>1, <2>1, <3>1, <3>2, TellKeepsTrace
  <2> QED BY <2>2, <2>3
<1>8. CASE Plan
  <2> DEFINE n == phase.npc
             c == Least(Reportable(n))
             r == Least(Tellable(n))
  <2>1. CASE /\ Reportable(n) # {} /\ UNCHANGED rumors
             /\ crimes' = [crimes EXCEPT ![c].status = "reported",
                                         ![c].reportedTo = @ \cup {"local_authority"}]
    <3>1. c \in DOMAIN crimes
      <4>1. Reportable(n) \subseteq DOMAIN crimes
        BY DEF Reportable
      <4> QED BY <1>1, <2>1, <4>1, LeastIn, WorldAssumption DEF CrimesOK
    <3> HIDE DEF c
    <3>2. crimes' = [crimes EXCEPT ![c] = ReportedRecord(@)]
      BY <2>1, <3>1 DEF ReportedRecord
    <3>3. ReportedRecord(crimes[c]).witnesses = crimes[c].witnesses
      BY <1>1, <3>1, ReportedType DEF CrimesOK
    <3> QED BY <2>1, <3>1, <3>2, <3>3, SameWitnesses
  <2>2. CASE Tellable(n) # {} /\ Tell(n, r) /\ UNCHANGED crimes
    <3>1. r \in DOMAIN rumors /\ Hearers(n, r) # {}
      BY <1>1, <2>2, PlanPicks
    <3> HIDE DEF r, n
    <3> QED BY <1>1, <2>2, <3>1, TellKeepsTrace
  <2>3. CASE UNCHANGED <<crimes, rumors>>
    BY <1>2, <2>3
  <2> QED BY <1>8, <2>1, <2>2, <2>3 DEF Plan
<1>9. ASSUME NEW c \in CrimeIds, NEW W \in SUBSET Npcs, RecordCrime(c, W)
      PROVE  RumorsTraceable'
  <2> DEFINE k == AfterConsequences(NewCrime(W))
  <2>1. NewCrime(W) \in Crime /\ NewCrime(W).witnesses = W
    <3>1. act \in ActSet
      BY <1>9, TypeParts DEF RecordCrime, NoAct
    <3> QED BY <3>1 DEF NewCrime, ActSet, Crime
  <2>2. k.witnesses = W
    BY <2>1, AfterConsequencesType
  <2>3. /\ c \notin DOMAIN crimes /\ c \notin DOMAIN rumors
        /\ DOMAIN crimes' = DOMAIN crimes \cup {c}
        /\ crimes'[c] = k /\ \A d \in DOMAIN crimes : crimes'[d] = crimes[d]
    <3> HIDE DEF k
    <3> QED BY <1>9 DEF RecordCrime, RumorsTraceable, k
  <2> HIDE DEF k
  <2>4. CASE W = {}
    <3>1. UNCHANGED rumors
      BY <1>9, <2>4 DEF RecordCrime, StartRumor
    <3> QED BY <2>2, <2>3, <2>4, <3>1 DEF RumorsTraceable
  <2>5. CASE W # {}
    <3>1. /\ RumorOf(W).knownBy = {Greatest(W)} /\ Greatest(W) \in W
          /\ RumorOf(W).spread = Cardinality(RumorOf(W).knownBy)
      BY <2>5, RumorOfSeen, FS_Singleton
    <3>2. rumors' = [r \in DOMAIN rumors \cup {c} |-> IF r = c THEN RumorOf(W) ELSE rumors[r]]
      BY <1>9, <2>3, <2>5 DEF RecordCrime, StartRumor
    <3>3. DOMAIN rumors' = DOMAIN rumors \cup {c} /\ rumors'[c] = RumorOf(W)
          /\ \A r \in DOMAIN rumors : rumors'[r] = rumors[r]
      BY <2>3, <3>2
    <3>4. DOMAIN rumors' = {d \in DOMAIN crimes' : crimes'[d].witnesses # {}}
      BY <2>2, <2>3, <2>5, <3>3 DEF RumorsTraceable
    <3>5. ASSUME NEW r \in DOMAIN rumors'
          PROVE  /\ rumors'[r].spread = Cardinality(rumors'[r].knownBy)
                 /\ rumors'[r].knownBy \cap crimes'[r].witnesses # {}
      <4>1. CASE r = c
        BY <4>1, <2>2, <2>3, <3>1, <3>3
      <4>2. CASE r # c
        BY <4>2, <2>3, <3>3 DEF RumorsTraceable
      <4> QED BY <4>1, <4>2
    <3> QED BY <3>4, <3>5 DEF RumorsTraceable
  <2> QED BY <2>4, <2>5
<1> QED BY <1>3, <1>4, <1>5, <1>6, <1>7, <1>8, <1>9 DEF Next, Tick

\* Whoever was told what, and in whichever order crimes were seen, reported and
\* talked about: a rumor exists for exactly the crimes somebody saw, a witness
\* knows it, and its spread level counts those who do.
THEOREM Traceable == Spec => []RumorsTraceable
<1>1. Init => RumorsTraceable
  <2> SUFFICES ASSUME Init PROVE RumorsTraceable
    OBVIOUS
  <2>1. crimes = << >> /\ rumors = << >> /\ DOMAIN << >> = {}
    BY DEF Init
  <2> QED BY <2>1 DEF RumorsTraceable
<1>2. TypeOK /\ RumorsTraceable /\ [Next]_vars => RumorsTraceable'
  BY NextKeepsTrace
<1> QED BY TypeCorrect, <1>1, <1>2, PTL DEF Spec

-----------------------------------------------------------------------------
(***************************************************************************)
(* Reputations, alert levels and distrust are sums over the crimes.  For a *)
(* report of the tick to lose nothing a second time, a crime that is not   *)
(* reported must have been seen by nobody of a faction; for a reaction to  *)
(* count once, the flags must speak of recorded crimes only.               *)
(***************************************************************************)

UnreportedSeenByNone ==
    \A c \in DOMAIN crimes :
        crimes[c].status # "reported" => FactionsOf(crimes[c].witnesses) = {}

FlagsOfRecorded ==
    \A c \in CrimeIds \ DOMAIN crimes :
        /\ <<"crime", c>> \notin flags
        /\ \A f \in Factions : <<"rumor", c, f>> \notin flags
        /\ \A n \in Npcs : <<"trust", n, c>> \notin flags

BooksInv ==
    /\ IsFiniteSet(DOMAIN crimes) /\ UnreportedSeenByNone /\ FlagsOfRecorded
    /\ ReputationOnce /\ ReactionsOnce

\* A step that records no crime changes of the old ones the status only.
SameFacts ==
    /\ DOMAIN crimes' = DOMAIN crimes
    /\ \A c \in DOMAIN crimes :
          /\ crimes'[c].severity = crimes[c].severity
          /\ crimes'[c].witnesses = crimes[c].witnesses
          /\ crimes'[c].victim = crimes[c].victim

LEMMA SameFactsSame ==
    ASSUME SameFacts
    PROVE  /\ Severity' = Severity
           /\ \A f \in Factions : Resentment(f)' = Resentment(f)
<1>1. Severity' = Severity
  BY DEF SameFacts, Severity
<1>2. ASSUME NEW f \in Factions
      PROVE  Resentment(f)' = Resentment(f)
  BY DEF SameFacts, Resentment
<1>. QED
  BY <1>1, <1>2

LEMMA CrimeNumbers ==
    ASSUME CrimesOK, NEW c \in DOMAIN crimes
    PROVE  /\ Severity[c] \in Int /\ Severity[c] = crimes[c].severity
           /\ \A f \in Factions :
                /\ Resentment(f)[c] = crimes[c].severity * Cardinality(crimes[c].witnesses \cap Members(f))
                /\ Resentment(f)[c] \in Int
<1>1. crimes[c] \in Crime
  BY DEF CrimesOK
<1>2. crimes[c].severity \in Int /\ crimes[c].witnesses \in SUBSET Npcs
  BY <1>1 DEF Crime
<1>3. ASSUME NEW f \in Factions
      PROVE  /\ Resentment(f)[c] = crimes[c].severity * Cardinality(crimes[c].witnesses \cap Members(f))
             /\ Resentment(f)[c] \in Int
  <2>1. crimes[c].witnesses \cap Members(f) \in SUBSET Npcs
    BY <1>2
  <2>2. Cardinality(crimes[c].witnesses \cap Members(f)) \in Int
    BY <2>1, NpcsFinite
  <2>3. Resentment(f)[c] = crimes[c].severity * Cardinality(crimes[c].witnesses \cap Members(f))
    BY DEF Resentment
  <2>4. \A x \in Int, y \in Int : x * y \in Int
    OBVIOUS
  <2>. QED
    BY <1>2, <2>2, <2>3, <2>4
<1>. QED
  BY <1>2, <1>3 DEF Severity

\* The report of a crime that nobody of a faction saw costs no reputation.
LEMMA SeenByNone ==
    ASSUME rep \in [Factions -> Int], NEW k \in Crime, FactionsOf(k.witnesses) = {},
           LoseReputation(k)
    PROVE  rep' = rep
<1>1. ASSUME NEW f \in Factions
      PROVE  k.witnesses \cap Members(f) = {}
  BY WorldAssumption DEF FactionsOf, Members
<1>2. k.severity \in Int
  BY DEF Crime
<1>3. ASSUME NEW f \in Factions
      PROVE  rep[f] - k.severity * Cardinality(k.witnesses \cap Members(f)) = rep[f]
  <2>1. Cardinality(k.witnesses \cap Members(f)) = 0
    BY <1>1, FS_EmptySet
  <2>. QED
    BY <1>2, <2>1
<1>4. rep' = [f \in Factions |-> rep[f]]
  BY <1>3 DEF LoseReputation
<1>. QED
  BY <1>4

\* What the consequences and an NPC's report change of the record of a crime.
LEMMA AfterConsequencesFacts ==
    ASSUME NEW k \in Crime
    PROVE  /\ AfterConsequences(k).severity = k.severity
           /\ AfterConsequences(k).victim = k.victim
           /\ AfterConsequences(k).witnesses = k.witnesses
           /\ AfterConsequences(k).status # "reported" => FactionsOf(k.witnesses) = {}
BY DEF AfterConsequences, Crime

LEMMA ReportedFacts ==
    ASSUME NEW k \in Crime
    PROVE  /\ ReportedRecord(k).severity = k.severity
           /\ ReportedRecord(k).victim = k.victim
           /\ ReportedRecord(k).witnesses = k.witnesses
           /\ ReportedRecord(k).status = "reported"
BY DEF ReportedRecord, Crime

LEMMA KeepsReputation ==
    ASSUME ReputationOnce, SameFacts, rep' = rep
    PROVE  ReputationOnce'
<1>1. ASSUME NEW f \in Factions
      PROVE  rep'[f] = -SumFunction(Resentment(f)')
  <2>1. Resentment(f)' = Resentment(f)
    BY SameFactsSame
  <2>. QED
    BY <2>1 DEF ReputationOnce
<1>. QED
  BY <1>1 DEF ReputationOnce

\* What a step leaves of the dealings of a faction and of an NPC.
SameAnswers(f) == Answered(f)' = Answered(f) /\ Heard(f)' = Heard(f) /\ Bands(f)' = Bands(f)

LEMMA SameReactions ==
    ASSUME ReactionsOnce, SameFacts, UNCHANGED <<alert, trust>>,
           \A f \in Factions : SameAnswers(f),
           \A n \in Npcs : Held(n)' = Held(n)
    PROVE  ReactionsOnce'
<1>1. Severity' = Severity
  BY SameFactsSame
<1>2. ASSUME NEW f \in Factions
      PROVE  alert'[f] = SumFunctionOnSet(Severity', Answered(f)') + Cardinality(Heard(f)') + Bands(f)'
  BY <1>1 DEF ReactionsOnce, SameAnswers
<1>3. ASSUME NEW n \in Npcs
      PROVE  trust'[n] = -SumFunctionOnSet(Severity', Held(n)')
  BY <1>1 DEF ReactionsOnce
<1>. QED
  BY <1>2, <1>3 DEF ReactionsOnce

\* A flag that is not about a crime, a rumor or a band of the faction.
LEMMA OtherFlagAnswers ==
    ASSUME SameFacts, NEW f \in Factions, NEW x, flags' = flags \cup {x},
           \A c \in DOMAIN crimes : x # <<"crime", c>> /\ x # <<"rumor", c, f>>,
           x # <<"suspicious", f>>, x # <<"hostile", f>>
    PROVE  SameAnswers(f)
<1>1. Answered(f)' = Answered(f)
  <2>1. \A c \in DOMAIN crimes : (<<"crime", c>> \in flags' <=> <<"crime", c>> \in flags)
    OBVIOUS
  <2>. QED
    BY <2>1 DEF Answered, SameFacts
<1>2. Heard(f)' = Heard(f)
  <2>1. \A c \in DOMAIN crimes : (<<"rumor", c, f>> \in flags' <=> <<"rumor", c, f>> \in flags)
    OBVIOUS
  <2>. QED
    BY <2>1 DEF Heard, SameFacts
<1>3. Bands(f)' = Bands(f)
  BY DEF Bands
<1>. QED
  BY <1>1, <1>2, <1>3 DEF SameAnswers

LEMMA OtherFlagHeld ==
    ASSUME SameFacts, NEW n, NEW x, flags' = flags \cup {x},
           \A c \in DOMAIN crimes : x # <<"trust", n, c>>
    PROVE  Held(n)' = Held(n)
<1>1. \A c \in DOMAIN crimes : (<<"trust", n, c>> \in flags' <=> <<"trust", n, c>> \in flags)
  OBVIOUS
<1>. QED
  BY <1>1 DEF Held, SameFacts

\* The first words of the flags tell them apart.
LEMMA FlagsDiffer ==
    \A a, b, c, d, e :
        /\ <<"crime", a>> # <<"rumor", b, c>> /\ <<"crime", a>> # <<"trust", b, c>>
        /\ <<"crime", a>> # <<"suspicious", b>> /\ <<"crime", a>> # <<"hostile", b>>
        /\ <<"rumor", a, b>> # <<"trust", c, d>> /\ <<"rumor", a, b>> # <<"crime", c>>
        /\ <<"rumor", a, b>> # <<"suspicious", c>> /\ <<"rumor", a, b>> # <<"hostile", c>>
        /\ <<"trust", a, b>> # <<"crime", c>> /\ <<"trust", a, b>> # <<"rumor", c, d>>
        /\ <<"trust", a, b>> # <<"suspicious", c>> /\ <<"trust", a, b>> # <<"hostile", c>>
        /\ <<"suspicious", a>> # <<"crime", b>> /\ <<"suspicious", a>> # <<"rumor", b, c>>
        /\ <<"suspicious", a>> # <<"trust", b, c>> /\ <<"suspicious", a>> # <<"hostile", b>>
        /\ <<"hostile", a>> # <<"crime", b>> /\ <<"hostile", a>> # <<"rumor", b, c>>
        /\ <<"hostile", a>> # <<"trust", b, c>> /\ <<"hostile", a>> # <<"suspicious", b>>
OBVIOUS

\* Whatever else happens to a crime that is recorded already.
LEMMA KeepsRecorded ==
    ASSUME FlagsOfRecorded, DOMAIN crimes' = DOMAIN crimes, NEW x, flags' = flags \cup {x},
           \A c \in CrimeIds \ DOMAIN crimes :
              /\ x # <<"crime", c>>
              /\ \A f \in Factions : x # <<"rumor", c, f>>
              /\ \A n \in Npcs : x # <<"trust", n, c>>
    PROVE  FlagsOfRecorded'
BY DEF FlagsOfRecorded

\* One more element, its number more.
LEMMA SeverityMore ==
    ASSUME CrimesOK, IsFiniteSet(DOMAIN crimes), NEW S \in SUBSET DOMAIN crimes,
           NEW c \in DOMAIN crimes \ S
    PROVE  /\ SumFunctionOnSet(Severity, S) \in Int
           /\ SumFunctionOnSet(Severity, S \cup {c}) = crimes[c].severity + SumFunctionOnSet(Severity, S)
<1>. DEFINE T == S \cup {c}
<1>1. IsFiniteSet(S) /\ IsFiniteSet(T)
  BY FS_Subset
<1>2. \A x \in T : Severity[x] \in Int
  BY CrimeNumbers
<1>3. SumFunctionOnSet(Severity, S) \in Int
  BY <1>1, <1>2, SumOfMore
<1>4. SumFunctionOnSet(Severity, T) = Severity[c] + SumFunctionOnSet(Severity, T \ {c})
  <2>1. c \in T
    OBVIOUS
  <2>. HIDE DEF T
  <2>. QED
    BY <1>1, <1>2, <2>1, SumOfMore
<1>5. T \ {c} = S
  OBVIOUS
<1>. QED
  BY <1>3, <1>4, <1>5, CrimeNumbers

\* The alert level of a faction as its flags tell it.
Level(f) == SumFunctionOnSet(Severity, Answered(f)) + Cardinality(Heard(f)) + Bands(f)

LEMMA LevelParts ==
    ASSUME CrimesOK, IsFiniteSet(DOMAIN crimes), NEW f \in Factions
    PROVE  /\ SumFunctionOnSet(Severity, Answered(f)) \in Int
           /\ IsFiniteSet(Heard(f)) /\ Cardinality(Heard(f)) \in Int
           /\ Bands(f) \in Int
<1>1. IsFiniteSet(Answered(f)) /\ IsFiniteSet(Heard(f))
  BY FS_Subset DEF Answered, Heard
<1>2. \A x \in Answered(f) : Severity[x] \in Int
  BY CrimeNumbers DEF Answered
<1>3. SumFunctionOnSet(Severity, Answered(f)) \in Int
  BY <1>1, <1>2, SumOfMore
<1>4. Cardinality(Heard(f)) \in Int
  BY <1>1, FS_CardinalityType
<1>5. Bands(f) \in Int
  BY DEF Bands
<1>. QED
  BY <1>1, <1>3, <1>4, <1>5

\* An incident raises the level its flags tell by its amount, of its faction only.
Raises(i) ==
    \A f \in Factions : Level(f)' = IF f = i.faction THEN Level(f) + i.amount ELSE Level(f)

LEMMA CrimeRaises ==
    ASSUME CrimesOK, IsFiniteSet(DOMAIN crimes), UNCHANGED crimes,
           NEW c \in DOMAIN crimes, <<"crime", c>> \notin flags,
           flags' = flags \cup {<<"crime", c>>}
    PROVE  Raises(Incident(<<"crime", c>>, FactionOf[crimes[c].victim], crimes[c].severity))
<1>. SUFFICES ASSUME NEW f \in Factions
              PROVE  Level(f)' = IF f = FactionOf[crimes[c].victim]
                                 THEN Level(f) + crimes[c].severity ELSE Level(f)
  BY DEF Raises, Incident
<1>1. SameFacts /\ Severity' = Severity
  BY SameFactsSame DEF SameFacts
<1>2. Heard(f)' = Heard(f)
  <2>1. \A d \in DOMAIN crimes : (<<"rumor", d, f>> \in flags' <=> <<"rumor", d, f>> \in flags)
    BY FlagsDiffer
  <2>. QED
    BY <2>1 DEF Heard
<1>3. Bands(f)' = Bands(f)
  BY FlagsDiffer DEF Bands
<1>4. \A d \in DOMAIN crimes : (<<"crime", d>> \in flags' <=> <<"crime", d>> \in flags \/ d = c)
  OBVIOUS
<1>5. CASE f # FactionOf[crimes[c].victim]
  <2>1. Answered(f)' = Answered(f)
    BY <1>4, <1>5 DEF Answered
  <2>. QED
    BY <1>1, <1>2, <1>3, <1>5, <2>1 DEF Level
<1>6. CASE f = FactionOf[crimes[c].victim]
  <2>1. Answered(f)' = Answered(f) \cup {c} /\ c \notin Answered(f) /\ Answered(f) \in SUBSET DOMAIN crimes
    BY <1>4, <1>6 DEF Answered
  <2>. DEFINE A == Answered(f)
  <2>2. SumFunctionOnSet(Severity, A \cup {c}) = crimes[c].severity + SumFunctionOnSet(Severity, A)
    BY <2>1, SeverityMore
  <2>3. Level(f)' = SumFunctionOnSet(Severity, A \cup {c}) + Cardinality(Heard(f)) + Bands(f)
    BY <1>1, <1>2, <1>3, <2>1 DEF Level
  <2>4. crimes[c].severity \in Int
    BY CrimeNumbers
  <2>5. /\ SumFunctionOnSet(Severity, A) \in Int
        /\ Cardinality(Heard(f)) \in Int /\ Bands(f) \in Int
    BY LevelParts
  <2>. QED
    BY <1>6, <2>2, <2>3, <2>4, <2>5 DEF Level
<1>. QED
  BY <1>5, <1>6

LEMMA RumorRaises ==
    ASSUME CrimesOK, IsFiniteSet(DOMAIN crimes), UNCHANGED crimes,
           NEW r \in DOMAIN crimes, NEW g \in Factions, <<"rumor", r, g>> \notin flags,
           flags' = flags \cup {<<"rumor", r, g>>}
    PROVE  Raises(Incident(<<"rumor", r, g>>, g, 1))
<1>. SUFFICES ASSUME NEW f \in Factions
              PROVE  Level(f)' = IF f = g THEN Level(f) + 1 ELSE Level(f)
  BY DEF Raises, Incident
<1>1. SameFacts /\ Severity' = Severity
  BY SameFactsSame DEF SameFacts
<1>2. Answered(f)' = Answered(f)
  <2>1. \A d \in DOMAIN crimes : (<<"crime", d>> \in flags' <=> <<"crime", d>> \in flags)
    BY FlagsDiffer
  <2>. QED
    BY <2>1 DEF Answered
<1>3. Bands(f)' = Bands(f)
  BY FlagsDiffer DEF Bands
<1>4. \A d \in DOMAIN crimes :
         (<<"rumor", d, f>> \in flags' <=> <<"rumor", d, f>> \in flags \/ (d = r /\ f = g))
  OBVIOUS
<1>5. CASE f # g
  <2>1. Heard(f)' = Heard(f)
    BY <1>4, <1>5 DEF Heard
  <2>. QED
    BY <1>1, <1>2, <1>3, <1>5, <2>1 DEF Level
<1>6. CASE f = g
  <2>1. Heard(f)' = Heard(f) \cup {r} /\ r \notin Heard(f)
    BY <1>4, <1>6 DEF Heard
  <2>2. /\ SumFunctionOnSet(Severity, Answered(f)) \in Int /\ IsFiniteSet(Heard(f))
        /\ Cardinality(Heard(f)) \in Int /\ Bands(f) \in Int
    BY LevelParts
  <2>3. Cardinality(Heard(f) \cup {r}) = Cardinality(Heard(f)) + 1
    BY <2>1, <2>2, FS_AddElement
  <2>4. Level(f)' = SumFunctionOnSet(Severity, Answered(f)) + Cardinality(Heard(f) \cup {r}) + Bands(f)
    BY <1>1, <1>2, <1>3, <2>1 DEF Level
  <2>. QED
    BY <1>6, <2>2, <2>3, <2>4 DEF Level
<1>. QED
  BY <1>5, <1>6

LEMMA BandRaises ==
    ASSUME CrimesOK, IsFiniteSet(DOMAIN crimes), UNCHANGED crimes, NEW g \in Factions,
           NEW b \in {"suspicious", "hostile"}, <<b, g>> \notin flags,
           flags' = flags \cup {<<b, g>>}
    PROVE  Raises(Incident(<<b, g>>, g, IF b = "hostile" THEN 2 ELSE 1))
<1>. DEFINE amount == IF b = "hostile" THEN 2 ELSE 1
<1>. SUFFICES ASSUME NEW f \in Factions
              PROVE  Level(f)' = IF f = g THEN Level(f) + amount ELSE Level(f)
  BY DEF Raises, Incident
<1>1. SameFacts /\ Severity' = Severity
  BY SameFactsSame DEF SameFacts
<1>2. Answered(f)' = Answered(f)
  <2>1. \A d \in DOMAIN crimes : (<<"crime", d>> \in flags' <=> <<"crime", d>> \in flags)
    BY FlagsDiffer
  <2>. QED
    BY <2>1 DEF Answered
<1>3. Heard(f)' = Heard(f)
  <2>1. \A d \in DOMAIN crimes : (<<"rumor", d, f>> \in flags' <=> <<"rumor", d, f>> \in flags)
    BY FlagsDiffer
  <2>. QED
    BY <2>1 DEF Heard
<1>4. /\ <<"suspicious", f>> \in flags' <=> <<"suspicious", f>> \in flags \/ (b = "suspicious" /\ f = g)
      /\ <<"hostile", f>> \in flags' <=> <<"hostile", f>> \in flags \/ (b = "hostile" /\ f = g)
  OBVIOUS
<1>5. Bands(f)' = IF f = g THEN Bands(f) + amount ELSE Bands(f)
  BY <1>4 DEF Bands
<1>6. /\ SumFunctionOnSet(Severity, Answered(f)) \in Int
      /\ Cardinality(Heard(f)) \in Int /\ Bands(f) \in Int
  BY LevelParts
<1>7. Level(f)' = SumFunctionOnSet(Severity, Answered(f)) + Cardinality(Heard(f)) + Bands(f)'
  BY <1>1, <1>2, <1>3 DEF Level
<1>. QED
  BY <1>5, <1>6, <1>7 DEF Level

\* What an incident the conflicts take can be.
LEMMA IncidentKinds ==
    ASSUME CrimesOK, RumorsOK, NEW i \in Incidents
    PROVE  \/ \E c \in DOMAIN crimes :
                /\ FactionOf[crimes[c].victim] \in Factions
                /\ i = Incident(<<"crime", c>>, FactionOf[crimes[c].victim], crimes[c].severity)
           \/ \E r \in DOMAIN rumors, g \in Factions : i = Incident(<<"rumor", r, g>>, g, 1)
           \/ \E b \in {"suspicious", "hostile"}, g \in Factions :
                i = Incident(<<b, g>>, g, IF b = "hostile" THEN 2 ELSE 1)
<1>1. CASE i \in CrimeIncidents
  <2>1. PICK c \in DOMAIN crimes :
          /\ crimes[c].victim # 0 /\ FactionOf[crimes[c].victim] # "none"
          /\ i = Incident(<<"crime", c>>, FactionOf[crimes[c].victim], crimes[c].severity)
    BY <1>1 DEF CrimeIncidents
  <2>2. crimes[c] \in Crime
    BY DEF CrimesOK
  <2>3. crimes[c].victim \in Npcs
    BY <2>1, <2>2, WorldAssumption DEF Npcs, Crime
  <2>4. FactionOf[crimes[c].victim] \in Factions
    BY <2>1, <2>3, WorldAssumption
  <2>. QED
    BY <2>1, <2>4
<1>2. CASE i \in RumorIncidents
  <2>1. PICK r \in DOMAIN rumors : \E g \in rumors[r].factions : i = Incident(<<"rumor", r, g>>, g, 1)
    BY <1>2 DEF RumorIncidents
  <2>2. rumors[r].factions \subseteq Factions
    BY DEF RumorsOK, Rumor
  <2>. QED
    BY <2>1, <2>2
<1>3. CASE i \in BandIncidents
  BY <1>3 DEF BandIncidents
<1>. QED
  BY <1>1, <1>2, <1>3 DEF Incidents

\* One incident, taken for the first time, raises the alert level of its faction
\* by what its flag will tell.
LEMMA IncidentBooks ==
    ASSUME CrimesOK, RumorsOK, BooksInv, DOMAIN rumors \subseteq DOMAIN crimes,
           alert \in [Factions -> Int], UNCHANGED <<crimes, rep, trust>>,
           NEW i \in Incidents, i.flag \notin flags, flags' = flags \cup {i.flag},
           alert' = [alert EXCEPT ![i.faction] = @ + i.amount]
    PROVE  BooksInv'
<1>. DEFINE About(flag) ==
              \/ \E c \in DOMAIN crimes : flag = <<"crime", c>>
              \/ \E r \in DOMAIN crimes, g \in Factions : flag = <<"rumor", r, g>>
              \/ \E b \in {"suspicious", "hostile"}, g \in Factions : flag = <<b, g>>
<1>1. IsFiniteSet(DOMAIN crimes)
  BY DEF BooksInv
<1>2. Raises(i) /\ About(i.flag)
  <2>1. ASSUME NEW c \in DOMAIN crimes,
               i = Incident(<<"crime", c>>, FactionOf[crimes[c].victim], crimes[c].severity)
        PROVE  Raises(i) /\ About(i.flag)
    <3>1. i.flag = <<"crime", c>>
      BY <2>1 DEF Incident
    <3>2. Raises(Incident(<<"crime", c>>, FactionOf[crimes[c].victim], crimes[c].severity))
      BY <1>1, <3>1, CrimeRaises
    <3>. QED
      BY <2>1, <3>1, <3>2
  <2>2. ASSUME NEW r \in DOMAIN rumors, NEW g \in Factions, i = Incident(<<"rumor", r, g>>, g, 1)
        PROVE  Raises(i) /\ About(i.flag)
    <3>1. i.flag = <<"rumor", r, g>> /\ r \in DOMAIN crimes
      BY <2>2 DEF Incident
    <3>2. Raises(Incident(<<"rumor", r, g>>, g, 1))
      BY <1>1, <3>1, RumorRaises
    <3>. QED
      BY <2>2, <3>1, <3>2
  <2>3. ASSUME NEW b \in {"suspicious", "hostile"}, NEW g \in Factions,
               i = Incident(<<b, g>>, g, IF b = "hostile" THEN 2 ELSE 1)
        PROVE  Raises(i) /\ About(i.flag)
    <3>1. i.flag = <<b, g>>
      BY <2>3 DEF Incident
    <3>2. Raises(Incident(<<b, g>>, g, IF b = "hostile" THEN 2 ELSE 1))
      BY <1>1, <3>1, BandRaises
    <3>. QED
      BY <2>3, <3>1, <3>2
  <2>. HIDE DEF About
  <2>. QED
    BY <2>1, <2>2, <2>3, IncidentKinds
<1>3. SameFacts
  BY DEF SameFacts
<1>4. \A f \in Factions : alert'[f] = IF f = i.faction THEN alert[f] + i.amount ELSE alert[f]
  OBVIOUS
<1>5. \A f \in Factions : alert'[f] = Level(f)'
  <2>1. \A f \in Factions : alert[f] = Level(f)
    BY DEF BooksInv, ReactionsOnce, Level
  <2>. QED
    BY <1>2, <1>4, <2>1 DEF Raises
<1>6. \A n \in Npcs : Held(n)' = Held(n)
  <2>1. ASSUME NEW n \in Npcs
        PROVE  Held(n)' = Held(n)
    <3>1. \A c \in DOMAIN crimes : i.flag # <<"trust", n, c>>
      BY <1>2, FlagsDiffer
    <3>. QED
      BY <1>3, <3>1, OtherFlagHeld
  <2>. QED
    BY <2>1
<1>7. ReactionsOnce'
  <2>1. \A f \in Factions :
            alert'[f] = SumFunctionOnSet(Severity', Answered(f)') + Cardinality(Heard(f)') + Bands(f)'
    BY <1>5 DEF Level
  <2>2. Severity' = Severity
    BY <1>3, SameFactsSame
  <2>3. \A n \in Npcs : trust'[n] = -SumFunctionOnSet(Severity', Held(n)')
    BY <1>6, <2>2 DEF BooksInv, ReactionsOnce
  <2>. QED
    BY <2>1, <2>3 DEF ReactionsOnce
<1>8. FlagsOfRecorded'
  <2>1. ASSUME NEW c \in CrimeIds \ DOMAIN crimes
        PROVE  /\ i.flag # <<"crime", c>>
               /\ \A f \in Factions : i.flag # <<"rumor", c, f>>
               /\ \A n \in Npcs : i.flag # <<"trust", n, c>>
    BY <1>2, FlagsDiffer
  <2>. QED
    BY <2>1, KeepsRecorded DEF BooksInv
<1>9. ReputationOnce'
  BY <1>3, KeepsReputation DEF BooksInv
<1>. QED
  BY <1>1, <1>7, <1>8, <1>9 DEF BooksInv, UnreportedSeenByNone

\* Distrust: the crime is held against the player from now on.
LEMMA LoseTrustBooks ==
    ASSUME CrimesOK, BooksInv, trust \in [Npcs -> Int], LoseTrust
    PROVE  BooksInv'
<1>. DEFINE n == phase.npc
<1>1. PICK c \in DOMAIN crimes :
        /\ <<"trust", n, c>> \notin flags
        /\ trust' = [trust EXCEPT ![n] = @ - crimes[c].severity]
        /\ flags' = flags \cup {<<"trust", n, c>>}
  BY DEF LoseTrust, Distrusts
<1>2. UNCHANGED <<crimes, rep, alert>> /\ SameFacts
  BY DEF LoseTrust, SameFacts
<1>. HIDE DEF n
<1>3. \A f \in Factions : SameAnswers(f)
  <2>1. ASSUME NEW f \in Factions
        PROVE  SameAnswers(f)
    <3>1. /\ \A d \in DOMAIN crimes :
                <<"trust", n, c>> # <<"crime", d>> /\ <<"trust", n, c>> # <<"rumor", d, f>>
          /\ <<"trust", n, c>> # <<"suspicious", f>> /\ <<"trust", n, c>> # <<"hostile", f>>
      BY FlagsDiffer
    <3>. QED
      BY <1>1, <1>2, <3>1, OtherFlagAnswers
  <2>. QED
    BY <2>1
<1>4. Severity' = Severity
  BY <1>2, SameFactsSame
<1>5. ASSUME NEW m \in Npcs
      PROVE  trust'[m] = -SumFunctionOnSet(Severity', Held(m)')
  <2>1. \A d \in DOMAIN crimes :
          (<<"trust", m, d>> \in flags' <=> <<"trust", m, d>> \in flags \/ (m = n /\ d = c))
    BY <1>1
  <2>2. CASE m # n
    <3>1. Held(m)' = Held(m) /\ trust'[m] = trust[m]
      BY <1>1, <1>2, <2>1, <2>2 DEF Held
    <3>. QED
      BY <1>4, <3>1 DEF BooksInv, ReactionsOnce
  <2>3. CASE m = n
    <3>. DEFINE H == Held(m)
    <3>1. Held(m)' = H \cup {c} /\ c \notin H /\ H \in SUBSET DOMAIN crimes
      BY <1>1, <1>2, <2>1, <2>3 DEF Held
    <3>2. /\ SumFunctionOnSet(Severity, H) \in Int
          /\ SumFunctionOnSet(Severity, H \cup {c}) = crimes[c].severity + SumFunctionOnSet(Severity, H)
      BY <3>1, SeverityMore DEF BooksInv
    <3>3. crimes[c].severity \in Int
      BY CrimeNumbers
    <3>4. trust[m] = -SumFunctionOnSet(Severity, H)
      BY DEF BooksInv, ReactionsOnce
    <3>5. trust'[m] = trust[m] - crimes[c].severity
      BY <1>1, <2>3
    <3>6. SumFunctionOnSet(Severity', Held(m)') = SumFunctionOnSet(Severity, H \cup {c})
      BY <1>4, <3>1
    <3>. HIDE DEF H
    <3>. QED
      BY <3>2, <3>3, <3>4, <3>5, <3>6
  <2>. QED
    BY <2>2, <2>3
<1>6. ASSUME NEW f \in Factions
      PROVE  alert'[f] = SumFunctionOnSet(Severity', Answered(f)') + Cardinality(Heard(f)') + Bands(f)'
  BY <1>2, <1>3, <1>4 DEF BooksInv, ReactionsOnce, SameAnswers
<1>7. ReactionsOnce'
  BY <1>5, <1>6 DEF ReactionsOnce
<1>8. FlagsOfRecorded'
  <2>1. ASSUME NEW d \in CrimeIds \ DOMAIN crimes
        PROVE  /\ <<"trust", n, c>> # <<"crime", d>>
               /\ \A f \in Factions : <<"trust", n, c>> # <<"rumor", d, f>>
               /\ \A m \in Npcs : <<"trust", n, c>> # <<"trust", m, d>>
    BY FlagsDiffer
  <2>. QED
    BY <1>1, <1>2, <2>1, KeepsRecorded DEF BooksInv
<1>9. ReputationOnce'
  BY <1>2, KeepsReputation DEF BooksInv
<1>. QED
  BY <1>2, <1>7, <1>8, <1>9 DEF BooksInv, UnreportedSeenByNone

\* A step that deals with nothing: the facts of the crimes stay, and at most a
\* flag is set that no sum speaks of.
LEMMA IdleBooks ==
    ASSUME BooksInv, SameFacts, UNCHANGED <<rep, alert, trust>>,
           NEW X, flags' = flags \cup X,
           \A x \in X : \A a, b : /\ x # <<"crime", a>> /\ x # <<"rumor", a, b>> /\ x # <<"trust", a, b>>
                                  /\ x # <<"suspicious", a>> /\ x # <<"hostile", a>>,
           UnreportedSeenByNone'
    PROVE  BooksInv'
<1>1. \A a, b : /\ <<"crime", a>> \in flags' <=> <<"crime", a>> \in flags
                /\ <<"rumor", a, b>> \in flags' <=> <<"rumor", a, b>> \in flags
                /\ <<"trust", a, b>> \in flags' <=> <<"trust", a, b>> \in flags
                /\ <<"suspicious", a>> \in flags' <=> <<"suspicious", a>> \in flags
                /\ <<"hostile", a>> \in flags' <=> <<"hostile", a>> \in flags
  OBVIOUS
<1>2. ASSUME NEW f \in Factions
      PROVE  SameAnswers(f)
  BY <1>1 DEF SameAnswers, Answered, Heard, Bands, SameFacts
<1>3. ASSUME NEW n \in Npcs
      PROVE  Held(n)' = Held(n)
  BY <1>1 DEF Held, SameFacts
<1>4. ReactionsOnce'
  BY <1>2, <1>3, SameReactions DEF BooksInv
<1>5. ReputationOnce'
  BY KeepsReputation DEF BooksInv
<1>6. FlagsOfRecorded'
  BY <1>1 DEF BooksInv, FlagsOfRecorded, SameFacts
<1>7. IsFiniteSet(DOMAIN crimes)'
  BY DEF BooksInv, SameFacts
<1>. QED
  BY <1>4, <1>5, <1>6, <1>7 DEF BooksInv

LEMMA NoFlagBooks ==
    ASSUME BooksInv, SameFacts, UNCHANGED <<rep, alert, trust, flags>>, UnreportedSeenByNone'
    PROVE  BooksInv'
<1>1. PICK X : X = {}
  OBVIOUS
<1>2. /\ flags' = flags \cup X
      /\ \A x \in X : \A a, b :
            /\ x # <<"crime", a>> /\ x # <<"rumor", a, b>> /\ x # <<"trust", a, b>>
            /\ x # <<"suspicious", a>> /\ x # <<"hostile", a>>
  BY <1>1
<1>. QED
  BY <1>2, IdleBooks

LEMMA UnchangedBooks ==
    ASSUME BooksInv, UNCHANGED <<crimes, rep, alert, trust, flags>>
    PROVE  BooksInv'
<1>1. SameFacts /\ UnreportedSeenByNone'
  BY DEF BooksInv, SameFacts, UnreportedSeenByNone
<1>. QED
  BY <1>1, NoFlagBooks

\* One record changes, and only its status and whom it was reported to.
LEMMA RecordChanges ==
    ASSUME CrimesOK, BooksInv, NEW c \in DOMAIN crimes, NEW k,
           crimes' = [crimes EXCEPT ![c] = k],
           k.severity = crimes[c].severity, k.witnesses = crimes[c].witnesses,
           k.victim = crimes[c].victim,
           k.status # "reported" => FactionsOf(k.witnesses) = {}
    PROVE  SameFacts /\ UnreportedSeenByNone'
<1>1. SameFacts
  BY DEF SameFacts
<1>2. UnreportedSeenByNone'
  BY DEF BooksInv, UnreportedSeenByNone
<1>. QED
  BY <1>1, <1>2

LEMMA ReportBooks ==
    ASSUME TypeOK, BooksInv, Report
    PROVE  BooksInv'
<1>1. CrimesOK /\ rep \in [Factions -> Int]
  BY TypeParts
<1>2. PICK c \in DOMAIN crimes :
        /\ DueForReport(c)
        /\ crimes' = [crimes EXCEPT ![c] = AfterConsequences(@)]
        /\ LoseReputation(crimes[c])
        /\ flags' = flags \cup {<<"crime_consequence", c>>}
  BY DEF Report
<1>3. UNCHANGED <<alert, trust>>
  BY DEF Report
<1>4. crimes[c] \in Crime
  BY <1>1 DEF CrimesOK
<1>. DEFINE k == AfterConsequences(crimes[c])
<1>5. /\ k.severity = crimes[c].severity /\ k.victim = crimes[c].victim
      /\ k.witnesses = crimes[c].witnesses
      /\ k.status # "reported" => FactionsOf(k.witnesses) = {}
  BY <1>4, AfterConsequencesFacts
<1>6. crimes' = [crimes EXCEPT ![c] = k]
  BY <1>2
<1>. HIDE DEF k
<1>7. SameFacts /\ UnreportedSeenByNone'
  BY <1>1, <1>5, <1>6, RecordChanges
<1>8. rep' = rep
  <2>1. FactionsOf(crimes[c].witnesses) = {}
    BY <1>2 DEF DueForReport, BooksInv, UnreportedSeenByNone
  <2>. QED
    BY <1>1, <1>2, <1>4, <2>1, SeenByNone
<1>. DEFINE X == {<<"crime_consequence", c>>}
<1>9. \A x \in X : \A a, b : /\ x # <<"crime", a>> /\ x # <<"rumor", a, b>> /\ x # <<"trust", a, b>>
                             /\ x # <<"suspicious", a>> /\ x # <<"hostile", a>>
  OBVIOUS
<1>10. flags' = flags \cup X
  BY <1>2
<1>. HIDE DEF X
<1>. QED
  BY <1>3, <1>7, <1>8, <1>9, <1>10, IdleBooks

LEMMA ReactBooks ==
    ASSUME BooksInv, React
    PROVE  BooksInv'
<1>1. UNCHANGED <<crimes, rep, alert, trust>>
  BY DEF React
<1>2. CASE flags' = flags
  BY <1>1, <1>2, UnchangedBooks
<1>3. CASE flags' = flags \cup {<<"flee", phase.npc, condition[phase.npc]>>}
  <2>. DEFINE X == {<<"flee", phase.npc, condition[phase.npc]>>}
  <2>1. SameFacts /\ UnreportedSeenByNone'
    BY <1>1 DEF BooksInv, SameFacts, UnreportedSeenByNone
  <2>2. \A x \in X : \A a, b :
           /\ x # <<"crime", a>> /\ x # <<"rumor", a, b>> /\ x # <<"trust", a, b>>
           /\ x # <<"suspicious", a>> /\ x # <<"hostile", a>>
    OBVIOUS
  <2>3. PICK Y : Y = X
    OBVIOUS
  <2>4. flags' = flags \cup Y
    BY <1>3, <2>3
  <2>5. \A x \in Y : \A a, b :
           /\ x # <<"crime", a>> /\ x # <<"rumor", a, b>> /\ x # <<"trust", a, b>>
           /\ x # <<"suspicious", a>> /\ x # <<"hostile", a>>
    BY <2>2, <2>3
  <2>. QED
    BY <1>1, <2>1, <2>4, <2>5, IdleBooks
<1>. QED
  BY <1>2, <1>3 DEF React

LEMMA PlanBooks ==
    ASSUME TypeOK, BooksInv, Plan
    PROVE  BooksInv'
<1>. DEFINE n == phase.npc
            c == Least(Reportable(n))
<1>1. CrimesOK
  BY TypeParts
<1>2. UNCHANGED <<rep, alert, trust, flags>>
  BY DEF Plan
<1>3. CASE UNCHANGED crimes
  BY <1>2, <1>3, UnchangedBooks
<1>4. CASE /\ Reportable(n) # {}
           /\ crimes' = [crimes EXCEPT ![c].status = "reported",
                                       ![c].reportedTo = @ \cup {"local_authority"}]
  <2>1. c \in DOMAIN crimes
    <3>1. Reportable(n) \subseteq DOMAIN crimes
      BY DEF Reportable
    <3>. QED
      BY <1>1, <1>4, <3>1, LeastIn, WorldAssumption DEF CrimesOK
  <2>2. PICK d \in DOMAIN crimes : d = c
    BY <2>1
  <2>3. crimes' = [crimes EXCEPT ![d] = ReportedRecord(@)]
    <3>. HIDE DEF c
    <3>. QED
      BY <1>4, <2>2 DEF ReportedRecord
  <2>4. crimes[d] \in Crime
    BY <1>1 DEF CrimesOK
  <2>. DEFINE k == ReportedRecord(crimes[d])
  <2>5. /\ k.severity = crimes[d].severity /\ k.victim = crimes[d].victim
        /\ k.witnesses = crimes[d].witnesses /\ k.status = "reported"
    BY <2>4, ReportedFacts
  <2>6. crimes' = [crimes EXCEPT ![d] = k]
    BY <2>3
  <2>. HIDE DEF k
  <2>7. SameFacts /\ UnreportedSeenByNone'
    BY <1>1, <2>5, <2>6, RecordChanges
  <2>. QED
    BY <1>2, <2>7, NoFlagBooks
<1>. QED
  BY <1>3, <1>4 DEF Plan

\* A crime is recorded: what it costs is in the sums from then on.
LEMMA RecordBooks ==
    ASSUME TypeOK, BooksInv, NEW c \in CrimeIds, NEW W \in SUBSET Npcs, RecordCrime(c, W)
    PROVE  BooksInv'
<1>. DEFINE k == AfterConsequences(NewCrime(W))
            C == DOMAIN crimes
<1>1. CrimesOK /\ rep \in [Factions -> Int] /\ IsFiniteSet(C)
  BY TypeParts DEF BooksInv
<1>2. NewCrime(W) \in Crime /\ NewCrime(W).witnesses = W
  <2>1. act \in ActSet
    BY TypeParts DEF RecordCrime, NoAct
  <2>. QED
    BY <2>1 DEF NewCrime, ActSet, Crime
<1>3. /\ k.severity = NewCrime(W).severity /\ k.witnesses = W
      /\ k.status # "reported" => FactionsOf(W) = {}
  BY <1>2, AfterConsequencesFacts
<1>4. /\ c \notin C /\ DOMAIN crimes' = C \cup {c}
      /\ crimes'[c] = k /\ \A d \in C : crimes'[d] = crimes[d]
  <2>. HIDE DEF k
  <2>. QED
    BY DEF RecordCrime, k
<1>5. UNCHANGED <<alert, trust, flags>> /\ LoseReputation(NewCrime(W))
  BY DEF RecordCrime
<1>. HIDE DEF k
<1>6. IsFiniteSet(DOMAIN crimes')
  BY <1>1, <1>4, FS_AddElement
<1>7. UnreportedSeenByNone'
  BY <1>3, <1>4 DEF BooksInv, UnreportedSeenByNone
<1>8. FlagsOfRecorded'
  BY <1>4, <1>5 DEF BooksInv, FlagsOfRecorded
<1>9. ASSUME NEW S \in SUBSET C
       PROVE  SumFunctionOnSet(Severity', S) = SumFunctionOnSet(Severity, S)
  <2>1. IsFiniteSet(S)
    BY <1>1, FS_Subset
  <2>2. \A d \in S : Severity[d] \in Int /\ Severity'[d] = Severity[d]
    BY <1>1, <1>4, CrimeNumbers DEF Severity
  <2>. QED
    BY <2>1, <2>2, SumOfSame
<1>10. ReactionsOnce'
  <2>1. ASSUME NEW f \in Factions
        PROVE  alert'[f] = SumFunctionOnSet(Severity', Answered(f)') + Cardinality(Heard(f)') + Bands(f)'
    <3>1. Answered(f)' = Answered(f) /\ Heard(f)' = Heard(f)
      BY <1>4, <1>5 DEF Answered, Heard, BooksInv, FlagsOfRecorded
    <3>2. Bands(f)' = Bands(f)
      BY <1>5 DEF Bands
    <3>3. Answered(f) \in SUBSET C
      BY DEF Answered
    <3>4. SumFunctionOnSet(Severity', Answered(f)) = SumFunctionOnSet(Severity, Answered(f))
      BY <1>9, <3>3
    <3>. QED
      BY <1>5, <3>1, <3>2, <3>4 DEF BooksInv, ReactionsOnce
  <2>2. ASSUME NEW n \in Npcs
        PROVE  trust'[n] = -SumFunctionOnSet(Severity', Held(n)')
    <3>1. Held(n)' = Held(n) /\ Held(n) \in SUBSET C
      BY <1>4, <1>5 DEF Held, BooksInv, FlagsOfRecorded
    <3>2. SumFunctionOnSet(Severity', Held(n)) = SumFunctionOnSet(Severity, Held(n))
      BY <1>9, <3>1
    <3>. QED
      BY <1>5, <3>1, <3>2 DEF BooksInv, ReactionsOnce
  <2>. QED
    BY <2>1, <2>2 DEF ReactionsOnce
<1>11. ASSUME NEW f \in Factions
       PROVE  rep'[f] = -SumFunction(Resentment(f)')
  <2>. DEFINE D == C \cup {c}
              R == Resentment(f)
  <2>1. \A d \in D : R'[d] \in Int
    <3>1. \A d \in C : R'[d] = R[d] /\ R[d] \in Int
      BY <1>1, <1>4, CrimeNumbers DEF Resentment
    <3>2. R'[c] = k.severity * Cardinality(W \cap Members(f))
      BY <1>3, <1>4 DEF Resentment, Members
    <3>3. k.severity \in Int /\ Cardinality(W \cap Members(f)) \in Int
      <4>1. W \cap Members(f) \in SUBSET Npcs
        OBVIOUS
      <4>. QED
        BY <1>2, <1>3, <4>1, NpcsFinite DEF Crime
    <3>4. \A x \in Int, y \in Int : x * y \in Int
      OBVIOUS
    <3>. HIDE DEF R
    <3>. QED
      BY <3>1, <3>2, <3>3, <3>4
  <2>2. IsFiniteSet(D) /\ c \in D /\ D \ {c} = C
    BY <1>4, <1>6
  <2>3. SumFunction(R') = R'[c] + SumFunctionOnSet(R', C)
    <3>1. DOMAIN R' = D
      BY <1>4 DEF Resentment
    <3>. HIDE DEF R, D
    <3>. QED
      BY <2>1, <2>2, <3>1, SumOfMore DEF SumFunction
  <2>4. SumFunctionOnSet(R', C) = SumFunction(R) /\ SumFunction(R) \in Int
    <3>1. \A d \in C : R[d] \in Int /\ R'[d] = R[d]
      BY <1>1, <1>4, CrimeNumbers DEF Resentment
    <3>2. DOMAIN R = C
      BY DEF Resentment
    <3>. HIDE DEF R
    <3>. QED
      BY <1>1, <3>1, <3>2, SumOfSame, SumOfMore DEF SumFunction
  <2>5. R'[c] = NewCrime(W).severity * Cardinality(W \cap Members(f))
    BY <1>3, <1>4 DEF Resentment, Members
  <2>6. rep'[f] = rep[f] - R'[c]
    BY <1>2, <1>5, <2>5 DEF LoseReputation
  <2>7. rep[f] = -SumFunction(R)
    BY DEF BooksInv, ReputationOnce
  <2>8. R'[c] \in Int
    BY <2>1
  <2>. HIDE DEF R
  <2>. QED
    BY <2>3, <2>4, <2>6, <2>7, <2>8 DEF R
<1>12. ReputationOnce'
  BY <1>11 DEF ReputationOnce
<1>. QED
  BY <1>6, <1>7, <1>8, <1>10, <1>12 DEF BooksInv

LEMMA NextKeepsBooks ==
    ASSUME TypeOK, RumorsTraceable, BooksInv, [Next]_vars
    PROVE  BooksInv'
<1>1. CrimesOK /\ RumorsOK /\ trust \in [Npcs -> Int] /\ alert \in [Factions -> Int]
  BY TypeParts
<1>2. CASE UNCHANGED <<crimes, rep, alert, trust, flags>>
  BY <1>2, UnchangedBooks
<1>3. CASE UNCHANGED vars
  BY <1>2, <1>3 DEF vars
<1>4. CASE Play
  BY <1>2, <1>4 DEF Play, Wait, Move, Lockpick, Buy, Attack, AttackInVain, social
<1>5. CASE (\E t \in Times : FollowSchedule(t)) \/ Gossip \/ ConflictsDone \/ NoCrime
  BY <1>2, <1>5 DEF FollowSchedule, Gossip, ConflictsDone, NoCrime, social
<1>6. CASE Conflict
  <2>1. PICK i \in NewIncidents :
          /\ alert' = [alert EXCEPT ![i.faction] = @ + i.amount]
          /\ flags' = flags \cup {i.flag}
    BY <1>6 DEF Conflict
  <2>2. i \in Incidents /\ i.flag \notin flags
    BY <2>1 DEF NewIncidents
  <2>3. UNCHANGED <<crimes, rep, trust>>
    BY <1>6 DEF Conflict
  <2>4. DOMAIN rumors \subseteq DOMAIN crimes
    BY DEF RumorsTraceable
  <2>. QED
    BY <1>1, <2>1, <2>2, <2>3, <2>4, IncidentBooks
<1>7. CASE LoseTrust
  BY <1>1, <1>7, LoseTrustBooks
<1>8. ASSUME NEW c \in CrimeIds, NEW W \in SUBSET Npcs, RecordCrime(c, W)
      PROVE  BooksInv'
  BY <1>8, RecordBooks
<1>. QED
  BY <1>3, <1>4, <1>5, <1>6, <1>7, <1>8, ReportBooks, ReactBooks, PlanBooks DEF Next, Tick

LEMMA InitBooks == Init => BooksInv
<1>. SUFFICES ASSUME Init
              PROVE  BooksInv
  OBVIOUS
<1>1. DOMAIN crimes = {} /\ flags = {}
  BY DEF Init
<1>2. IsFiniteSet(DOMAIN crimes)
  BY <1>1, FS_EmptySet
<1>3. \A f \in Factions : rep[f] = -SumFunction(Resentment(f))
  <2>1. \A f \in Factions : SumFunction(Resentment(f)) = 0
    BY <1>1, SumOfNone DEF Resentment, SumFunction
  <2>. QED
    BY <2>1 DEF Init
<1>4. ReactionsOnce
  <2>1. ASSUME NEW f \in Factions
        PROVE  alert[f] = SumFunctionOnSet(Severity, Answered(f)) + Cardinality(Heard(f)) + Bands(f)
    <3>1. Answered(f) = {} /\ Heard(f) = {} /\ Bands(f) = 0
      BY <1>1 DEF Answered, Heard, Bands
    <3>2. SumFunctionOnSet(Severity, {}) = 0 /\ Cardinality({}) = 0
      BY SumOfNone, FS_EmptySet
    <3>3. alert[f] = 0
      BY DEF Init
    <3>. QED
      BY <3>1, <3>2, <3>3
  <2>2. ASSUME NEW n \in Npcs
        PROVE  trust[n] = -SumFunctionOnSet(Severity, Held(n))
    <3>1. Held(n) = {} /\ trust[n] = 0
      BY <1>1 DEF Held, Init
    <3>2. SumFunctionOnSet(Severity, {}) = 0
      BY SumOfNone
    <3>. QED
      BY <3>1, <3>2
  <2>. QED
    BY <2>1, <2>2 DEF ReactionsOnce
<1>. QED
  BY <1>1, <1>2, <1>3, <1>4 DEF BooksInv, UnreportedSeenByNone, FlagsOfRecorded, ReputationOnce

LEMMA BooksBalance == Spec => []BooksInv
<1>1. TypeOK /\ RumorsTraceable /\ BooksInv /\ [Next]_vars => BooksInv'
  BY NextKeepsBooks
<1>. QED
  BY TypeCorrect, Traceable, InitBooks, <1>1, PTL DEF Spec

\* For any number of crimes, witnesses and factions, and however reports, plans and
\* new crimes alternate: a reputation is the sum of what the faction's members saw.
THEOREM ReputationLostOnce == Spec => []ReputationOnce
<1>1. BooksInv => ReputationOnce
  BY DEF BooksInv
<1>. QED
  BY BooksBalance, <1>1, PTL

\* An alert level is the sum of the incidents the faction answered, and a distrust
\* the sum of the crimes held against the player, each of them once.
THEOREM ReactedOnce == Spec => []ReactionsOnce
<1>1. BooksInv => ReactionsOnce
  BY DEF BooksInv
<1>. QED
  BY BooksBalance, <1>1, PTL
=============================================================================
