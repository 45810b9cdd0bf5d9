--------------------------- MODULE WorldPackProofs ---------------------------
(* Proofs for WorldPack: what the gate accepts the loader takes, and what    *)
(* follows for a game that was started from it.                              *)
EXTENDS WorldPack, Recursion

\* The two checks compared, file by file.
LEMMA ListedMonotone ==
    ASSUME NEW p, NEW small, NEW big, small \subseteq big
    PROVE  Listed(p, small) \subseteq Listed(p, big)
  BY DEF Listed

LEMMA PlacesAndNpcsLoad ==
    ASSUME NEW p, ValidPlaces(p), ValidNpcs(p)
    PROVE  LoadPlacesAndNpcs(p)
  BY DEF ValidPlaces, ValidNpcs, LoadPlacesAndNpcs

LEMMA ItemsLoad ==
    ASSUME NEW p, ValidItems(p)
    PROVE  LoadItems(p)
  BY DEF ValidItems, LoadItems

LEMMA TalkLoads ==
    ASSUME NEW p, ValidTalk(p), ValidBonds(p)
    PROVE  LoadTalk(p)
<1>1. Listed(p, Npcs) \subseteq Listed(p, Npcs \cup Factions)
  BY ListedMonotone
<1>2. Into(p, Rumors, "heard", Listed(p, Npcs \cup Factions))
  BY <1>1 DEF ValidTalk, Into
<1>. QED
  BY <1>2 DEF ValidTalk, ValidBonds, LoadTalk

LEMMA QuestLoads ==
    ASSUME NEW p, NEW d, ValidQuest(p, d)
    PROVE  LoadQuest(p, d)
  BY DEF ValidQuest, ValidTrigger, LoadQuest

\* The loader refuses no reference of an accepted pack but those of the roleplay
\* files.
LEMMA AcceptsLoads ==
    ASSUME NEW p, Accepts(p)
    PROVE  LoadsWorld(p)
<1>1. ValidPack(p)
  BY DEF Accepts
<1>2. LoadPlacesAndNpcs(p) /\ LoadItems(p) /\ LoadTalk(p)
  BY <1>1, PlacesAndNpcsLoad, ItemsLoad, TalkLoads DEF ValidPack
<1>3. \A q \in Listed(p, QuestIds) : LoadQuest(p, p.def[q])
  BY <1>1, QuestLoads DEF ValidPack
<1>. QED
  BY <1>2, <1>3 DEF LoadsWorld

-----------------------------------------------------------------------------
(* Authors: every save asks the gate about what it stores. *)

LEMMA AuthorsKeepGames ==
    ASSUME AuthorNext
    PROVE  UNCHANGED <<game, loaded>> /\ outcome' \in {"saved", "refused"}
<1>1. ASSUME NEW file, NEW new, SaveFile(file, new)
      PROVE  UNCHANGED <<game, loaded>> /\ outcome' \in {"saved", "refused"}
  BY <1>1 DEF SaveFile, Save
<1>2. ASSUME NEW x, SaveManifest(x)
      PROVE  UNCHANGED <<game, loaded>> /\ outcome' \in {"saved", "refused"}
  BY <1>2 DEF SaveManifest, Save
<1>3. ASSUME NEW new, SaveQuestGraph(new)
      PROVE  UNCHANGED <<game, loaded>> /\ outcome' \in {"saved", "refused"}
  BY <1>3 DEF SaveQuestGraph, Save
<1>4. ASSUME NEW n, NEW d, NEW samples, SaveCharacter(n, d, samples)
      PROVE  UNCHANGED <<game, loaded>> /\ outcome' \in {"saved", "refused"}
  BY <1>4 DEF SaveCharacter, Save
<1>. QED
  BY <1>1, <1>2, <1>3, <1>4 DEF AuthorNext

LEMMA AuthorsAskTheGate ==
    ASSUME AuthorNext, Accepts(pack)
    PROVE  Accepts(pack')
<1>1. ASSUME NEW file, NEW new, SaveFile(file, new)
      PROVE  Accepts(pack')
  <2>. DEFINE p == With(pack, new)
  <2>1. Save(p, Accepts(p))
    BY <1>1 DEF SaveFile
  <2>. QED
    BY <2>1 DEF Save
<1>2. ASSUME NEW x, SaveManifest(x)
      PROVE  Accepts(pack')
  BY <1>2 DEF SaveManifest, Save
<1>3. ASSUME NEW new, SaveQuestGraph(new)
      PROVE  Accepts(pack')
  BY <1>3 DEF SaveQuestGraph, Save, GraphGate
<1>4. ASSUME NEW n, NEW d, NEW samples, SaveCharacter(n, d, samples)
      PROVE  Accepts(pack')
  BY <1>4 DEF SaveCharacter, Save
<1>. QED
  BY <1>1, <1>2, <1>3, <1>4 DEF AuthorNext

LEMMA PlayKeepsThePack ==
    ASSUME PlayNext
    PROVE  pack' = pack
  BY DEF PlayNext, StartGame, Move, Talk, Step

\* The inductive invariant behind PacksLoad: what is stored would be accepted again.
Gated == Accepts(pack)

LEMMA InitGated == PackInit => Gated
  BY DefsAssumption DEF PackInit, Gated

LEMMA NextGated == Gated /\ [PackNext]_packVars => Gated'
<1>. SUFFICES ASSUME Accepts(pack), [PackNext]_packVars
              PROVE  Accepts(pack')
  BY DEF Gated
<1>1. CASE AuthorNext
  BY <1>1, AuthorsAskTheGate
<1>2. CASE PlayNext
  BY <1>2, PlayKeepsThePack
<1>3. CASE UNCHANGED packVars
  BY <1>3 DEF packVars
<1>. QED
  BY <1>1, <1>2, <1>3 DEF PackNext

\* Whatever is saved, by hand or by an editor, in any order: the loader accepts
\* every reference of the stored pack outside the roleplay files (validator.py
\* against world_loader.py).
THEOREM PacksLoad == PackSpec => []AcceptedLoads
<1>1. Gated => AcceptedLoads
  BY AcceptsLoads DEF AcceptedLoads, Gated
<1>. QED
  BY InitGated, NextGated, <1>1, PTL DEF PackSpec

-----------------------------------------------------------------------------
(* Players *)

\* A quest rule fails for a trigger that passed the loader only for what it lacks
\* or for an objective that is hidden.
LEMMA RaisesForHidden ==
    ASSUME NEW p, NEW d, LoadQuest(p, d), NEW i \in DOMAIN d.triggers, Raises(d, d.triggers[i])
    PROVE  \/ d.triggers[i].action = "advance" /\ d.triggers[i].stage = NoTarget
           \/ /\ d.triggers[i].action = "complete"
              /\ d.triggers[i].objective \in
                    {o.id : o \in {o \in d.objectives : o.hidden}} \cup {NoTarget}
<1>. DEFINE t == d.triggers[i]
<1>1. t.stage \in d.stages \cup {NoTarget} /\ t.objective \in ObjectiveIds(d) \cup {NoTarget}
  BY DEF LoadQuest
<1>2. CASE t.action = "advance" /\ t.stage \notin d.stages
  BY <1>1, <1>2
<1>3. CASE t.action = "complete" /\ t.objective \notin Shown(d)
  <2>1. CASE t.objective = NoTarget
    BY <1>3, <2>1
  <2>2. CASE t.objective # NoTarget
    <3>1. PICK o \in d.objectives : o.id = t.objective
      BY <1>1, <2>2 DEF ObjectiveIds
    <3>2. o.hidden
      BY <1>3, <3>1 DEF Shown
    <3>. QED
      BY <1>3, <3>1, <3>2
  <2>. QED
    BY <2>1, <2>2
<1>. QED
  BY <1>1, <1>2, <1>3 DEF Raises

\* The pack of a game has passed the loader.
LoadedPlays == game # NoGame => LoadsWorld(loaded)

LEMMA InitPlays == PackInit => LoadedPlays /\ HiddenUnreached /\ RaisesOnlyWithoutTarget
  BY DEF PackInit, LoadedPlays, HiddenUnreached, RaisesOnlyWithoutTarget

\* A step goes where the player may be and fails for a trigger of the pack.
LEMMA StepPlays ==
    ASSUME game # NoGame, LoadedPlays, HiddenUnreached, NEW at, NEW kind, NEW of,
           Step(at, kind, of), at \in HiddenPlaces(loaded) => at = game.at
    PROVE  LoadedPlays' /\ HiddenUnreached' /\ RaisesOnlyWithoutTarget'
<1>1. loaded' = loaded
  BY DEF Step
<1>2. LoadedPlays'
  BY <1>1 DEF LoadedPlays, Step
<1>3. CASE \E q \in Listed(loaded, QuestIds) : Fails(loaded.def[q], kind, of)
  <2>1. game' = game /\ outcome' = "raised"
    BY <1>3 DEF Step
  <2>2. HiddenUnreached'
    BY <1>1, <2>1 DEF HiddenUnreached, HiddenPlaces, Listed, HasMark
  <2>3. PICK q \in Listed(loaded, QuestIds) : Fails(loaded.def[q], kind, of)
    BY <1>3
  <2>4. PICK i \in DOMAIN loaded.def[q].triggers : Raises(loaded.def[q], loaded.def[q].triggers[i])
    BY <2>3 DEF Fails
  <2>5. LoadQuest(loaded, loaded.def[q])
    BY <2>3 DEF LoadedPlays, LoadsWorld
  <2>6. RaisesOnlyWithoutTarget'
    <3>. DEFINE t == loaded.def[q].triggers[i]
                hidden == {o \in loaded.def[q].objectives : o.hidden}
    <3>1. \/ t.action = "advance" /\ t.stage = NoTarget
          \/ t.action = "complete" /\ t.objective \in {o.id : o \in hidden} \cup {NoTarget}
      BY <2>4, <2>5, RaisesForHidden
    <3>. QED
      BY <1>1, <2>3, <2>4, <3>1 DEF RaisesOnlyWithoutTarget, Listed
  <2>. QED
    BY <1>2, <2>2, <2>6
<1>4. CASE ~\E q \in Listed(loaded, QuestIds) : Fails(loaded.def[q], kind, of)
  <2>1. outcome' = "played" /\ game'.at = at
    BY <1>4 DEF Step
  <2>2. HiddenUnreached'
    BY <1>1, <2>1 DEF HiddenUnreached, HiddenPlaces, Listed, HasMark
  <2>3. RaisesOnlyWithoutTarget'
    BY <2>1 DEF RaisesOnlyWithoutTarget
  <2>. QED
    BY <1>2, <2>2, <2>3
<1>. QED
  BY <1>3, <1>4

LEMMA StartPlays ==
    ASSUME StartGame, LoadedPlays, HiddenUnreached
    PROVE  LoadedPlays' /\ HiddenUnreached' /\ RaisesOnlyWithoutTarget'
<1>1. CASE Loads(pack)
  <2>1. game' = FirstState(pack) /\ loaded' = pack /\ outcome' = "started" /\ pack' = pack
    BY <1>1 DEF StartGame
  <2>2. game'.at = loaded'.start
    BY <2>1 DEF FirstState
  <2>3. LoadsWorld(loaded)'
    BY <1>1, <2>1 DEF Loads, LoadsWorld, LoadPlacesAndNpcs, LoadItems, LoadTalk, LoadQuest,
                      Into, Listed, Links, Placed, Actors, ObjectiveIds
  <2>. QED
    BY <2>1, <2>2, <2>3 DEF LoadedPlays, HiddenUnreached, RaisesOnlyWithoutTarget
<1>2. CASE ~Loads(pack)
  <2>1. game' = game /\ loaded' = loaded /\ outcome' = "unloadable"
    BY <1>2 DEF StartGame
  <2>. QED
    BY <2>1 DEF LoadedPlays, HiddenUnreached, RaisesOnlyWithoutTarget, HiddenPlaces, Listed, HasMark
<1>. QED
  BY <1>1, <1>2

LEMMA NextPlays ==
    LoadedPlays /\ HiddenUnreached /\ RaisesOnlyWithoutTarget /\ [PackNext]_packVars
        => LoadedPlays' /\ HiddenUnreached' /\ RaisesOnlyWithoutTarget'
<1>. SUFFICES ASSUME LoadedPlays, HiddenUnreached, RaisesOnlyWithoutTarget, [PackNext]_packVars
              PROVE  LoadedPlays' /\ HiddenUnreached' /\ RaisesOnlyWithoutTarget'
  OBVIOUS
<1>1. CASE AuthorNext
  <2>1. game' = game /\ loaded' = loaded /\ outcome' # "raised"
    BY <1>1, AuthorsKeepGames
  <2>. QED
    BY <2>1 DEF LoadedPlays, HiddenUnreached, RaisesOnlyWithoutTarget, HiddenPlaces, Listed, HasMark
<1>2. CASE StartGame
  BY <1>2, StartPlays
<1>3. ASSUME NEW x \in Places, Move(x)
      PROVE  LoadedPlays' /\ HiddenUnreached' /\ RaisesOnlyWithoutTarget'
  <2>1. game # NoGame /\ x \notin HiddenPlaces(loaded) /\ Step(x, "visit", x)
    BY <1>3 DEF Move, Exits
  <2>. QED
    BY <2>1, StepPlays
<1>4. ASSUME NEW n \in Npcs, Talk(n)
      PROVE  LoadedPlays' /\ HiddenUnreached' /\ RaisesOnlyWithoutTarget'
  <2>1. game # NoGame /\ Step(game.at, "talk", n)
    BY <1>4 DEF Talk
  <2>. QED
    BY <2>1, StepPlays
<1>5. CASE UNCHANGED packVars
  BY <1>5 DEF packVars, LoadedPlays, HiddenUnreached, RaisesOnlyWithoutTarget, HiddenPlaces, Listed, HasMark
<1>. QED
  BY <1>1, <1>2, <1>3, <1>4, <1>5 DEF PackNext, PlayNext

\* Of however many places a world has: no move, flight or sneak ends in a hidden
\* one (_runtime_visible_exits).
THEOREM HiddenStaysUnreached == PackSpec => []HiddenUnreached
  BY InitPlays, NextPlays, PTL DEF PackSpec

\* However many quests with however many triggers a world has: a step of a game
\* fails for a trigger only as RaisesOnlyWithoutTarget says (quests.py against
\* _validate_references).
THEOREM OnlyWithoutTarget == PackSpec => []RaisesOnlyWithoutTarget
  BY InitPlays, NextPlays, PTL DEF PackSpec

-----------------------------------------------------------------------------
(***************************************************************************)
(* Types.  A game stays one of its pack because its triggers run one after *)
(* the other on quests at stages the pack has.                             *)
(***************************************************************************)

LEMMA DefTyped ==
    ASSUME NEW p \in PackDefs, NEW x \in Ids
    PROVE  p.def[x] \in DefsOf(x)
  BY DEF PackDefs

LEMMA IdsOfFiles ==
    /\ Places \subseteq Ids /\ Npcs \subseteq Ids /\ QuestIds \subseteq Ids /\ Examples \subseteq Ids
    /\ \A file \in Listings : file \subseteq Ids
  BY DEF Ids, Listings

LEMMA ListedTyped ==
    ASSUME NEW p \in PackDefs
    PROVE  /\ \A q \in Listed(p, QuestIds) : p.def[q] \in QuestDefs
           /\ \A file : Listed(p, file) \subseteq file
  BY DefTyped, IdsOfFiles DEF Listed, DefsOf

LEMMA WithTyped ==
    ASSUME NEW p \in PackDefs, NEW new, \A x \in DOMAIN new \cap Ids : new[x] \in DefsOf(x)
    PROVE  With(p, new) \in PackDefs
<1>. DEFINE def == [x \in Ids |-> IF x \in DOMAIN new THEN new[x] ELSE p.def[x]]
            q == [p EXCEPT !.def = def]
<1>1. p \in [start : Places, def : [Ids -> EntityDefs \cup QuestDefs \cup {Absent}]]
  BY DEF PackDefs
<1>2. \A x \in Ids : def[x] \in DefsOf(x)
  BY DefTyped
<1>3. \A x \in Ids : DefsOf(x) \subseteq EntityDefs \cup QuestDefs \cup {Absent}
  BY DEF DefsOf
<1>4. def \in [Ids -> EntityDefs \cup QuestDefs \cup {Absent}]
  BY <1>2, <1>3
<1>5. q.start = p.start /\ q.def = def /\ q = [start |-> p.start, def |-> def]
  <2>. HIDE DEF def
  <2>. QED
    BY <1>1
<1>6. With(p, new) = q
  BY DEF With
<1>. HIDE DEF def, q
<1>7. q \in [start : Places, def : [Ids -> EntityDefs \cup QuestDefs \cup {Absent}]]
  BY <1>1, <1>4, <1>5
<1>. QED
  BY <1>2, <1>5, <1>6, <1>7 DEF PackDefs

LEMMA VersionsTyped ==
    ASSUME NEW ids, NEW new \in Versions(ids)
    PROVE  DOMAIN new = ids /\ \A x \in ids \cap Ids : new[x] \in DefsOf(x)
  BY DefsAssumption DEF Versions

LEMMA YamlTyped ==
    ASSUME NEW q \in QuestIds, NEW d \in DefsOf(q)
    PROVE  GraphToYaml(d) \in DefsOf(q)
<1>1. CASE d = Absent
  BY <1>1 DEF GraphToYaml, DefsOf
<1>2. CASE d # Absent
  <2>1. d \in QuestDefs
    BY <1>2 DEF DefsOf
  <2>2. \A o \in ObjectiveDefs : YamlObjective(o) \in ObjectiveDefs
    BY DEF YamlObjective, ObjectiveDefs
  <2>. DEFINE objectives == {YamlObjective(o) : o \in d.objectives}
  <2>3. objectives \subseteq ObjectiveDefs
    BY <2>1, <2>2 DEF QuestDefs
  <2>. HIDE DEF objectives
  <2>4. [d EXCEPT !.objectives = objectives] \in QuestDefs
    BY <2>1, <2>3 DEF QuestDefs
  <2>. QED
    BY <1>2, <2>4 DEF GraphToYaml, DefsOf, objectives
<1>. QED
  BY <1>1, <1>2

LEMMA CharacterTyped ==
    ASSUME pack \in PackDefs, NEW n \in Npcs, NEW d \in Defs[n] \ {Absent},
           NEW asked \in SUBSET Examples, NEW samples \in Versions(asked)
    PROVE  \A x \in DOMAIN Character(n, d, samples) \cap Ids : Character(n, d, samples)[x] \in DefsOf(x)
<1>. DEFINE edited == {"stands", "sample"}
            refs == {r \in pack.def[n].refs : r.slot \notin edited} \cup {r \in d.refs : r.slot \in edited}
            npc == IF pack.def[n] = Absent THEN Absent ELSE [pack.def[n] EXCEPT !.refs = refs]
<1>1. n \in Ids /\ d \in DefsOf(n) /\ pack.def[n] \in DefsOf(n)
  BY DefsAssumption, IdsOfFiles, DefTyped
<1>2. DOMAIN samples = asked /\ \A x \in asked \cap Ids : samples[x] \in DefsOf(x)
  BY VersionsTyped
<1>3. npc \in DefsOf(n)
  <2>1. CASE pack.def[n] = Absent
    BY <2>1 DEF DefsOf
  <2>2. CASE pack.def[n] # Absent
    <3>1. d \in EntityDefs \cup QuestDefs /\ pack.def[n] \in EntityDefs \cup QuestDefs
      BY <1>1, <2>2 DEF DefsOf
    <3>2. refs \subseteq Refs
      BY <3>1 DEF EntityDefs, QuestDefs
    <3>. HIDE DEF refs
    <3>3. CASE n \in QuestIds
      <4>1. pack.def[n] \in QuestDefs
        BY <1>1, <2>2, <3>3 DEF DefsOf
      <4>2. [pack.def[n] EXCEPT !.refs = refs] \in QuestDefs
        BY <3>2, <4>1 DEF QuestDefs
      <4>. QED
        BY <2>2, <3>3, <4>2 DEF DefsOf
    <3>4. CASE n \notin QuestIds
      <4>1. pack.def[n] \in EntityDefs
        BY <1>1, <2>2, <3>4 DEF DefsOf
      <4>2. [pack.def[n] EXCEPT !.refs = refs] \in EntityDefs
        BY <3>2, <4>1 DEF EntityDefs
      <4>. QED
        BY <2>2, <3>4, <4>2 DEF DefsOf
    <3>. QED
      BY <3>3, <3>4
  <2>. QED
    BY <2>1, <2>2
<1>4. Character(n, d, samples) = [x \in {n} \cup DOMAIN samples |-> IF x = n THEN npc ELSE samples[x]]
  BY DEF Character
<1>. HIDE DEF npc
<1>. QED
  BY <1>2, <1>3, <1>4

LEMMA AuthorsTyped ==
    ASSUME pack \in PackDefs, edits \in 0..MaxEdits, AuthorNext
    PROVE  pack' \in PackDefs /\ edits' \in 0..MaxEdits
<1>1. ASSUME NEW p \in PackDefs, NEW ok, Save(p, ok)
      PROVE  pack' \in PackDefs /\ edits' \in 0..MaxEdits
  BY <1>1, DefsAssumption DEF Save
<1>2. ASSUME NEW file \in Listings, NEW new \in Versions(file), SaveFile(file, new)
      PROVE  pack' \in PackDefs /\ edits' \in 0..MaxEdits
  <2>1. With(pack, new) \in PackDefs
    BY VersionsTyped, WithTyped
  <2>. QED
    BY <1>1, <1>2, <2>1 DEF SaveFile
<1>3. ASSUME NEW x \in Places, SaveManifest(x)
      PROVE  pack' \in PackDefs /\ edits' \in 0..MaxEdits
  <2>1. [pack EXCEPT !.start = x] \in PackDefs
    BY DEF PackDefs
  <2>. QED
    BY <1>1, <1>3, <2>1 DEF SaveManifest
<1>4. ASSUME NEW new \in Versions(QuestIds), SaveQuestGraph(new)
      PROVE  pack' \in PackDefs /\ edits' \in 0..MaxEdits
  <2>. DEFINE yaml == [q \in QuestIds |-> GraphToYaml(new[q])]
  <2>1. \A q \in QuestIds : new[q] \in DefsOf(q)
    BY VersionsTyped, IdsOfFiles
  <2>2. DOMAIN yaml = QuestIds /\ \A q \in QuestIds : yaml[q] \in DefsOf(q)
    BY <2>1, YamlTyped
  <2>3. Save(With(pack, yaml), GraphGate(new))
    BY <1>4 DEF SaveQuestGraph
  <2>. HIDE DEF yaml
  <2>4. With(pack, yaml) \in PackDefs
    BY <2>2, WithTyped
  <2>. QED
    BY <1>1, <2>3, <2>4
<1>5. ASSUME NEW n \in Npcs, NEW asked \in SUBSET Examples, NEW d \in Defs[n] \ {Absent},
             NEW samples \in Versions(asked), SaveCharacter(n, d, samples)
      PROVE  pack' \in PackDefs /\ edits' \in 0..MaxEdits
  <2>1. With(pack, Character(n, d, samples)) \in PackDefs
    BY CharacterTyped, WithTyped
  <2>. QED
    BY <1>1, <1>5, <2>1 DEF SaveCharacter
<1>. QED
  BY <1>2, <1>3, <1>4, <1>5 DEF AuthorNext

\* What a quest of a running game may be.
Running(d) == [status : {"inactive", "active"}, known : BOOLEAN,
               stage : d.stages \cap Stages, done : SUBSET Objectives]

\* A trigger that names what its action asks for leaves the quest at one of its stages.
LEMMA TriggeredRuns ==
    ASSUME NEW d \in QuestDefs, d.first \in d.stages, NEW i \in DOMAIN d.triggers,
           ~Raises(d, d.triggers[i]), NEW q \in Running(d)
    PROVE  Rules(d.first)!Triggered(q, d.triggers[i]) \in Running(d)
<1>. DEFINE t == d.triggers[i]
            S == d.stages \cap Stages
<1>1. d.first \in S /\ d.objectives \subseteq ObjectiveDefs
  BY DEF QuestDefs
<1>2. t \in Triggers
  <2>1. d.triggers \in Seq(Triggers)
    BY DEF QuestDefs
  <2>. QED
    BY <2>1
<1>3. \A o \in Shown(d) : o \in Objectives
  BY <1>1 DEF Shown, ObjectiveDefs
<1>4. /\ t.action = "advance" => t.stage \in S
      /\ t.action = "complete" => t.objective \in Objectives /\ t.stage \in S \cup {NoTarget}
  <2>1. t.stage \in Stages \cup {NoTarget} /\ d.stages \subseteq Stages
    BY <1>2 DEF Triggers, QuestDefs
  <2>2. /\ t.action = "advance" => t.stage \in d.stages
        /\ t.action = "complete" => t.objective \in Shown(d) /\ t.stage \in d.stages \cup {NoTarget}
    BY DEF Raises
  <2>. QED
    BY <1>3, <2>1, <2>2
<1>5. t.action \in {"activate", "advance", "complete"}
  BY <1>2 DEF Triggers
<1>. HIDE DEF t, S
<1>6. \A v \in Running(d) : Rules(d.first)!Activate(v) \in Running(d)
  BY <1>1 DEF Rules!Activate, Running, S
<1>7. \A v \in Running(d), stage \in S : Rules(d.first)!Advance(v, stage) \in Running(d)
  BY <1>6 DEF Rules!Advance, Running, S
<1>8. \A v \in Running(d), o \in Objectives : Rules(d.first)!CompleteObjective(v, o) \in Running(d)
  BY <1>6 DEF Rules!CompleteObjective, Running
<1>9. Rules(d.first)!Triggered(q, t) \in Running(d)
  <2>1. CASE t.action = "activate"
    BY <1>6, <2>1 DEF Rules!Triggered
  <2>2. CASE t.action = "advance"
    BY <1>4, <1>7, <2>2 DEF Rules!Triggered
  <2>3. CASE t.action = "complete"
    <3>1. Rules(d.first)!CompleteObjective(q, t.objective) \in Running(d)
      BY <1>4, <1>8, <2>3
    <3>. QED
      BY <1>4, <1>7, <2>3, <3>1 DEF Rules!Triggered
  <2>. QED
    BY <1>5, <2>1, <2>2, <2>3
<1>. QED
  BY <1>9 DEF t

LEMMA AfterRuns ==
    ASSUME NEW d \in QuestDefs, d.first \in d.stages, NEW kind, NEW of, ~Fails(d, kind, of),
           NEW quest \in Running(d)
    PROVE  After(d, quest, kind, of) \in Running(d)
<1>. DEFINE n == Len(d.triggers)
            V == Running(d)
            Next1(i, v) == IF Fires(d.triggers[i], kind, of)
                           THEN Rules(d.first)!Triggered(v, d.triggers[i]) ELSE v
            step == [x \in (1..n) \X V |-> Next1(x[1], x[2])]
            Fits(f) == f = [i \in 0..n |-> IF i = 0 THEN quest ELSE Next1(i, f[i - 1])]
            run == CHOOSE f : Fits(f)
<1>1. n \in Nat /\ DOMAIN d.triggers = 1..n
  <2>1. d.triggers \in Seq(Triggers)
    BY DEF QuestDefs
  <2>. QED
    BY <2>1
<1>2. \A i \in 1..n : \A v \in V : Next1(i, v) \in V
  <2>1. ASSUME NEW i \in 1..n, NEW v \in V, Fires(d.triggers[i], kind, of)
        PROVE  Rules(d.first)!Triggered(v, d.triggers[i]) \in V
    <3>1. i \in DOMAIN d.triggers /\ ~Raises(d, d.triggers[i])
      BY <1>1, <2>1 DEF Fails
    <3>. QED
      BY <3>1, TriggeredRuns
  <2>. HIDE DEF V
  <2>. QED
    BY <2>1
<1>3. After(d, quest, kind, of) = run[n]
  BY DEF After
<1>. HIDE DEF V, Next1
<1>4. quest \in V
  BY DEF V
<1>5. step \in [(1..n) \X V -> V]
  BY <1>2
<1>6. PICK f \in [0..n -> V] : Iterates(f, n, quest, step)
  <2>. HIDE DEF step, n
  <2>. QED
    BY <1>1, <1>4, <1>5, Iteration
<1>7. ASSUME NEW i \in 0..n
      PROVE  f[i] = IF i = 0 THEN quest ELSE Next1(i, f[i - 1])
  <2>1. f[i] = IF i = 0 THEN quest ELSE step[<<i, f[i - 1]>>]
    BY <1>6 DEF Iterates
  <2>2. CASE i # 0
    <3>1. i \in 1..n /\ i - 1 \in 0..n
      BY <1>1, <2>2
    <3>2. step[<<i, f[i - 1]>>] = Next1(i, f[i - 1])
      BY <1>6, <3>1
    <3>. QED
      BY <2>1, <2>2, <3>2
  <2>. QED
    BY <2>1, <2>2
<1>8. Fits(f)
  BY <1>6, <1>7
<1>9. Fits(run)
  <2>. HIDE DEF Fits
  <2>. QED
    BY <1>8
<1>. HIDE DEF run, n
<1>10. run[0] = quest /\ \A i \in 1..n : run[i] = Next1(i, run[i - 1])
  BY <1>1, <1>9
<1>11. \A i \in 1..n : run[i - 1] \in V => run[i] \in V
  BY <1>2, <1>10
<1>12. \A i \in 0..n : run[i] \in V
  BY <1>1, <1>4, <1>10, <1>11, Inherited
<1>. QED
  BY <1>1, <1>3, <1>12 DEF V

-----------------------------------------------------------------------------
(* Games *)

GameRuns(g, p) ==
    /\ g.at \in Listed(p, Places) /\ DOMAIN g = {"at", "quest"} /\ g = [at |-> g.at, quest |-> g.quest]
    /\ g.quest = [q \in Listed(p, QuestIds) |-> g.quest[q]]
    /\ \A q \in Listed(p, QuestIds) : g.quest[q] \in Running(p.def[q])

LEMMA RunsIsGame ==
    ASSUME NEW p \in PackDefs, NEW g, GameRuns(g, p)
    PROVE  g \in Games(p) /\ \A q \in DOMAIN g.quest : g.quest[q].stage \in p.def[q].stages
<1>. DEFINE Book == [status : {"inactive", "active"}, known : BOOLEAN,
                     stage : Stages, done : SUBSET Objectives]
<1>1. \A q \in Listed(p, QuestIds) : g.quest[q] \in Book /\ g.quest[q].stage \in p.def[q].stages
  BY DEF GameRuns, Running
<1>. HIDE DEF Book
<1>2. g.quest \in [Listed(p, QuestIds) -> Book] /\ DOMAIN g.quest = Listed(p, QuestIds)
  BY <1>1 DEF GameRuns
<1>3. g \in [at : Listed(p, Places), quest : [Listed(p, QuestIds) -> Book]]
  BY <1>2 DEF GameRuns
<1>. QED
  BY <1>1, <1>2, <1>3 DEF Games, Book

\* The inductive invariant behind PackTypeOK: a game is one of a pack the loader took.
PlayTyped ==
    /\ pack \in PackDefs /\ loaded \in PackDefs /\ edits \in 0..MaxEdits
    /\ game # NoGame => LoadsWorld(loaded) /\ GameRuns(game, loaded)
    /\ outcome \in {"none", "saved", "refused", "started", "unloadable", "played", "raised"}

LEMMA InitTyped == PackInit => PlayTyped
  BY DefsAssumption DEF PackInit, PlayTyped

LEMMA FirstRuns ==
    ASSUME NEW p \in PackDefs, LoadsWorld(p)
    PROVE  GameRuns(FirstState(p), p)
<1>. DEFINE quest == [q \in Listed(p, QuestIds) |-> FirstQuest(p, q)]
<1>1. FirstState(p) = [at |-> p.start, quest |-> quest]
  BY DEF FirstState
<1>2. p.start \in Listed(p, Places)
  BY DEF LoadsWorld, LoadPlacesAndNpcs
<1>3. ASSUME NEW q \in Listed(p, QuestIds)
      PROVE  FirstQuest(p, q) \in Running(p.def[q])
  <2>1. p.def[q].first \in p.def[q].stages \cap Stages
    BY ListedTyped DEF LoadsWorld, LoadQuest, QuestDefs
  <2>2. HasMark(p, q, "public") \in BOOLEAN
    BY DEF HasMark
  <2>. QED
    BY <2>1, <2>2 DEF FirstQuest, Running
<1>4. quest = [q \in Listed(p, QuestIds) |-> quest[q]]
      /\ \A q \in Listed(p, QuestIds) : quest[q] \in Running(p.def[q])
  BY <1>3
<1>. HIDE DEF quest
<1>. QED
  BY <1>1, <1>2, <1>4 DEF GameRuns

\* A step goes to a place of the pack, and its triggers keep the quests.
LEMMA StepTyped ==
    ASSUME PlayTyped, game # NoGame, NEW at \in Listed(loaded, Places), NEW kind, NEW of,
           Step(at, kind, of)
    PROVE  PlayTyped'
<1>1. loaded \in PackDefs /\ LoadsWorld(loaded) /\ GameRuns(game, loaded)
  BY DEF PlayTyped
<1>2. UNCHANGED <<pack, loaded, edits>>
  BY DEF Step
<1>3. CASE \E q \in Listed(loaded, QuestIds) : Fails(loaded.def[q], kind, of)
  <2>1. UNCHANGED game /\ outcome' = "raised"
    BY <1>3 DEF Step
  <2>2. PICK p, g : p = loaded /\ g = game
    OBVIOUS
  <2>3. loaded' = p /\ game' = g /\ p \in PackDefs /\ LoadsWorld(p) /\ GameRuns(g, p)
    BY <1>1, <1>2, <2>1, <2>2
  <2>. QED
    BY <1>2, <2>1, <2>3 DEF PlayTyped
<1>4. CASE ~\E q \in Listed(loaded, QuestIds) : Fails(loaded.def[q], kind, of)
  <2>1. PICK p, g : p = loaded /\ g = game
    OBVIOUS
  <2>. DEFINE quest == [q \in DOMAIN g.quest |-> After(p.def[q], g.quest[q], kind, of)]
  <2>2. outcome' = "played" /\ game' = [at |-> at, quest |-> quest]
    BY <1>4, <2>1 DEF Step
  <2>3. p \in PackDefs /\ LoadsWorld(p) /\ GameRuns(g, p)
    BY <1>1, <2>1
  <2>4. DOMAIN g.quest = Listed(p, QuestIds)
    BY <2>3 DEF GameRuns
  <2>5. ASSUME NEW q \in Listed(p, QuestIds)
        PROVE  quest[q] \in Running(p.def[q])
    <3>1. ~Fails(p.def[q], kind, of)
      BY <1>4, <2>1
    <3>2. p.def[q] \in QuestDefs /\ p.def[q].first \in p.def[q].stages
      BY <2>3, ListedTyped DEF LoadsWorld, LoadQuest
    <3>3. g.quest[q] \in Running(p.def[q])
      BY <2>3 DEF GameRuns
    <3>. QED
      BY <2>4, <3>1, <3>2, <3>3, AfterRuns
  <2>6. quest = [q \in Listed(p, QuestIds) |-> quest[q]]
    BY <2>4
  <2>. HIDE DEF quest
  <2>. DEFINE h == [at |-> at, quest |-> quest]
  <2>7. GameRuns(h, p)
    BY <2>1, <2>5, <2>6 DEF GameRuns
  <2>. HIDE DEF h
  <2>8. game' = h /\ loaded' = p
    BY <1>2, <2>1, <2>2 DEF h
  <2>. QED
    BY <1>2, <2>2, <2>3, <2>7, <2>8 DEF PlayTyped
<1>. QED
  BY <1>3, <1>4

LEMMA NextTyped == PlayTyped /\ [PackNext]_packVars => PlayTyped'
<1>. SUFFICES ASSUME PlayTyped, [PackNext]_packVars
              PROVE  PlayTyped'
  OBVIOUS
<1>1. ASSUME UNCHANGED <<game, loaded>>, pack' \in PackDefs, edits' \in 0..MaxEdits,
             outcome' \in {"none", "saved", "refused", "started", "unloadable", "played", "raised"}
      PROVE  PlayTyped'
  <2>1. PICK p, g : p = loaded /\ g = game
    OBVIOUS
  <2>2. p \in PackDefs /\ (g # NoGame => LoadsWorld(p) /\ GameRuns(g, p))
    BY <2>1 DEF PlayTyped
  <2>3. loaded' = p /\ game' = g
    BY <1>1, <2>1
  <2>. QED
    BY <1>1, <2>2, <2>3 DEF PlayTyped
<1>2. CASE AuthorNext
  <2>1. pack' \in PackDefs /\ edits' \in 0..MaxEdits
    BY <1>2, AuthorsTyped DEF PlayTyped
  <2>2. UNCHANGED <<game, loaded>> /\ outcome' \in {"saved", "refused"}
    BY <1>2, AuthorsKeepGames
  <2>. QED
    BY <1>1, <2>1, <2>2
<1>3. CASE StartGame
  <2>1. pack' \in PackDefs /\ edits' \in 0..MaxEdits
    BY <1>3 DEF StartGame, PlayTyped
  <2>2. CASE Loads(pack)
    <3>1. PICK p \in PackDefs : p = pack
      BY DEF PlayTyped
    <3>2. LoadsWorld(p) /\ game' = FirstState(p) /\ loaded' = p /\ outcome' = "started"
      BY <1>3, <2>2, <3>1 DEF StartGame, Loads
    <3>3. PICK g : g = FirstState(p)
      OBVIOUS
    <3>4. GameRuns(g, p) /\ game' = g
      BY <3>2, <3>3, FirstRuns
    <3>. QED
      BY <2>1, <3>2, <3>4 DEF PlayTyped
  <2>3. CASE ~Loads(pack)
    BY <1>1, <1>3, <2>1, <2>3 DEF StartGame
  <2>. QED
    BY <2>2, <2>3
<1>4. ASSUME NEW x \in Places, Move(x)
      PROVE  PlayTyped'
  <2>1. game # NoGame /\ x \in Links(loaded, game.at, "exit") /\ Step(x, "visit", x)
    BY <1>4 DEF Move, Exits
  <2>2. LoadsWorld(loaded) /\ GameRuns(game, loaded)
    BY <2>1 DEF PlayTyped
  <2>3. x \in Listed(loaded, Places)
    BY <2>1, <2>2 DEF LoadsWorld, LoadPlacesAndNpcs, Into, GameRuns
  <2>. QED
    BY <2>1, <2>3, StepTyped
<1>5. ASSUME NEW n \in Npcs, Talk(n)
      PROVE  PlayTyped'
  <2>1. game # NoGame /\ Step(game.at, "talk", n)
    BY <1>5 DEF Talk
  <2>2. game.at \in Listed(loaded, Places)
    BY <2>1 DEF PlayTyped, GameRuns
  <2>. QED
    BY <2>1, <2>2, StepTyped
<1>6. CASE UNCHANGED packVars
  BY <1>1, <1>6 DEF packVars, PlayTyped
<1>. QED
  BY <1>2, <1>3, <1>4, <1>5, <1>6 DEF PackNext, PlayNext

\* For any pack and any number of quests and triggers: what is saved, by hand or by an
\* editor, is a pack, and a game stands at a place of the pack it was started from with
\* each quest at one of the stages that quest has, whatever triggers moved it there
\* (to_game_state, and the rules of quests.py for triggers the loader let pass).
THEOREM PlayTypeCorrect == PackSpec => []PackTypeOK
<1>1. PlayTyped => PackTypeOK
  BY RunsIsGame DEF PlayTyped, PackTypeOK
<1>. QED
  BY InitTyped, NextTyped, <1>1, PTL DEF PackSpec
===============================================================================
