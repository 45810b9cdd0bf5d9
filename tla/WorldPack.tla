------------------------------ MODULE WorldPack ------------------------------
(***************************************************************************)
(* What the files of a world pack say, who checks it, and what a game      *)
(* makes of it (backend/app/engine/content: validator.py, quest_graph.py,  *)
(* rp_character_authoring.py, world_loader.py; engine/rules/quests.py).    *)
(*                                                                         *)
(* Two pieces of code check the references of a pack.  validate_world_pack *)
(* stands behind the gate of every save; WorldLoader checks once more when *)
(* a game is started, and its to_game_state leaves out what the player     *)
(* must not see.  A save is one step here: how it is written, file by      *)
(* file, and rolled back is in WorldContent.  Texts are left out but for   *)
(* the facts they mention.                                                 *)
(***************************************************************************)
EXTENDS Integers, Sequences

CONSTANTS
    Places, Npcs, Items, Facts, Factions, Rumors, Bonds, QuestIds, Examples,  \* ids by file
    Stages,      \* ids of stages
    Objectives,  \* ids and texts of objectives
    Player,
    Absent,      \* the file does not list the id
    NoTarget,    \* a trigger without an objective, or without a next stage
    NoGame,
    Defs,        \* what the file may say of each id
    OldPacks,    \* what the world may be in the beginning
    MaxEdits     \* bound on saves

VARIABLES
    pack,     \* start_location_id and the definition of each id
    game,     \* what of the GameState changes
    loaded,   \* the pack the game was started from
    outcome,  \* how the last request ended
    edits

packVars == <<pack, game, loaded, outcome, edits>>

\* A file is known by the ids it may list: locations.yaml, npcs.yaml, ...
\* relationships.yaml are Bonds, example_dialogues.yaml are Examples.
Listings == {Places, Npcs, Items, Facts, Factions, Rumors, Bonds, QuestIds, Examples}
Ids == UNION Listings

Slots == {"exit", "stands", "planned", "member", "shop", "goal", "sample", "lies", "held", "inside",
          "relation", "knows", "about", "tells", "heard", "spread", "source", "target",
          "speaker", "mentions"}
Marks == {"hidden", "public", "promptsafe"}
Refs == [slot : Slots, to : Ids \cup {Player}]
Paths == {"next", "failure", "alternate"}
TriggerKinds == {"fact", "item", "talk", "visit", "reputation"}
Triggers == [kind : TriggerKinds, of : Ids, action : {"activate", "advance", "complete"},
             objective : Objectives \cup {NoTarget}, stage : Stages \cup {NoTarget}]

\* An objective is a mapping, or a text, which is then its id as well.
ObjectiveDefs == [id : Objectives, text : Objectives, hidden : BOOLEAN]

EntityDefs == [refs : SUBSET Refs, marks : SUBSET Marks]
QuestDefs == [refs : SUBSET Refs, marks : SUBSET Marks, first : Stages, stages : SUBSET Stages,
              paths : SUBSET [path : Paths, to : Stages],
              objectives : SUBSET ObjectiveDefs, triggers : Seq(Triggers)]
DefsOf(x) == (IF x \in QuestIds THEN QuestDefs ELSE EntityDefs) \cup {Absent}
PackDefs == {p \in [start : Places, def : [Ids -> EntityDefs \cup QuestDefs \cup {Absent}]] :
             \A x \in Ids : p.def[x] \in DefsOf(x)}

Listed(p, file) == {x \in file : p.def[x] # Absent}
Links(p, x, slot) == {r.to : r \in {r \in p.def[x].refs : r.slot = slot}}
\* "public" is a visibility, or that the player knows of a relationship.
HasMark(p, x, mark) == mark \in p.def[x].marks
Into(p, file, slot, targets) == \A x \in Listed(p, file) : Links(p, x, slot) \subseteq targets
Actors(p) == Listed(p, Npcs) \cup {Player}

-----------------------------------------------------------------------------
(* validate_world_pack *)

ValidPlaces(p) ==
    /\ p.start \in Listed(p, Places)
    /\ Into(p, Places, "exit", Listed(p, Places))

ValidNpcs(p) ==
    /\ Into(p, Npcs, "stands", Listed(p, Places))
    /\ Into(p, Npcs, "planned", Listed(p, Places))
    /\ Into(p, Npcs, "member", Listed(p, Factions))
    /\ Into(p, Npcs, "shop", Listed(p, Items))

\* _validate_npc_goals
ValidGoals(p) ==
    Into(p, Npcs, "goal", Listed(p, Facts \cup Items \cup Npcs \cup Places \cup QuestIds))

\* ItemDef: one place, one owner or one container.
Placed(d) == \E r \in d.refs : {q \in d.refs : q.slot \in {"lies", "held", "inside"}} = {r}

ValidItems(p) ==
    /\ \A i \in Listed(p, Items) : Placed(p.def[i])
    /\ Into(p, Items, "lies", Listed(p, Places))
    /\ Into(p, Items, "held", Actors(p))
    /\ Into(p, Items, "inside", Listed(p, Items))

ValidTalk(p) ==
    /\ Into(p, Factions, "relation", Listed(p, Factions))
    /\ Into(p, Facts, "knows", Actors(p))
    /\ Into(p, Rumors, "about", Listed(p, Facts))
    /\ Into(p, Rumors, "heard", Listed(p, Npcs))
    /\ Into(p, Rumors, "spread", Listed(p, Factions))

ValidBonds(p) ==
    /\ Into(p, Bonds, "source", Actors(p))
    /\ Into(p, Bonds, "target", Actors(p))
    /\ \A b \in Listed(p, Bonds) : ~(HasMark(p, b, "hidden") /\ HasMark(p, b, "public"))

TriggerFile(kind) == CASE kind = "fact" -> Facts [] kind = "item" -> Items [] kind = "talk" -> Npcs
                       [] kind = "visit" -> Places [] kind = "reputation" -> Factions

\* Hidden objectives count, and a trigger may lack the target its action asks for.
ObjectiveIds(d) == {o.id : o \in d.objectives}
ValidTrigger(p, d, t) ==
    /\ t.of \in Listed(p, TriggerFile(t.kind))
    /\ t.objective \in ObjectiveIds(d) \cup {NoTarget}
    /\ t.stage \in d.stages \cup {NoTarget}
ValidQuest(p, d) ==
    /\ d.first \in d.stages
    /\ \A path \in d.paths : path.to \in d.stages
    /\ \A i \in DOMAIN d.triggers : ValidTrigger(p, d, d.triggers[i])

\* validate_world_pack finds no error.  It does not read example_dialogues.yaml.
ValidPack(p) ==
    /\ ValidPlaces(p) /\ ValidNpcs(p) /\ ValidGoals(p) /\ ValidItems(p) /\ ValidTalk(p) /\ ValidBonds(p)
    /\ \A q \in Listed(p, QuestIds) : ValidQuest(p, p.def[q])

\* _validate_visibility_boundaries: warnings the gate turns into errors.
Reveals(p) == \E f \in Listed(p, Facts) :
    /\ HasMark(p, f, "hidden")
    /\ \/ Player \in Links(p, f, "knows")
       \/ \E r \in Listed(p, Rumors) : f \in Links(p, r, "about") \cap Links(p, r, "tells")
       \/ \E q \in Listed(p, QuestIds) : HasMark(p, q, "public") /\ f \in Links(p, q, "tells")

Accepts(p) == ValidPack(p) /\ ~Reveals(p)

\* What is there in the beginning has passed the gate.
ASSUME DefsAssumption ==
    /\ \A p \in OldPacks : p \in PackDefs /\ Accepts(p)
    /\ \A x \in Ids : Defs[x] \subseteq DefsOf(x)
    /\ MaxEdits \in Nat

-----------------------------------------------------------------------------
(* WorldLoader *)

LoadPlacesAndNpcs(p) ==
    /\ p.start \in Listed(p, Places)
    /\ Into(p, Places, "exit", Listed(p, Places))
    /\ Into(p, Npcs, "stands", Listed(p, Places))
    /\ Into(p, Npcs, "planned", Listed(p, Places))
    /\ Into(p, Npcs, "member", Listed(p, Factions))
    /\ Into(p, Npcs, "shop", Listed(p, Items))

\* A container need not exist, and what NPCs heard factions may have heard.
LoadItems(p) ==
    /\ \A i \in Listed(p, Items) : Placed(p.def[i])
    /\ Into(p, Items, "lies", Listed(p, Places))
    /\ Into(p, Items, "held", Actors(p))

LoadTalk(p) ==
    /\ Into(p, Factions, "relation", Listed(p, Factions))
    /\ Into(p, Facts, "knows", Actors(p))
    /\ Into(p, Rumors, "about", Listed(p, Facts))
    /\ Into(p, Rumors, "heard", Listed(p, Npcs \cup Factions))
    /\ Into(p, Rumors, "spread", Listed(p, Factions))
    /\ Into(p, Bonds, "source", Actors(p))
    /\ Into(p, Bonds, "target", Actors(p))

LoadQuest(p, d) ==
    /\ d.first \in d.stages
    /\ \A path \in d.paths : path.to \in d.stages
    /\ \A i \in DOMAIN d.triggers :
          /\ d.triggers[i].of \in Listed(p, TriggerFile(d.triggers[i].kind))
          /\ d.triggers[i].objective \in ObjectiveIds(d) \cup {NoTarget}
          /\ d.triggers[i].stage \in d.stages \cup {NoTarget}

\* _prompt_unsafe_example_fact_id: a fact the player or the speaker does not know.
Unsafe(p, e, f) ==
    /\ f \in Links(p, e, "mentions")
    /\ ~/\ HasMark(p, f, "public") \/ Player \in Links(p, f, "knows")
       /\ Links(p, e, "speaker") \subseteq Links(p, f, "knows")

LoadExamples(p) ==
    /\ Into(p, Examples, "speaker", Listed(p, Npcs))
    /\ \A e \in Listed(p, Examples) : HasMark(p, e, "promptsafe") =>
          \A f \in Listed(p, Facts) : ~Unsafe(p, e, f)
    /\ Listed(p, Examples) # {} => Into(p, Npcs, "sample", Listed(p, Examples))

\* _validate_references but for the roleplay files, and all of it.
LoadsWorld(p) ==
    /\ LoadPlacesAndNpcs(p) /\ LoadItems(p) /\ LoadTalk(p)
    /\ \A q \in Listed(p, QuestIds) : LoadQuest(p, p.def[q])
Loads(p) == LoadsWorld(p) /\ LoadExamples(p)

-----------------------------------------------------------------------------
(* to_game_state *)

HiddenPlaces(p) == {x \in Listed(p, Places) : HasMark(p, x, "hidden")}

\* Mutant: only the place the exit leaves from is looked at.
ExitsToHidden(p, x) == IF x \in HiddenPlaces(p) THEN {} ELSE Links(p, x, "exit")

\* _runtime_visible_exits
Exits(p, x) == IF x \in HiddenPlaces(p) THEN {} ELSE Links(p, x, "exit") \ HiddenPlaces(p)

\* Mutant: only texts are taken over.
ShownTexts(d) == {o.id : o \in {o \in d.objectives : o.id = o.text /\ ~o.hidden}}

\* _runtime_visible_quest_objectives
Shown(d) == {o.id : o \in {o \in d.objectives : ~o.hidden}}

\* The rules of a quest whose initial stage is first.
Rules(first) == INSTANCE Quests WITH FirstStage <- first

\* Mutant: a quest has no stage before it is active.
FirstQuestUnset(p, q) ==
    [status |-> IF HasMark(p, q, "public") THEN "active" ELSE "inactive", known |-> HasMark(p, q, "public"),
     stage |-> IF HasMark(p, q, "public") THEN p.def[q].first ELSE NoTarget, done |-> {}]

FirstQuest(p, q) ==
    [status |-> IF HasMark(p, q, "public") THEN "active" ELSE "inactive",
     known |-> HasMark(p, q, "public"), stage |-> p.def[q].first, done |-> {}]
FirstState(p) == [at |-> p.start, quest |-> [q \in Listed(p, QuestIds) |-> FirstQuest(p, q)]]

Games(p) == [at : Listed(p, Places),
             quest : [Listed(p, QuestIds) -> [status : {"inactive", "active"}, known : BOOLEAN,
                                              stage : Stages, done : SUBSET Objectives]]]

-----------------------------------------------------------------------------
(* Authors *)

\* No game runs yet.
PackInit ==
    /\ pack \in OldPacks /\ game = NoGame /\ loaded = pack
    /\ outcome = "none" /\ edits = 0

With(p, new) == [p EXCEPT !.def = [x \in Ids |-> IF x \in DOMAIN new THEN new[x] ELSE p.def[x]]]

Save(p, ok) ==
    /\ edits < MaxEdits /\ edits' = edits + 1
    /\ IF ok THEN pack' = p /\ outcome' = "saved"
             ELSE outcome' = "refused" /\ UNCHANGED pack
    /\ UNCHANGED <<game, loaded>>

\* What a request may put in the place of some ids.
Versions(ids) == {new \in [ids -> UNION {Defs[x] : x \in ids}] : \A x \in ids : new[x] \in Defs[x]}

\* write_file of one file, by hand or from the editors of examples and places.
SaveFile(file, new) == Save(With(pack, new), Accepts(With(pack, new)))
SaveManifest(start) == Save([pack EXCEPT !.start = start], Accepts([pack EXCEPT !.start = start]))

\* _objective_to_mapping: a public objective is written as its text alone.
YamlObjective(o) == IF o.hidden THEN o ELSE [id |-> o.text, text |-> o.text, hidden |-> FALSE]
GraphToYaml(d) == IF d = Absent THEN Absent
                  ELSE [d EXCEPT !.objectives = {YamlObjective(o) : o \in d.objectives}]

\* _add_graph_validation_issues, as errors
GraphOK(d) == d = Absent \/
    /\ d.first \in d.stages
    /\ \A i \in DOMAIN d.triggers : d.triggers[i].objective \in ObjectiveIds(d) \cup {NoTarget}

\* Mutant: the graph is checked in the place of what is written.
GraphAccepts(new) == Accepts(With(pack, new)) /\ \A q \in QuestIds : GraphOK(new[q])

\* What save_quest_graph asks of the graph a request brings.
GraphGate(new) ==
    /\ Accepts(With(pack, [q \in QuestIds |-> GraphToYaml(new[q])]))
    /\ \A q \in QuestIds : GraphOK(new[q])

SaveQuestGraph(new) == Save(With(pack, [q \in QuestIds |-> GraphToYaml(new[q])]), GraphGate(new))

\* rp_character_to_yaml: of an NPC of the pack the place and the samples are
\* replaced; examples are added or replaced, never removed.
Character(n, d, samples) ==
    LET edited == {"stands", "sample"}
        npc == IF pack.def[n] = Absent THEN Absent
               ELSE [pack.def[n] EXCEPT !.refs = {r \in @ : r.slot \notin edited}
                                                 \cup {r \in d.refs : r.slot \in edited}]
    IN  [x \in {n} \cup DOMAIN samples |-> IF x = n THEN npc ELSE samples[x]]

\* A sample of the character must be safe; who speaks in it is not asked.
SaveCharacter(n, d, samples) ==
    LET p == With(pack, Character(n, d, samples))
    IN  Save(p, /\ Accepts(p)
                /\ \A e \in DOMAIN samples : [slot |-> "sample", to |-> e] \in d.refs =>
                                                  "promptsafe" \in samples[e].marks)

-----------------------------------------------------------------------------
(* Players *)

StartGame ==
    /\ IF Loads(pack)
       THEN game' = FirstState(pack) /\ loaded' = pack /\ outcome' = "started"
       ELSE outcome' = "unloadable" /\ UNCHANGED <<game, loaded>>
    /\ UNCHANGED <<pack, edits>>

\* advance_quest and complete_objective raise QuestRuleError.
Raises(d, t) ==
    \/ t.action = "advance" /\ t.stage \notin d.stages
    \/ t.action = "complete" /\ (t.objective \notin Shown(d) \/ t.stage \notin d.stages \cup {NoTarget})

Fires(t, kind, of) == t.kind = kind /\ t.of = of

\* The triggers of one quest that an action sets off, in the order of the file.
After(d, quest, kind, of) ==
    LET after[i \in 0..Len(d.triggers)] ==
            IF i = 0 THEN quest
            ELSE IF Fires(d.triggers[i], kind, of)
                 THEN Rules(d.first)!Triggered(after[i - 1], d.triggers[i])
                 ELSE after[i - 1]
    IN  after[Len(d.triggers)]

Fails(d, kind, of) ==
    \E i \in DOMAIN d.triggers : Fires(d.triggers[i], kind, of) /\ Raises(d, d.triggers[i])

\* A successful action and its triggers.  One that raises ends the step, which
\* leaves the state as it was.
Step(at, kind, of) ==
    /\ IF \E q \in Listed(loaded, QuestIds) : Fails(loaded.def[q], kind, of)
       THEN outcome' = "raised" /\ UNCHANGED game
       ELSE /\ outcome' = "played"
            /\ game' = [at |-> at,
                        quest |-> [q \in DOMAIN game.quest |->
                                      After(loaded.def[q], game.quest[q], kind, of)]]
    /\ UNCHANGED <<pack, loaded, edits>>

\* A move, flight or sneak through an exit.
Move(x) ==
    /\ game # NoGame /\ x \in Exits(loaded, game.at) /\ x # game.at
    /\ Step(x, "visit", x)

\* The NPC stands here or has followed its schedule.
Talk(n) ==
    /\ game # NoGame /\ n \in Listed(loaded, Npcs)
    /\ game.at \in Links(loaded, n, "stands") \cup Links(loaded, n, "planned")
    /\ Step(game.at, "talk", n)

-----------------------------------------------------------------------------
AuthorNext ==
    \/ \E file \in Listings : \E new \in Versions(file) : SaveFile(file, new)
    \/ \E x \in Places : SaveManifest(x)
    \/ \E new \in Versions(QuestIds) : SaveQuestGraph(new)
    \/ \E n \in Npcs, asked \in SUBSET Examples :
          \E d \in Defs[n] \ {Absent}, samples \in Versions(asked) :
             /\ \A e \in asked : samples[e] # Absent
             /\ SaveCharacter(n, d, samples)

PlayNext == StartGame \/ (\E x \in Places : Move(x)) \/ (\E n \in Npcs : Talk(n))

PackNext == AuthorNext \/ PlayNext
PackSpec == PackInit /\ [][PackNext]_packVars

-----------------------------------------------------------------------------
(* Properties *)

\* What is stored is a pack, and a game is one of the pack it was started from,
\* with its quests at stages they have.
PackTypeOK ==
    /\ pack \in PackDefs /\ loaded \in PackDefs /\ edits \in 0..MaxEdits
    /\ game # NoGame => /\ game \in Games(loaded)
                        /\ \A q \in DOMAIN game.quest : game.quest[q].stage \in loaded.def[q].stages
    /\ outcome \in {"none", "saved", "refused", "started", "unloadable", "played", "raised"}

\* A pack the gate let pass holds no reference the loader refuses, but for those
\* of the roleplay files: validator and loader check the rest alike, or the
\* validator more strictly.
AcceptedLoads == LoadsWorld(pack)

\* No way of exits leads the player into a place the author hid, whatever pack
\* was saved; only a game that starts in one has the player there.
HiddenUnreached == game # NoGame /\ game.at \in HiddenPlaces(loaded) => game.at = loaded.start

\* A step of a game fails only for a trigger that lacks what its action asks for,
\* or names an objective the player must not see: never for a reference that the
\* gate and the loader let pass.
RaisesOnlyWithoutTarget ==
    outcome = "raised" =>
        \E q \in Listed(loaded, QuestIds) : \E i \in DOMAIN loaded.def[q].triggers :
            LET t == loaded.def[q].triggers[i]
                hidden == {o \in loaded.def[q].objectives : o.hidden}
            IN  \/ t.action = "advance" /\ t.stage = NoTarget
                \/ t.action = "complete" /\ t.objective \in {o.id : o \in hidden} \cup {NoTarget}
=============================================================================
