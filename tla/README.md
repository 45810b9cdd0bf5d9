# Interactive Novel Story Engine: verification project

TLA+ models of the parts of the engine (`backend/app`) whose correctness depends
on order: what is stored and when, what two requests of one session do to each
other, what the world does after each turn of the player, how authors change a
world and what a game makes of it, and which model a call reaches. TLC checks the
models on small instances; TLAPS proves the theorems for every value of the
constants.

1. [Inventory](#1-inventory) 2. [Modules](#2-modules) 3. [Runs](#3-runs)
4. [Fairness](#4-fairness) 5. [Proofs](#5-proofs) 6. [Known races and behaviours](#6-known-races-and-behaviours)
7. [Not modelled](#7-not-modelled) 8. [What could follow](#8-what-could-follow)

## 1. Inventory

The backend is a FastAPI application (`main.py`, 509 synchronous endpoints, which
the server runs on a thread pool; nothing in the code takes a lock). The state of
a game lives in memory and is stored in SQLite when a client asks for it. Worlds,
provider profiles and the projects of the studios are files. The frontend is a
client of the HTTP API and keeps no state the backend relies on.

| Component | State | Operations | Interacts with | Modelled in |
| --- | --- | --- | --- | --- |
| Save store (`db/`) | tables `save_games`, `stored_events`, `stored_memories`, `migration_failures` | snapshot, load, delete, migrate (check, backup, apply, record failure), restore, export, import, persist a step, append, memories | sessions; the migration registry | `SaveStore` |
| Game session (`core/game_loop.py`, `core/event_log.py`, `session_store.py`, `roleplay/dialogue.py`) | `GameLoop.state`, `GameLoop.event_log`, the store's dict of loops, dialogue sessions | start, step, noop, restore, read for a save, start, continue and end a dialogue | action handlers, rules, narrator, save store | `GameSession`, `SessionStory`, `StoryBook` |
| Crimes, rumors and the world tick (`rules/world_tick.py`, `crime.py`, `social_tick.py`, `rumors.py`, ...) | the parts of `GameState` about NPCs, factions, crimes, rumors | schedule, reports, rumors, conflicts, reactions, plans | runs inside a step, between the action and the crime record | `SocialTick` |
| Actions and combat (`engine/actions`, `rules/combat.py`, `life_state.py`, `economy.py`) | player, NPCs, objects, fights, locks | one handler for each action type | returns deltas to the step | `Combat`, `Trade`, `TurnRules` |
| Quests and delayed consequences (`rules/quests.py`, `world_tick.py`) | stage, status, objectives; the list of consequences | trigger, activate, advance, complete; carry out what is due | after the action, and in the tick | `Quests`, `TurnRules` |
| World content (`content/authoring_service.py`, `world_branching.py`, `world_merge.py`, `import_export.py`) | YAML files of worlds and branches | write with gate, check and rollback, create, import, branch, merge | the validator; the loader reads the files at `start` | `WorldContent` |
| World packs (`content/validator.py`, `world_loader.py`, `quest_graph.py`, `rp_character_authoring.py`) | none: what the files mean | validate, load, make a game, edit through graphs and characters | `WorldContent` writes what they accept | `WorldPack` |
| Content templates and generators (`content/scenario_templates.py`, ...) | none | apply a template; draft content | files of a world | `WorldContent` (templates) |
| Provider routing and model clients (`llm/provider_*.py`, `openai_compatible_provider.py`) | profile files, assignments | edit, delete, synchronise, assign, select, try, fall back | intent parser, narrator, studios | `ProviderRouting` |
| State deltas (`core/state_delta.py`) | none: functions on `GameState` | `apply_delta`, `inverse_delta`, `rollback_delta` | every rule and handler returns deltas | - |
| Replay (`core/timeline_replay.py`) | none | dry run of a log, timeline | sorts the log its own way | order only, in `GameSession` |
| NPC simulation helpers (`rules/npc_*`) | plans, intents, moods, memories of NPCs | replanning, avoidance, decisions | most are only reached by their own endpoints | - |
| Memory and context (`llm/memory_store.py`, `context_builder.py`) | memory records | add, replace, list by visibility | save store | rows only, in `SaveStore` |
| Mods and gameplay modules (`content/mod_loader.py`, `engine/gameplay_module*.py`, `module_state.py`) | enabled mods, module state | discover, resolve order, migrate module state | action registry, saves | - |
| Cross-mode workflow (`platform/cross_mode.py`) | drafts, proposals, reviews, plans, audit records | propose, review, apply | projects on disk | - |
| Studio platforms (`platform/`) | projects, packages, policies | CRUD and policy checks | files | - |
| HTTP interface (`main.py`) | none | endpoints | passes requests on | the requests of the models |
| Desktop (`desktop/`) | workspace lists, backups, recovery plans | add, select, back up, restore | files | - |
| Quality, playtesting, evals, tools | none: they read and report | analyses | content and saves | - |
| Frontend (`frontend/`) | React state | display | HTTP API | - |

What is hard, and what makes each part correct:

- **Save store.** Every connection block is a transaction, but most operations
  are made of two or three, and another request or the death of the process comes
  between them. Correct means: nothing stored refers to a save that is gone, keys
  are unique, a loaded session is one that was saved, a migration happens once and
  leaves a backup that holds everything.
- **Game session.** A step reads the state, computes for as long as a model call
  takes, assigns the state, then appends one to three events. Correct means: the
  log explains the state, whatever the requests of the session do to each other.
- **World tick.** A crime reaches a faction on three ways (the record, the report
  phase, a plan) and a witness on two; each phase reads what the others left.
  Correct means: each consequence is drawn once, by those who can act, and what a
  witness saw comes out.
- **Turns.** Handler, triggers, tick, due consequences and triggers again work one
  after the other on copies of the state, and only the last is stored. Correct
  means: no trigger is missed between two copies, no consequence is drawn twice or
  lost, and no sequence of legal actions makes two of an item, heals the dead or
  brings in more money than the prices of two shops leave between them.
- **World content.** Several files are written one after the other and taken back
  when validation fails. Correct means: what was accepted is clean, what was
  refused left nothing, a merge takes what one side changed.
- **World packs.** The same references are checked by the validator, by the
  loader and by each editor. Correct means: what was accepted loads, what is hidden
  stays out of play, and play fails on nothing that was accepted.
- **Provider routing.** Profiles and assignments change while a call is under way;
  the choice is made on what was read before. Correct means: every call ends, the
  router names no model without JSON for what needs JSON (the client then calls the
  first model of the profile, section 6), what the router refuses reaches nobody, and a
  fallback satisfies the policy the primary had to satisfy (the code breaks the last).

## 2. Modules

| Module | Models | Composed of |
| --- | --- | --- |
| `SaveStore` | the database and every operation on it, with the sessions it stores | |
| `SaveClients` | the same for one kind of client: anyone, a player, a caller of `SaveService`, a keeper, a migrator | extends `SaveStore` |
| `GameSession` | one session's state and log under concurrent requests | |
| `Logs` | what a log says: its turn, its changes, their replay | used by `GameSession`, `SessionStory`, `StoryBook` |
| `SessionStory` | `GameSession` for a client that waits for its answers, or several at once | extends `GameSession`; implements `StoryBook` |
| `StoryBook` | abstract: a session is a story, the world is its replay | |
| `SocialTick` | the player's crimes and the phases of the world tick | |
| `Combat`, `Trade`, `Quests` | life states and blows; prices, with two modifiers for each merchant; quests and triggers | |
| `TurnRules` | one player action after the other, with triggers, tick and consequences | extends the three |
| `WorldContent` | the files of a world and its branches (`BranchAssumption`: no branch is the world), and who writes them | |
| `WorldPack` | what the files say, the two checks, the editors, and play | instantiates `Quests` |
| `ProviderRouting` | profiles, assignments, the router and its calls | |
| `Recursion` | induction over the index of a recursive function and over finite sets, sums | |
| `MC*` | instances for TLC: constants, and specifications for groups of requests | extend the module they instantiate; `MCAuthoring` both `WorldContent` and `WorldPack` |
| `*Proofs` | theorems about one module | extend it and `TLAPS` |

The modules of play cover one step of the program at three levels: `SocialTick` and `TurnRules`
what a successful step does to the world, `GameSession` how the step's result and
its events reach the shared state and log, `SaveStore` how both get to disk and
back. `GameSession!StateIsLog` is what `SaveStore` takes for granted of a session
(its `Play` appends an event of the turn of the state); `GameSession!ReadState` and
`ReadLog` are the two reads that `SaveStore!SaveGame` makes one. `WorldContent`
writes what `WorldPack` accepts: `Valid` and `Leaks` in
`WorldContent` are the gate over two files, `ValidPack`, `Reveals` and `Accepts` in
`WorldPack` the whole of it with a save as one step.

### SaveStore

A save id is a base id (a uuid) with the suffixes the code appends
(`.backup`, `.n`, `.pre-migration-backup`). A row keeps its turn, its schema
version and its migration history; an event row its key, save, event and sequence
number; the payload of a state is its turn. `req[w]` is the block the request of
worker `w` runs next, so each `with self._connect()` block is one action:
`migrate_save` is `MigrateCheck`, `MigrateBackup`, then `MigrateApply` or
`MigrateFail` and `RecordFailure`; `append_event` is `AppendExists`, `AppendSeq`,
`AppendInsert`, because its read of the next sequence number is not in the
transaction of the insert (sqlite3 opens one at the first write);
`restore_pre_migration_backup` is `RestorePlan`, `RestoreRead`, `RestoreWrite`;
`load_game` is `LoadState`, `LoadExists`, `LoadEvents`. `Crash` ends every session
and request and keeps the tables. `reply` is how the last request ended (`refused`:
an error of the repository; `uncaught`: any other exception).
Left out: `enabled_mods` and content versions (copied unchanged), dry runs (they
write nothing), and the two reads of `export_save`, taken as one.

`Spec` lets any number of workers run anything. Some promises are made to fewer: the
section on clients names them. `PlayerSpec` is a player's HTTP requests one at a time,
`OneByOneSpec` any requests one at a time, `CallerSpec` a caller of `SaveService` who
persists one step after the other next to deletes, `KeeperSpec` migrations and restores on
any number of workers. Process deaths come at any moment in all of them. `NoRewriteSpec` is
everything but a step that writes an old state over a migrated save (`RewritesMigrated`).
`SaveClients` has each of these as a kind of client that a behaviour keeps
(`ClientSpec`), so that one run checks and one specification promises all of them.
`Told(i)` is what the stored events of a save tell, whatever their keys; `Turns(i)` are
the turns they tell of.

### GameSession

A state is its turn and the sequence of the events whose deltas were applied to
it, so states that differ by a lost or reordered delta differ. `Resolve` reads
`self.state` and fixes the events of the step, `Commit` assigns `self.state`,
`AppendTest` and `AppendEvent` are the two halves of `EventLog.append`, `Abort` is
any exception before the assignment. Event ids grow in the order of creation,
which is the order of `created_at`; the tick's event is created before the
player's and logged after it. A dialogue line appends its event and then puts
back the state it started from (`WriteState`). `ReadState` and `ReadLog` are what
a save reads, `Restore` is `restore_session`.

### SocialTick

The player's actions matter by the crime they are classified as and by whether
the tick runs (only after success or partial success). Each loop of
`run_world_tick` takes one item per action: `Report` one crime, `Gossip` the one
rumor a tick passes on, `Conflict` one incident, `LoseTrust` one crime of one NPC,
`React` and `Plan` one NPC; `phase` says where the step is. Rumors, crimes and NPCs
are taken in the order of their ids where the code sorts and the order shows.
`flags` are the `social_flags`. `CrimeIncidents`, `RumorIncidents` and
`BandIncidents` are the three resolvers; their incidents do not depend on each
other, so `Conflict` takes them in any order. The time of day is free.
Whether an NPC that is present and can act notices a crime is free too: it depends
on light, cover, alertness and suspicion, which nothing here reads otherwise.
`applied` in a crime is not in the code: it counts runs of
`apply_crime_consequences`, each of which raises the suspicion of every witness.

Details of the code the model keeps because properties depend on them: several
witnesses each create the rumor under one id and the last one stays; an attack the
rules refuse is still an assault; buying an item is theft, because a transfer of
an owned item to the player is how theft is recognised; a plan reports to
`local_authority`, not to a faction; an injured witness rests and never reports; an
NPC flees once for each condition.

### SessionStory and StoryBook

`StoryBook` states what a session promises: a request appends its events and shows
the world after them in one step, or nothing happens; a kept story can be taken up
again. `SessionStory` has a client that is alone (one request at a time) or not.
For a client that is alone, `IsStoryBook` maps a session to the book: the story is
the log with the events the request under way has still to append, the world is the
state it has assigned or is about to put back. A step counts from its assignment of
`self.state`, a line of dialogue from its beginning. The mapping is in the definitions
`Opened`, `Stories`, `Worlds` and `Stored`; for several clients at once the book stays shut.

### Combat, Trade, Quests and TurnRules

`g` is the `GameState` as far as a rule asks about it. A handler computes the state
`after` its own deltas, and `Took` is `GameLoop.step` from there: a failed action keeps
its deltas and ends; a successful one has its triggers (`WithTriggers`), then the tick:
the NPCs that can act go where schedules and reactions send them (`NpcTicks`, any
place), everything due is carried out in the order of the list (`RunDue`), and the
triggers are heard once more (`AfterDue`). A delta that cannot be applied ends the
request and nothing is stored (`outcome` is "error"). `owed` and `fired` are not in the
code: they count what the properties ask for.
Dice are choices (`AttackMiss` or `AttackHit`, any blow). `MaxClock` is the last moment
told apart. `Price` reads the modifiers of the merchant dealt with and rounds as Python
does, half to even; modifiers are natural numbers of percents, and nothing relates those of one
merchant or of two, as in the code. Left out: stances,
scores, the player's guard, the turn counter, how a locked lock looks, the stealth
scores, social manipulation and hacking, declared mod actions, hidden NPCs, a talk that
is refused, the first pass over the quests in the tick (nothing it looks at has
changed), crimes and rumors (`SocialTick`).

### WorldContent

A pack is two files, one with a fact and one with a rumor about it: all that the gate
tells apart is a reference from one file to the other and a text that gives away what
the other hides. Each read of the files, each write of one file, each copy and each
removal is an action; `FailWrite` is a write that fails, `Crash` the death of the
process. A save goes `Backup`, `WriteNext` for each file, `Written`, `Check`, and back
through `Undo`; an import clears before it writes; a branch is copied file by file and
listed when its metadata are written; `Merge` reads the facts of base and both sides,
`MergeRest` the rumors. `accepted` and `ungated` are not in the code. Left out: exports,
the wizard, `duplicate_item`, mods, the gate of the map graph, the draft history, writes
that fail in the middle of a file. A template's copy of one file is one step.

### WorldPack

A pack maps each id to what its file says of it: its references by slot, its marks,
and for a quest its stages, paths, objectives and triggers. `ValidPack` is
`validate_world_pack`, `LoadsWorld` and `LoadExamples` are the loader's own check, taken
from the two pieces of code separately. `SaveFile`, `SaveQuestGraph` and `SaveCharacter`
are the editors, with what each checks and what each writes: a quest graph is checked as
it came and written as YAML, where a public objective is its text. `StartGame`, `Move`
and `Talk` play the pack that was loaded. Left out: `scene_moods.yaml`, formats of goals,
visual checks of maps, other warnings, texts and prompt safety beyond the facts they
mention, profiles, duplicate ids, missing files and schema errors, and in play the facts,
items and ticks (in `TurnRules`).

### ProviderRouting

`profiles` and `config` are the files of the project. A call lists the enabled profiles
(`Call`), loads the assignments and lets the router choose (`Route`), then tries the
providers of the chain, each as often as its profile allows. A synchronisation loads
the profile, asks the provider and saves what it loaded with the merged models; an
assignment is checked and then saved. Other requests come between any two of these.
Left out: usage records, connection tests and their cache, the simulated provider,
prompts and the reading of answers.

## 3. Runs

Passing runs:

| Run | Question | Properties | Bounds, and why they are enough |
| --- | --- | --- | --- |
| `save` | What holds when any requests race, and what is each kind of client promised? | `TypeOK`, `ReferentialIntegrity`, `KeysUnique`, `PlayerKeepsWhole`, `CallerKeepsOrder`, `MigratorMigratesOnce`, `KeeperBackupFirst` | two workers, one session, one old save with an event and a memory; for each kind of client the bounds `Reach` of `MCSaveStore`. Anyone: every request, one new save, a backup, two of the saves and backups at a time. A player: a new save, two turns, a recorded failure, a backup, one death, so that save, load, migrate, restore, export, import and delete follow each other. A caller: two new saves, three turns, two deaths, as lost turns add up over loads. A keeper: two failures, one death, a backup of a backup, so that one migration overtakes another with a restore between. A migrator: the old save and its backup with every request, a turn, a failure. A violation takes two requests on one save |
| `session` | What survives racing requests, and is a session that is used alone a story book? | `TypeOK`, `StateTurnLogged`, `EffectsAccounted`, `AloneStateIsLog`, `AloneTalkClosed`, `IsStoryBook` | two workers, two sessions, one dialogue, three turns, four events: a step with a tick and a crime beside another request; alone, a save and its restore in a second session. Clients that race get one session: what races is what they share |
| `social_tick` | Are the consequences of crimes drawn once, and drawn? | `TypeOK`, `ReputationOnce`, `ReactionsOnce`, `RumorsTraceable`, `UnableStayOut`, `WitnessedGetsReported` | two crimes, three NPCs (two of a faction, one of none), two places, any number of turns: two witnesses of one crime, two crimes of one witness, and a rumor with somebody left to hear it |
| `turn_rules` | Do fights, trade, quests and consequences keep the world's books? | `TypeOK`, `LifeConsistent`, `QuestsInOrder`, `TriggersHeard`, `ConsequencesOnce`, `OneHolder`, `NoWayBack`, `MoneyNeedsMargin` | two NPCs of three hit points, both merchants, two places, five triggers of two quests (one of each kind, and of each action), two consequences, one of which can fail, any turns. A player fights (the first NPC; the second stays as it is) or searches, picks locks and trades (NPCs stay at the inn: a trade asks nothing of them but shop and prices), as the two share no rule. Prices: one item of base 10; the first shop, which has it, buys and sells at 80 and 50 percent, the second at 100 and 70, in two bands of reputation, so that goods go from one shop to the other and back, and the first asks 6 of a player it trusts where the second pays 8 |
| `authoring` | Is an accepted world clean and a refused save without a trace, and does what was accepted load, stay hidden and play? | `TypeOK`, `SavedIsClean`, `RefusedWritesNothing`, `MergeTakesOneSided`, `PackTypeOK`, `AcceptedLoads`, `HiddenUnreached`, `RaisesOnlyWithoutTarget` | a behaviour (`view`) is of `WorldContent` or of `WorldPack`. Files: one author, two branches, two requests, one write that fails, one death: every operation after every other, with a failure in either; proposals are one valid pack, one that leaks, one that dangles. Meaning: one id for each file, two places, three saves: one to prepare a reference, one to remove its target, one between; games start and go on between the saves without bound |
| `provider` | Which model does a call name while profiles change? | `TypeOK`, `JsonRouted`, `RefusedContentStays`, `CallsEnd` | two workers, two profiles, two models, two uses, two attempts, two requests: a call, and an edit between any two of its steps; six contexts, four rules, five shapes of a profile |

`CHECK_DEADLOCK FALSE` is in the runs of all modules but `SocialTick`: their bounds on
requests, turns and process deaths run out, and nothing in that code waits for anything.
`social_tick` checks deadlock: no phase of the tick may get stuck. The bands of `SocialTick` are scaled down
(suspicious at -3 instead of -10, hostile at -6 instead of -50) so that two crimes pass
both. Symmetry is used for workers, dialogues, sessions and branches only, and in no run
with liveness.

What the properties say, beyond their comments in the modules: `ReferentialIntegrity`
and `KeysUnique` rest on the database's own constraints (`InsertAllowed`,
`SnapshotClash`); the model shows that no path of the code gets round them.
`MigratorMigratesOnce` is about `NoRewriteSpec` because without it the code is right to
migrate again: export a save of version 0.5, migrate it, import the export over it. The
import keeps `migration_history` and puts the old state back, the next migration notes 0.5
a second time. `PlayerKeepsWhole` and `CallerKeepsOrder` are about one
request at a time; section 6 says what two do. `CallerKeepsOrder` holds for one session:
with two, a session that is behind persists into the save of one that is ahead, and takes its
turn back.
`StateTurnLogged` and `EffectsAccounted` are what is left of "the log explains the
state" when requests race; `AloneStateIsLog` is the whole of it, and `IsStoryBook` says
that it is reached in one step for each request. `ReputationOnce` has no flag to rest on
for crimes reported at once: it holds because `apply_crime_consequences` sets `reported`
whenever it takes reputation. `TriggersHeard` is what two comparisons of states, one for
the action and one for the tick, have to add up to. `AcceptedLoads` compares two
implementations of one check, as the editors change what lies between them.
`MoneyNeedsMargin` does not say that trade makes no money, which is not true: modifiers are
the authors', and in its run a trusted player earns 2 on the way from the first shop to the second. It says that nothing else does:
not a sale, not what factions think of the player between, not the rounding. A purchase is
worth at most what some shop pays above the price of this one.

Violated claims, each one run with one property:

| Run | Claim | What the code does |
| --- | --- | --- |
| `save_twice` | `SaveNeverRefused` | saving a session again is refused: event ids are unique over all saves |
| `save_recover` | `AppliedMigrationRecoverable` | after a successful migration the recovery plan looks for a backup under a name nothing creates |
| `session_lost` | `NoLostUpdate` | of two overlapping steps both are logged and one is lost from the state |
| `session_replay` | `ReplayInLogOrder` | replay sorts by time of creation, which is not the order of application |
| `social_repeat` | `AppliedOnce` | the consequences of a crime seen by a witness of no faction are applied by the record and by the next tick |
| `provider_policy` | `PolicyKept` | a fallback that is selected for its JSON is not held against the policy of its rule: local-only content goes to a remote provider |

## 4. Fairness

Two properties need fairness.

`SocialTick!WitnessedGetsReported`: `WF_vars(Tick)`, as a step is one call of
`GameLoop.step`, which runs its loops to the end. `SF_vars(Wait)`: the player goes on
taking turns that succeed; a player who stops gets no ticks, and a player whose every
action fails gets none either. Waiting is always possible, so this asks nothing of the
rules.

`ProviderRouting!CallsEnd`: `WF_vars(CallStep(w))` for every worker. A thread goes on
with its call, and each attempt has a timeout, so that an attempt ends one way or
another. Nothing is asked of the requests that come between.

The other properties are safety properties; nothing in the save store, the session or
the authoring service promises progress, since requests may fail at any point and are
not retried.

## 5. Proofs

`tlapm` checks all of these, for every value of the constants that satisfies the
named assumptions of the modules.

- `SaveStoreProofs!ReferencesHold`: `Spec => []ReferentialIntegrity`. The
  invariant is inductive as it stands: every action that removes a row removes
  what refers to it, and every action that inserts looks for the row in the same
  transaction. `SnapshotKeepsReferences` is the lemma for the writes of whole saves.
- `SaveStoreProofs!TypeCorrect`: `Spec => []TypeOK`, with the finiteness of the
  table of events beside it: the next sequence number is a maximum (`FiniteMax`,
  from the well-foundedness of inclusion on finite sets) and a listing counts rows.
  `RequestShape` reads the type of a request off the block it is at; `SnapshotType`
  is the lemma for the writes of whole saves.
- `SaveStoreProofs!KeysStayUnique`: `Spec => []KeysUnique`. Unique keys are not
  inductive alone: a backup inserts its rows without looking for a clash. `KeysNamed`
  says why there is none: the keys of a backup start with the backup's own id
  (`BackupKeyInjective`, `BackupKeyNamed`), the name is free when the backup has a
  row to copy, and by `ReferentialIntegrity` nothing is stored under a free name.
- `SaveStoreProofs!MigratedOnce`: `NoRewriteSpec => []NoDoubleMigration`. `HistoriesInv`
  adds that a row that is not current names its own version nowhere in its history
  (`Unrepeated`), and that the row a restore has read and not yet written does neither.
- `SaveStoreProofs!SessionsStayWhole` and `SavesStayWhole`: `PlayerSpec => []SessionsWhole`
  and `[]StoredSavesWhole`. A restore puts back a row and not the events, an import takes its
  events from a file. `PlayerInv` says why they fit: all saves of one base id, backups and the
  exported file included, are at the same turn, and each request, failure and backup name
  stays within one base id. `ListingOnto` and the lemmas after it take the step from the set
  of rows to the lists `list_events` may return.
- `SaveStoreProofs!SequencesStayUnique`: `OneByOneSpec => []SequencesUnique`. `OrderInv` says
  that the number an append has read is above all that are stored (`Reserved`), which no
  other request can change while it is under way.
- `SaveStoreProofs!EventsStayCovered`: `CallerSpec => []StoredEventsCovered` for one
  session. `CallerInv` counts: a save lacks the events of as many turns as the process died,
  one more while an append is on its way (`InFlight`); a session lacks no more; the two are at
  the same turn unless the state of the session is still to be written; and the event on its way
  is of a turn the save has none of.
- `SaveStoreProofs!BackupsComeFirst`: `KeeperSpec => BackupBeforeMigration`. That a backup
  was made is not enough: a backup can be migrated too, or be restored over. `KeeperInv` follows
  the saves of one base id: all have the same events and memories (`SameTold`), the only row
  of an older version among them is the original, and one of them holds it out of reach of every
  request under way and of every recorded failure (`OneOutOfReach`). The save a migration
  writes to is in reach, so the backup is another one.
- The theorems on the kinds of client that the run checks follow: a behaviour of `ClientSpec`
  keeps its kind, so it is a behaviour of the specification of that kind
  (`PlayersKeepWhole`, `CallersKeepOrder`, `MigratorsMigrateOnce`, `KeepersHaveBackups`, and
  for every kind `EveryClientKeepsTables`).
- `GameSessionProofs!TypeCorrect`: `Spec => []TypeOK`. The lemmas `Concat`, `One`,
  `None`, `OneIf` and `StepLogged` give the types of the events and deltas of a step.
- `GameSessionProofs!TurnLogged`: `Spec => []StateTurnLogged`. The property speaks
  of quiet moments only; `TurnInv` says what holds in between: every turn a state
  shows, or that a request is about to write, is reached by a logged event or by
  one some request has still to append (`TurnOwed`, `RequestTurns`). An event that
  is refused is no loss, because it is refused for being behind the log.
- `GameSessionProofs!EffectsLogged`: `Spec => []EffectsAccounted`, from
  `EffectInv`: the same of the deltas of a state that a request is about to assign
  (`NextTraced`), with the deltas that are neither logged nor refused carried by
  the request's own pending events.
- `GameSessionProofs!StoryBookKept`: `StorySpec => IsStoryBook`, the refinement. For a client
  that is alone `AloneInv` says that one request at most is under way, that its pending events,
  its next state and the log fit together for the block it is at (`RequestFits`), and that a
  session nobody is writing to shows the replay of its log. Each action is then a step of the
  book or shows nothing (`StoryGoesOn`); for several clients the book stays shut. `Extended` and the
  lemmas on `Replay` say what appending a turn's events does to a log.
- `GameSessionProofs!LogIsState` (`AloneStateIsLog`), from the same invariant, and
  `TalksStayClosed` (`AloneTalkClosed`), from `ClosedInv`: in the story still being told, too,
  no line of a dialogue follows its end.
- `SocialTickProofs!TypeCorrect`: `Spec => []TypeOK`. `LeastIn` and `GreatestIn`
  (from the well-foundedness of the natural numbers) give that the first hearer,
  the first rumor, the first crime to report and the last witness are what the
  rules say; `Told` says what telling a rumor does.
- `SocialTickProofs!UnableTakeNoPart`: `Spec => UnableStayOut`. It needs the types
  only: each action asks `CanAct` of the very NPC it changes. `Gossip` and `Plan` ask
  it of the teller and of the hearer, and the hearer is the one that matters.
- `SocialTickProofs!Traceable`: `Spec => []RumorsTraceable`, inductive given the
  types. A telling adds one NPC and one to the spread, because a hearer is never
  among those who know (`TellKeepsTrace`); a report finds the rumor of its crime
  already there; witnesses never change.
- `SocialTickProofs!ReputationLostOnce` and `ReactedOnce`: `Spec => []ReputationOnce` and
  `[]ReactionsOnce`. Both say that a number is a sum over crimes or incidents. `BooksInv`
  adds that crimes are finitely many, that a crime not yet reported was seen by nobody of a
  faction (`UnreportedSeenByNone`), so that its report takes nothing a second time, and that the
  flags name recorded crimes only (`FlagsOfRecorded`), so that what a new crime adds is new. `SameFacts`
  covers the steps that add nothing.

- `TurnRulesProofs`, eight theorems for every world, script and number of NPCs. All
  rest on one invariant, `Inv`: types, `LifeIn`, `HeldIn`, `OrderIn` (what the properties
  say of `g`, said of any state, because a turn goes through several), `TriggersHeard`
  and `ConsequencesOnce`. The proof follows the program. Each handler leaves a state with
  `AfterOK` (`MoveOK`, `SearchOK`, `LockOK`, `BuyOK`, `SellOK`, `MissOK`, `HitOK`,
  `FledOK`; `StruckOK` and `DamagedOK` for the blows). One pass over the triggers begins
  the quest of every trigger that matches and undoes none (`TriggersKeep`); the tick
  keeps lives (`TickKeeps`); whatever is carried out of the consequences touches neither
  NPCs nor shops nor what else is pending (`DueOK`). `TurnKeeps` puts the four together,
  with `HeardEitherWay`: what came about between the first state of a turn and the last
  came about on one of the two stretches the code compares. `TookKeeps` adds failure and
  error, `StepKeeps` is the case for each action.
  The theorems: `StateTyped`, `LivesAgree` (`LifeConsistent`), `DeathIsFinal` (`NoWayBack`),
  `QuestsGoForward` (`QuestsInOrder`), `NoTriggerIsMissed` (`TriggersHeard`),
  `NoConsequenceTwice` (`ConsequencesOnce`), `OneOwner` (`OneHolder`). The eighth,
  `MoneyByMargin` (`MoneyNeedsMargin`), holds for every two modifiers of every merchant: an item
  that changes hands changes the sum by its best offer (`OneItemMoves`), which is at least what
  a sale brings, as no band pays more than the trusted one and rounding keeps the order
  (`RoundedGrows`); a purchase costs at least what it costs the trusted; and a turn
  that carries out no consequence leaves coins and owners as the handler left them
  (`NoneDue`, `TookPays`).
- `WorldPackProofs`: `PacksLoad` (`AcceptedLoads`) and `HiddenStaysUnreached`
  (`HiddenUnreached`) and `OnlyWithoutTarget` (`RaisesOnlyWithoutTarget`), for every set of
  ids and every definition a file may hold. `Gated` says that what is stored was accepted,
  `LoadedPlays` that the pack of a game is one the loader took and that the player is in
  no hidden place but the start. `PlayTypeCorrect` (`PackTypeOK`) says more than types: each
  quest of a game is at one of its own stages. `PlayTyped` holds `LoadsWorld` of the pack that is
  played and `GameRuns` of the game.
- `ProviderRoutingProofs`: `JsonIsRouted` (`JsonRouted`) and `RefusedIsNotSent`
  (`RefusedContentStays`), from `Routed`: a
  worker in the middle of a call holds a chain that the router could have chosen from the
  registry and rule the worker itself keeps. What others write meanwhile does not matter,
  because the worker reads nothing again. The lemma `PolicyBypassedForJsonOnly` narrows down
  the violated `PolicyKept`: a target that the policy of a call forbids is always the fallback
  of its rule, named because the primary has no JSON. `RoutingTypeCorrect` (`TypeOK`): `RoutedTyped` adds
  the requests' own records, and the lemmas on `Sorted` and `MergedModels` that a
  synchronisation that finds nothing leaves the models it had.
- `WorldContentProofs!MergesTakeOneSided` (`MergeTakesOneSided`), from `Previewed`: what a
  merge is about to write is what `Merged` makes of the three sides it has read. `TypeCorrect`
  (`TypeOK`): `TypeInv` gives each kind of request the record its next block takes, for any
  number of authors and branches.
- `WorldContentProofs!SavedWorldsAreClean` (`SavedIsClean`) and `RefusalsWriteNothing`
  (`RefusedWritesNothing`), for one author. `AloneInv` follows a request through its blocks
  (`Fits`): before it writes, the world is the last accepted one; while it writes, files it is not
  about are as accepted, those it has passed are as proposed, and what it read before is what was
  accepted; while it takes back, those it has still to put back are the only ones that differ; and
  what the gate has passed is clean once all of it is written. Writes that fail and the death of the process may come at
  any of these.

`Recursion` is how the runs of triggers and effects, which are functions defined from one
index to the next, are reasoned about. The induction theorems of the library take a
predicate for a parameter, which no backend installed here instantiates. `SetInduction`
takes a set instead, and follows from the well-foundedness of inclusion on finite sets;
`Iteration` says that a function given step by step exists, `Inherited` that what each
value takes over from the one before holds of all. `FiniteInduction` does the same for
finite sets, and gives the sums their laws (`SumOfNone`, `SumOfMore`, `SumOfSame`).

Model-checked only: liveness (`WitnessedGetsReported`, `CallsEnd`), as fairness and ENABLED
are beyond the prover. Every other property of a passing run is a theorem. What the theorems
assume beyond the specifications and the named assumptions is in their statements: one
session (`CallersKeepOrder`), one author (`SavedWorldsAreClean`, `RefusalsWriteNothing`). The theorems on racing requests
of `GameSession` (`TypeCorrect`, `TurnLogged`, `EffectsLogged`) cover `Next`; saving and
restoring inside a session (`SavingNext`) are in `StorySpec` for the client that is alone.
The six claims that are violated are not theorems, and neither are their negations: TLC's
counterexamples are.

## 6. Known races and behaviours

Behaviour of the code met while modelling that no run states as a property; the
models contain what concerns them.

- *Torn save.* `SaveService.save_game_loop` reads the state and then the log. A
  step that commits in between gives a save whose log is ahead of its state
  (`ReadState`, `ReadLog` with two workers). `PlayerKeepsWhole` is about one request
  at a time.
- *Backwards log.* `EventLog.append` tests the turn and then appends. Two threads
  that both pass the test can append in the wrong order, and such a log cannot be
  restored: `EventLog` refuses it on load, and `load_game` does not catch that.
- *Events out of sequence.* `append_event` reads the next sequence number before
  its transaction starts; two appends can store the same number. `list_events` then
  has no defined order between them.
- *Third attempt of a migration.* The first attempt's backup is `<id>.backup`. If the
  migration fails, the second takes `<id>.backup.<n>`, where n counts the stored
  events, and the third takes the same name again: the primary key refuses it, and
  the `IntegrityError` is not turned into an error of the repository (`uncaught` in
  `MigrateBackup`). The save can no longer be migrated with a backup.
- *Stale failure report.* The recovery plan follows the latest failure of a save,
  also when a later attempt succeeded, so it may offer a backup older than the last.
- *Load beside delete.* `load_game` reads the row and the events in two
  transactions; a delete between them gives 404, and a delete between the
  existence test and the read of the events gives a session with an empty log.
- *Restore of the row only.* `restore_pre_migration_backup` puts back the row, not
  the events and memories. That is right as long as a migration changes only the row.
- *Dialogue.* `end_dialogue` does not ask whether the dialogue has ended; each call
  logs another end.
- *Daily replanning* runs in the tick only when a marker of the day before exists;
  only daily replanning writes one, so in play it never starts. The phase is not in
  the model for that reason.
- *Stunned.* A failed flight leaves the player `stunned`, which nothing removes;
  `can_act` is false from then on, so the player can no longer attack.
- *Combat.* An attack on a target the player once fled from finds the old fight, whose
  status is `ended`, and leaves it so: the new fight is on record as over.
- *Purchases* set the owner of the item to the player, and a change of owner of somebody's
  item is how theft is recognised: an honest purchase is recorded as theft.
- *Stuck consequence.* A delayed consequence with a delta that cannot be applied raises in
  the tick. It stays due, so every later action that succeeds raises too, until something
  makes the delta applicable (`Took`, "error").
- *Gifts.* A consequence that gives an item asks no shop: it is then the player's and still
  for sale. `OneHolder` excepts those items.
- *Model of a profile.* The client calls the first model of its profile
  (`openai_compatible_provider.py`:34), not the one the router names: a request for JSON can reach
  a model without JSON although the router chose one with it. `TargetOf` and `JsonRouted` are
  about the choice of the router.
- *Margins between shops.* Each merchant has modifiers of its own, checked for `ge=0` only, and
  reputation moves both sides by a fifth. Where one shop asks less than another pays, buying and
  selling makes money, without end if the shops leave a margin both ways. The balance check
  (`quality/economy_balance.py`, and the same test in `item_economy_authoring.py`) compares the
  two modifiers of one merchant only, so it misses a margin between two merchants and one that
  reputation opens.
- *One shop for an item.* `OneHolder` starts from shops that do not share an item
  (`WorldAssumption`); the validator lets two merchants list the same one, and then buying it
  in one leaves it for sale in the other.
- *Synchronisation* of a profile saves the profile it loaded before it asked the provider:
  an edit made meanwhile is undone, a deleted profile is back.
- *Profiles.* One enabled profile whose key is missing fails every call of the project; a
  project without enabled profiles falls back to the default registry.
- *Connection cache.* It is read, changed and written whole; of two tests at a time one
  result is lost.
- *Two authors.* A rollback puts back the files as the save found them, over what another
  author saved since. `RefusedWritesNothing` holds for one author.
- *Branches.* A branch whose copy was cut off by the death of the process lacks files, and a
  merge takes their entities for deleted.
- *Merge base.* A merge takes the world as it is for the common base. What was changed in the
  world since the branch was made counts as unchanged and goes back to the branch's version;
  docs/V1_2_ACCEPTANCE_REPORT.md lists what the Merge Assistant detects as conflicts.
- *Import* clears the world before it writes and has no rollback.
- *Templates* do not ask the gate: a leak that every editor refuses gets in this way.
- *Quest graphs.* A round trip through the graph writes a public objective as its text, and
  its id is lost; triggers that named the id no longer find it. docs/V1_2_ACCEPTANCE_REPORT.md:86
  says "Graph/YAML roundtrip is stable."
- *Roleplay files.* The validator does not read `example_dialogues.yaml`. Deleting an NPC that
  speaks in an example, or hiding a fact that a prompt-safe example mentions, is accepted,
  and the world no longer loads; saving a character can add an example whose speaker does
  not exist.
- *Loader.* It lets pass an item in a container that does not exist, and factions among the
  NPCs that heard a rumor; the validator refuses both.
- *Hidden start.* A game whose start place is hidden starts there without exits.
- *Paths of a quest.* The failure and alternate stages of a quest are checked and then dropped
  when the game is made.
- *Previews.* `inverse_delta` of REMOVE adds at the end of the list, wherever the value stood.
- *Studios.* `move_scene_to_chapter` to the scene's own chapter drops it from the chapter's
  `scene_refs`: the copy without the scene is saved, and the copy loaded before still has it.

## 7. Not modelled

What the modelled components leave out is named with each module in section 2. The
components that no module models, with the reasons:

- *State deltas.* The modules change their state directly; the paths of a delta into nested
  records, and `inverse_delta`, which only previews use, are functions without state.
- *Replay and timeline.* Its order is checked (`session_replay`); the analyses it prints are
  pure reads.
- *NPC simulation helpers.* Previews and helpers no step of the game loop calls, and daily
  replanning, which never starts in play.
- *Memory and context.* Lists held for one prompt and selection of text; what is stored is
  in `SaveStore`.
- *Mods and gameplay modules.* Load order, module state and its migrations; no step of the
  modelled loop reads them.
- *Cross-mode workflow, studio platforms, desktop.* Files that one request reads and writes
  whole; no two of them are kept together.
- *HTTP interface.* The endpoints on saves, sessions, dialogues, worlds and providers are
  the actions of the modules; the others read or pass a request on.
- *Generators, quality, playtesting, evals, tools, frontend.* Pure functions, reports and
  presentation.

Everywhere: wording, token budgets, timestamps other than their order, performance
counters, and formats of ids.

## 8. What could follow

- Two authors in `WorldContent`, once the code says what should happen when they meet.
- `SocialTick` and `TurnRules` in one tick: a consequence that strikes down the witness who
  was about to report.
- `CallerKeepsOrder` for several sessions, with the bound they really keep to.
- Cross-mode apply against its review, and module migrations against the order of mods.
