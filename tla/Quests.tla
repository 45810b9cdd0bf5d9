------------------------------- MODULE Quests -------------------------------
(***************************************************************************)
(* Quests and their triggers (backend/app/engine/rules/quests.py).         *)
(***************************************************************************)
EXTENDS Sequences, FiniteSets

CONSTANTS
    QuestIds,
    Stages,        \* of every quest
    FirstStage,    \* initial_stage
    Objectives,
    NoTarget       \* the trigger has no objective, or no next stage

QuestStatus == {"inactive", "active", "completed", "failed"}
Closed == {"completed", "failed"}
QuestStates == [status : QuestStatus, known : BOOLEAN, stage : Stages, done : SUBSET Objectives]

ASSUME QuestAssumption == FirstStage \in Stages

\* Mutant: a closed quest is taken up again.
ActivateAgain(q) == [q EXCEPT !.status = "active", !.known = TRUE, !.stage = FirstStage]

\* activate_quest
Activate(q) == IF q.status # "inactive" THEN q
               ELSE [q EXCEPT !.status = "active", !.known = TRUE, !.stage = FirstStage]

\* Mutant: the stage is set without the activation.
AdvanceOnly(q, stage) == [q EXCEPT !.stage = stage]

\* advance_quest: also the stage of a closed quest moves.
Advance(q, stage) == [Activate(q) EXCEPT !.stage = stage]

\* complete_objective
CompleteObjective(q, o) == IF o \in q.done THEN q ELSE [Activate(q) EXCEPT !.done = @ \cup {o}]

\* _deltas_for_trigger
Triggered(q, t) ==
    CASE t.action = "activate" -> Activate(q)
      [] t.action = "advance" -> Advance(q, t.stage)
      [] t.action = "complete" ->
            LET done == CompleteObjective(q, t.objective)
            IN  IF t.stage = NoTarget THEN done ELSE Advance(done, t.stage)
=============================================================================
