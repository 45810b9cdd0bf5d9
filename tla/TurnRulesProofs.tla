--------------------------- MODULE TurnRulesProofs ---------------------------
(* Proofs for TurnRules. *)
EXTENDS TurnRules, Recursion

-----------------------------------------------------------------------------
(* Quests and triggers *)

LEMMA QuestRunUnfolds ==
    ASSUME NEW before, NEW after, NEW talked, NEW V, after.quest \in V,
           \A i \in 1..Len(Triggers) : \A q \in V : Heard(Triggers[i], before, after, talked, q) \in V
    PROVE  QuestRun(before, after, talked) =
                 [i \in 0..Len(Triggers) |->
                     IF i = 0 THEN after.quest
                     ELSE Heard(Triggers[i], before, after, talked, QuestRun(before, after, talked)[i - 1])]
<1>. DEFINE n == Len(Triggers)
            step == [x \in (1..n) \X V |-> Heard(Triggers[x[1]], before, after, talked, x[2])]
            Fits(f) == f = [i \in 0..n |-> IF i = 0 THEN after.quest
                                           ELSE Heard(Triggers[i], before, after, talked, f[i - 1])]
<1>1. n \in Nat
  BY ScriptAssumption
<1>2. step \in [(1..n) \X V -> V]
  OBVIOUS
<1>3. PICK f \in [0..n -> V] :
          \A i \in 0..n : f[i] = IF i = 0 THEN after.quest ELSE step[<<i, f[i - 1]>>]
  <2>. DEFINE first == after.quest
  <2>1. first \in V
    OBVIOUS
  <2>. HIDE DEF step, n, first
  <2>2. \E f \in [0..n -> V] : Iterates(f, n, first, step)
    BY <1>1, <1>2, <2>1, Iteration
  <2>. QED
    BY <2>2 DEF first, Iterates
<1>4. ASSUME NEW i \in 0..n
      PROVE  f[i] = IF i = 0 THEN after.quest ELSE Heard(Triggers[i], before, after, talked, f[i - 1])
  <2>1. CASE i = 0
    BY <1>3, <2>1
  <2>2. CASE i # 0
    <3>1. i \in 1..n /\ i - 1 \in 0..n
      BY <1>1, <2>2
    <3>2. step[<<i, f[i - 1]>>] = Heard(Triggers[i], before, after, talked, f[i - 1])
      BY <1>3, <3>1
    <3>. QED
      BY <1>3, <2>2, <3>2
  <2>. QED
    BY <2>1, <2>2
<1>5. Fits(f)
  BY <1>3, <1>4
<1>6. QuestRun(before, after, talked) = CHOOSE h : Fits(h)
  BY DEF QuestRun
<1>7. Fits(QuestRun(before, after, talked))
  <2>. HIDE DEF Fits
  <2>. QED
    BY <1>5, <1>6
<1>. QED
  BY <1>7

\* What may become of quests: they stay in order, and nothing that was begun or
\* closed is undone.
QuestsKept(old, new) == \A q \in QuestIds :
    /\ InOrder(new[q])
    /\ old[q].status \in Closed => new[q].status \in Closed
    /\ old[q].status # "inactive" => new[q].status # "inactive"
    /\ old[q].known => new[q].known

QuestBooks == [QuestIds -> QuestStates]
KeptFrom(old) == {new \in QuestBooks : QuestsKept(old, new)}

TriggerOK(t) ==
    /\ t.quest \in QuestIds /\ t.kind \in Kinds /\ t.action \in Actions
    /\ t.action = "advance" => t.stage \in Stages
    /\ t.action = "complete" => t.objective \in Objectives /\ t.stage \in Stages \cup {NoTarget}

LEMMA ActivateOK ==
    ASSUME NEW q \in QuestStates, InOrder(q)
    PROVE  /\ Activate(q) \in QuestStates /\ InOrder(Activate(q))
           /\ Activate(q).status # "inactive"
           /\ q.status # "inactive" => Activate(q) = q
           /\ q.known => Activate(q).known
<1>1. CASE q.status # "inactive"
  BY <1>1 DEF Activate
<1>2. CASE q.status = "inactive"
  <2>. DEFINE r == [q EXCEPT !.status = "active", !.known = TRUE, !.stage = FirstStage]
  <2>1. Activate(q) = r
    BY <1>2 DEF Activate
  <2>2. r \in QuestStates /\ r.status = "active" /\ r.known = TRUE
    BY QuestAssumption DEF QuestStates, QuestStatus
  <2>. HIDE DEF r
  <2>. QED
    BY <1>2, <2>1, <2>2 DEF InOrder
<1>. QED
  BY <1>1, <1>2

LEMMA AdvanceOK ==
    ASSUME NEW q \in QuestStates, InOrder(q), NEW stage \in Stages
    PROVE  /\ Advance(q, stage) \in QuestStates /\ InOrder(Advance(q, stage))
           /\ Advance(q, stage).status # "inactive"
           /\ q.status \in Closed => Advance(q, stage).status \in Closed
           /\ q.known => Advance(q, stage).known
<1>. DEFINE a == Activate(q)
            r == [a EXCEPT !.stage = stage]
<1>1. /\ a \in QuestStates /\ InOrder(a) /\ a.status # "inactive"
      /\ q.status # "inactive" => a = q
      /\ q.known => a.known
  BY ActivateOK
<1>. HIDE DEF a
<1>2. r \in QuestStates /\ r.status = a.status /\ r.known = a.known
  BY <1>1 DEF QuestStates
<1>3. InOrder(r)
  BY <1>1, <1>2 DEF InOrder
<1>4. Advance(q, stage) = r
  BY DEF Advance, a
<1>5. q.status \in Closed => q.status # "inactive"
  BY DEF Closed
<1>. HIDE DEF r
<1>. QED
  BY <1>1, <1>2, <1>3, <1>4, <1>5

LEMMA CompleteOK ==
    ASSUME NEW q \in QuestStates, InOrder(q), NEW o \in Objectives
    PROVE  LET r == CompleteObjective(q, o)
           IN  /\ r \in QuestStates /\ InOrder(r)
               /\ r.status # "inactive"
               /\ q.status \in Closed => r.status \in Closed
               /\ q.known => r.known
<1>1. CASE o \in q.done
  <2>1. q.status # "inactive"
    BY <1>1 DEF InOrder, FirstQuest
  <2>. QED
    BY <1>1, <2>1 DEF CompleteObjective
<1>2. CASE o \notin q.done
  <2>. DEFINE a == Activate(q)
              r == [a EXCEPT !.done = @ \cup {o}]
  <2>1. /\ a \in QuestStates /\ InOrder(a) /\ a.status # "inactive"
        /\ q.status # "inactive" => a = q
        /\ q.known => a.known
    BY ActivateOK
  <2>. HIDE DEF a
  <2>2. r \in QuestStates /\ r.status = a.status /\ r.known = a.known
    BY <2>1 DEF QuestStates
  <2>3. InOrder(r)
    BY <2>1, <2>2 DEF InOrder
  <2>4. CompleteObjective(q, o) = r
    BY <1>2 DEF CompleteObjective, a
  <2>5. q.status \in Closed => q.status # "inactive"
    BY DEF Closed
  <2>. HIDE DEF r
  <2>. QED
    BY <2>1, <2>2, <2>3, <2>4, <2>5
<1>. QED
  BY <1>1, <1>2

\* Whatever a trigger does to a quest, the quest is begun and stays closed.
LEMMA TriggeredOK ==
    ASSUME NEW q \in QuestStates, InOrder(q), NEW t, TriggerOK(t)
    PROVE  /\ Triggered(q, t) \in QuestStates /\ InOrder(Triggered(q, t))
           /\ Triggered(q, t).status # "inactive"
           /\ q.status \in Closed => Triggered(q, t).status \in Closed
           /\ q.known => Triggered(q, t).known
<1>1. CASE t.action = "activate"
  <2>1. Triggered(q, t) = Activate(q)
    BY <1>1 DEF Triggered
  <2>2. q.status \in Closed => q.status # "inactive"
    BY DEF Closed
  <2>. QED
    BY <2>1, <2>2, ActivateOK
<1>2. CASE t.action = "advance"
  <2>1. Triggered(q, t) = Advance(q, t.stage)
    BY <1>2 DEF Triggered
  <2>. QED
    BY <1>2, <2>1, AdvanceOK DEF TriggerOK
<1>3. CASE t.action = "complete"
  <2>. DEFINE done == CompleteObjective(q, t.objective)
  <2>1. /\ done \in QuestStates /\ InOrder(done) /\ done.status # "inactive"
        /\ q.status \in Closed => done.status \in Closed
        /\ q.known => done.known
    BY <1>3, CompleteOK DEF TriggerOK
  <2>2. Triggered(q, t) = IF t.stage = NoTarget THEN done ELSE Advance(done, t.stage)
    BY <1>3 DEF Triggered
  <2>. HIDE DEF done
  <2>3. CASE t.stage = NoTarget
    BY <2>1, <2>2, <2>3
  <2>4. CASE t.stage # NoTarget
    <3>1. t.stage \in Stages
      BY <1>3, <2>4 DEF TriggerOK
    <3>. QED
      BY <2>1, <2>2, <2>4, <3>1, AdvanceOK
  <2>. QED
    BY <2>3, <2>4
<1>. QED
  BY <1>1, <1>2, <1>3 DEF TriggerOK, Actions

LEMMA HeardOK ==
    ASSUME NEW old, NEW quest \in KeptFrom(old), NEW t, TriggerOK(t),
           NEW before, NEW after, NEW talked
    PROVE  /\ Heard(t, before, after, talked, quest) \in KeptFrom(old)
           /\ Heard(t, before, after, talked, quest) \in KeptFrom(quest)
           /\ Matches(t, before, after, talked) =>
                  Heard(t, before, after, talked, quest)[t.quest].status # "inactive"
<1>. DEFINE new == Heard(t, before, after, talked, quest)
<1>1. quest \in QuestBooks /\ QuestsKept(old, quest) /\ t.quest \in QuestIds
  BY DEF KeptFrom, TriggerOK
<1>2. CASE ~Matches(t, before, after, talked)
  <2>1. new = quest
    BY <1>2 DEF Heard
  <2>2. QuestsKept(quest, quest)
    BY <1>1 DEF QuestsKept
  <2>. QED
    BY <1>1, <1>2, <2>1, <2>2 DEF KeptFrom
<1>3. CASE Matches(t, before, after, talked)
  <2>. DEFINE r == Triggered(quest[t.quest], t)
  <2>1. new = [quest EXCEPT ![t.quest] = r]
    BY <1>3 DEF Heard
  <2>2. quest[t.quest] \in QuestStates /\ InOrder(quest[t.quest])
    BY <1>1 DEF QuestBooks, QuestsKept
  <2>3. /\ r \in QuestStates /\ InOrder(r) /\ r.status # "inactive"
        /\ quest[t.quest].status \in Closed => r.status \in Closed
        /\ quest[t.quest].known => r.known
    BY <2>2, TriggeredOK
  <2>. HIDE DEF r
  <2>4. new \in QuestBooks /\ new[t.quest] = r
    BY <1>1, <2>1, <2>3 DEF QuestBooks
  <2>5. \A q \in QuestIds : q # t.quest => new[q] = quest[q]
    BY <1>1, <2>1 DEF QuestBooks
  <2>. HIDE DEF new
  <2>6. QuestsKept(quest, new)
    BY <1>1, <2>3, <2>4, <2>5 DEF QuestsKept
  <2>7. QuestsKept(old, new)
    BY <1>1, <2>6 DEF QuestsKept
  <2>. QED
    BY <2>3, <2>4, <2>6, <2>7 DEF KeptFrom, new
<1>. QED
  BY <1>2, <1>3

LEMMA TriggerTypes ==
    ASSUME NEW i \in 1..Len(Triggers)
    PROVE  TriggerOK(Triggers[i])
BY ScriptAssumption DEF TriggerOK

\* Every trigger that matches has begun its quest.
Begun(before, after, talked, quest) ==
    \A i \in 1..Len(Triggers) : Matches(Triggers[i], before, after, talked) =>
        quest[Triggers[i].quest].status # "inactive"

\* One pass over the triggers changes nothing but quests, undoes none of them, and
\* has begun the quest of every trigger that matches.
LEMMA TriggersKeep ==
    ASSUME NEW before, NEW after \in GameStates, NEW talked,
           \A q \in QuestIds : InOrder(after.quest[q])
    PROVE  /\ WithTriggers(before, after, talked).quest \in KeptFrom(after.quest)
           /\ WithTriggers(before, after, talked)
                = [after EXCEPT !.quest = WithTriggers(before, after, talked).quest]
           /\ Begun(before, after, talked, WithTriggers(before, after, talked).quest)
<1>. DEFINE n == Len(Triggers)
            V == KeptFrom(after.quest)
            run == QuestRun(before, after, talked)
<1>1. n \in Nat
  BY ScriptAssumption
<1>2. after.quest \in V
  BY DEF GameStates, KeptFrom, QuestBooks, QuestsKept
<1>3. ASSUME NEW i \in 1..n, NEW q \in V
      PROVE  /\ Heard(Triggers[i], before, after, talked, q) \in V
             /\ Heard(Triggers[i], before, after, talked, q) \in KeptFrom(q)
             /\ Matches(Triggers[i], before, after, talked) =>
                    Heard(Triggers[i], before, after, talked, q)[Triggers[i].quest].status # "inactive"
  BY HeardOK, TriggerTypes
<1>4. run = [i \in 0..n |-> IF i = 0 THEN after.quest
                             ELSE Heard(Triggers[i], before, after, talked, run[i - 1])]
  <2>1. \A i \in 1..Len(Triggers) : \A q \in V : Heard(Triggers[i], before, after, talked, q) \in V
    BY <1>3
  <2>. HIDE DEF V
  <2>2. QuestRun(before, after, talked) =
            [i \in 0..Len(Triggers) |->
                IF i = 0 THEN after.quest
                ELSE Heard(Triggers[i], before, after, talked, QuestRun(before, after, talked)[i - 1])]
    BY <1>2, <2>1, QuestRunUnfolds
  <2>. QED
    BY <2>2
<1>. HIDE DEF V, run
<1>5. /\ run[0] = after.quest
      /\ \A i \in 1..n : run[i] = Heard(Triggers[i], before, after, talked, run[i - 1])
  <2>. HIDE DEF n
  <2>. QED
    BY <1>1, <1>4
<1>6. \A i \in 0..n : run[i] \in V
  <2>1. run[0] \in V
    BY <1>2, <1>5
  <2>2. \A i \in 1..n : run[i - 1] \in V => run[i] \in V
    BY <1>3, <1>5
  <2>. HIDE DEF n
  <2>. QED
    BY <1>1, <2>1, <2>2, Inherited
<1>7. ASSUME NEW i \in 1..n, Matches(Triggers[i], before, after, talked)
      PROVE  run[n][Triggers[i].quest].status # "inactive"
  <2>. DEFINE t == Triggers[i]
              S == {k \in Nat : k \in i..n => run[k][t.quest].status # "inactive"}
  <2>0. t.quest \in QuestIds
    BY TriggerTypes DEF TriggerOK
  <2>1. 0 \in S
    BY <1>1
  <2>2. ASSUME NEW k \in Nat, k \in S
        PROVE  k + 1 \in S
    <3>. SUFFICES ASSUME k + 1 \in i..n
                  PROVE  run[k + 1][t.quest].status # "inactive"
      OBVIOUS
    <3>1. k + 1 \in 1..n /\ k \in 0..n /\ (k + 1) - 1 = k
      BY <1>1
    <3>2. run[k] \in V /\ run[k + 1] = Heard(Triggers[k + 1], before, after, talked, run[k])
      BY <1>5, <1>6, <3>1
    <3>3. CASE k + 1 = i
      BY <1>3, <1>7, <3>1, <3>2, <3>3
    <3>4. CASE k + 1 # i
      <4>1. run[k][t.quest].status # "inactive"
        BY <1>1, <2>2, <3>1, <3>4
      <4>2. run[k + 1] \in KeptFrom(run[k])
        BY <1>3, <3>1, <3>2
      <4>. QED
        BY <2>0, <4>1, <4>2 DEF KeptFrom, QuestsKept
    <3>. QED
      BY <3>3, <3>4
  <2>. HIDE DEF S
  <2>3. n \in S
    BY <1>1, <2>1, <2>2, SetInduction
  <2>. QED
    BY <1>1, <2>3 DEF S
<1>8. WithTriggers(before, after, talked) = [after EXCEPT !.quest = run[n]]
  BY DEF WithTriggers, run
<1>9. WithTriggers(before, after, talked).quest = run[n]
  BY <1>8 DEF GameStates
<1>10. run[n] \in V
  BY <1>1, <1>6
<1>. QED
  BY <1>7, <1>8, <1>9, <1>10 DEF V, Begun

-----------------------------------------------------------------------------
(* Delayed consequences *)

EffectOK(e) ==
    /\ e.op \in EffectKinds
    /\ e.op \in {"see", "forget"} => e.of \in Facts
    /\ e.op = "move" => e.of \in Places
    /\ e.op = "give" => e.of \in Items /\ e.of \in Given
    /\ e.op = "close" => e.of \in QuestIds /\ e.as \in Closed

LEMMA EffectTypes ==
    ASSUME NEW c \in Consequences
    PROVE  /\ Len(Effects[c]) \in Nat
           /\ \A i \in 1..Len(Effects[c]) : EffectOK(Effects[c][i])
BY ScriptAssumption DEF EffectOK, Given

\* What consequences leave alone: they touch neither NPCs, fights and shops nor
\* what else is pending, and close quests but undo none.
CarriedFrom(h, x) ==
    /\ x.npc = h.npc /\ x.fights = h.fights /\ x.stock = h.stock
    /\ x.clock = h.clock /\ x.pending = h.pending
    /\ \A i \in Items \ Given : x.owner[i] = h.owner[i]
    /\ QuestsKept(h.quest, x.quest)
CarriesFrom(h) == {r \in [ok : BOOLEAN, g : GameStates] : CarriedFrom(h, r.g)}

LEMMA AppliedOK ==
    ASSUME NEW h \in GameStates, NEW x \in GameStates, CarriedFrom(h, x), NEW e, EffectOK(e)
    PROVE  Applied(x, e) \in GameStates /\ CarriedFrom(h, Applied(x, e))
<1>1. CASE e.op = "see"
  <2>. DEFINE y == [x EXCEPT !.seen = @ \cup {e.of}]
  <2>1. Applied(x, e) = y
    BY <1>1 DEF Applied
  <2>2. y \in GameStates
    BY <1>1 DEF GameStates, EffectOK
  <2>. QED
    BY <2>1, <2>2 DEF CarriedFrom, GameStates
<1>2. CASE e.op = "forget"
  <2>. DEFINE y == [x EXCEPT !.seen = @ \ {e.of}]
  <2>1. Applied(x, e) = y
    BY <1>2 DEF Applied
  <2>2. y \in GameStates
    BY <1>2 DEF GameStates, EffectOK
  <2>. QED
    BY <2>1, <2>2 DEF CarriedFrom, GameStates
<1>3. CASE e.op = "move"
  <2>. DEFINE y == [x EXCEPT !.at = e.of]
  <2>1. Applied(x, e) = y
    BY <1>3 DEF Applied
  <2>2. y \in GameStates
    BY <1>3 DEF GameStates, EffectOK
  <2>. QED
    BY <2>1, <2>2 DEF CarriedFrom, GameStates
<1>4. CASE e.op = "give"
  <2>. DEFINE owner == [x.owner EXCEPT ![e.of] = Player]
              y == [x EXCEPT !.owner = owner]
  <2>1. Applied(x, e) = y
    BY <1>4 DEF Applied
  <2>2. e.of \in Items /\ e.of \in Given /\ x.owner \in [Items -> Merchants \cup {Player, Nobody}]
    BY <1>4 DEF EffectOK, GameStates
  <2>3. owner \in [Items -> Merchants \cup {Player, Nobody}]
    BY <2>2
  <2>4. \A i \in Items \ Given : owner[i] = x.owner[i]
    BY <2>2
  <2>. HIDE DEF owner
  <2>5. y \in GameStates
    BY <2>3 DEF GameStates
  <2>6. y.owner = owner
    BY DEF GameStates
  <2>. QED
    BY <2>1, <2>4, <2>5, <2>6 DEF CarriedFrom, GameStates
<1>5. CASE e.op = "close"
  <2>. DEFINE closed == [x.quest[e.of] EXCEPT !.status = e.as]
              quest == [x.quest EXCEPT ![e.of] = closed]
              y == [x EXCEPT !.quest = quest]
  <2>1. Applied(x, e) = y
    BY <1>5 DEF Applied
  <2>2. e.of \in QuestIds /\ e.as \in Closed /\ x.quest \in [QuestIds -> QuestStates]
    BY <1>5 DEF EffectOK, GameStates
  <2>3. closed \in QuestStates /\ closed.status \in Closed /\ closed.known = x.quest[e.of].known
    BY <2>2 DEF QuestStates, QuestStatus, Closed
  <2>. HIDE DEF closed
  <2>4. quest \in [QuestIds -> QuestStates]
    BY <2>2, <2>3
  <2>5. quest[e.of] = closed /\ \A q \in QuestIds : q # e.of => quest[q] = x.quest[q]
    BY <2>2
  <2>. HIDE DEF quest
  <2>6. y \in GameStates /\ y.quest = quest
    BY <2>4 DEF GameStates
  <2>7. QuestsKept(h.quest, quest)
    <3>1. InOrder(closed) /\ closed.status # "inactive"
      BY <2>3 DEF InOrder, Closed
    <3>2. QuestsKept(h.quest, x.quest)
      BY DEF CarriedFrom
    <3>. QED
      BY <2>3, <2>5, <3>1, <3>2 DEF QuestsKept
  <2>. QED
    BY <2>1, <2>6, <2>7 DEF CarriedFrom, GameStates
<1>. QED
  BY <1>1, <1>2, <1>3, <1>4, <1>5 DEF EffectOK, EffectKinds

LEMMA CarryOK ==
    ASSUME NEW h \in GameStates, NEW r \in CarriesFrom(h), NEW e, EffectOK(e)
    PROVE  Carry(r, e) \in CarriesFrom(h)
<1>1. r \in [ok : BOOLEAN, g : GameStates] /\ CarriedFrom(h, r.g)
  BY DEF CarriesFrom
<1>2. Applied(r.g, e) \in GameStates /\ CarriedFrom(h, Applied(r.g, e))
  BY <1>1, AppliedOK
<1>3. ASSUME NEW ok \in BOOLEAN, NEW x \in GameStates, CarriedFrom(h, x)
      PROVE  [ok |-> ok, g |-> x] \in CarriesFrom(h)
  <2>. DEFINE y == [ok |-> ok, g |-> x]
  <2>1. y \in [ok : BOOLEAN, g : GameStates] /\ y.g = x
    OBVIOUS
  <2>. HIDE DEF y
  <2>2. y \in CarriesFrom(h)
    BY <1>3, <2>1 DEF CarriesFrom
  <2>. QED
    BY <2>2 DEF y
<1>4. r.g \in GameStates
  BY <1>1
<1>5. \/ Carry(r, e) = [ok |-> TRUE, g |-> Applied(r.g, e)]
      \/ Carry(r, e) = [ok |-> FALSE, g |-> r.g]
  BY DEF Carry
<1>6. CASE Carry(r, e) = [ok |-> TRUE, g |-> Applied(r.g, e)]
  BY <1>2, <1>3, <1>6
<1>7. CASE Carry(r, e) = [ok |-> FALSE, g |-> r.g]
  BY <1>1, <1>3, <1>4, <1>7
<1>. QED
  BY <1>5, <1>6, <1>7

LEMMA CarriedUnfolds ==
    ASSUME NEW r, NEW effects, NEW V, r \in V, Len(effects) \in Nat,
           \A i \in 1..Len(effects) : \A v \in V : Carry(v, effects[i]) \in V
    PROVE  Carried(r, effects) = [i \in 0..Len(effects) |-> IF i = 0 THEN r ELSE Carry(Carried(r, effects)[i - 1], effects[i])]
<1>. DEFINE n == Len(effects)
            first == r
            step == [x \in (1..n) \X V |-> Carry(x[2], effects[x[1]])]
            Fits(f) == f = [i \in 0..n |-> IF i = 0 THEN first ELSE Carry(f[i - 1], effects[i])]
<1>1. n \in Nat /\ first \in V
  OBVIOUS
<1>2. step \in [(1..n) \X V -> V]
  OBVIOUS
<1>3. PICK f \in [0..n -> V] : Iterates(f, n, first, step)
  <2>. HIDE DEF step, n, first
  <2>. QED
    BY <1>1, <1>2, Iteration
<1>4. ASSUME NEW i \in 0..n
      PROVE  f[i] = IF i = 0 THEN first ELSE Carry(f[i - 1], effects[i])
  <2>1. f[i] = IF i = 0 THEN first ELSE step[<<i, f[i - 1]>>]
    BY <1>3 DEF Iterates
  <2>2. CASE i = 0
    BY <2>1, <2>2
  <2>3. CASE i # 0
    <3>1. i \in 1..n /\ i - 1 \in 0..n
      BY <1>1, <2>3
    <3>2. step[<<i, f[i - 1]>>] = Carry(f[i - 1], effects[i])
      BY <1>3, <3>1
    <3>. QED
      BY <2>1, <2>3, <3>2
  <2>. QED
    BY <2>2, <2>3
<1>5. Fits(f)
  BY <1>3, <1>4
<1>6. Carried(r, effects) = CHOOSE h : Fits(h)
  BY DEF Carried
<1>7. Fits(Carried(r, effects))
  <2>. HIDE DEF Fits
  <2>. QED
    BY <1>5, <1>6
<1>. QED
  BY <1>7

LEMMA CarriedOK ==
    ASSUME NEW h \in GameStates, NEW r \in CarriesFrom(h), NEW c \in Consequences
    PROVE  Carried(r, Effects[c])[Len(Effects[c])] \in CarriesFrom(h)
<1>. DEFINE effects == Effects[c]
            n == Len(effects)
            run == Carried(r, effects)
            V == CarriesFrom(h)
<1>1. n \in Nat /\ \A i \in 1..n : EffectOK(effects[i])
  BY EffectTypes
<1>2. \A i \in 1..n : \A v \in V : Carry(v, effects[i]) \in V
  BY <1>1, CarryOK
<1>. HIDE DEF V, effects
<1>3. r \in V
  BY DEF V
<1>4. run = [i \in 0..n |-> IF i = 0 THEN r ELSE Carry(run[i - 1], effects[i])]
  BY <1>1, <1>2, <1>3, CarriedUnfolds
<1>. HIDE DEF n, run
<1>5. run[0] = r /\ \A i \in 1..n : run[i] = Carry(run[i - 1], effects[i])
  BY <1>1, <1>4
<1>6. \A i \in 1..n : run[i - 1] \in V => run[i] \in V
  BY <1>2, <1>5
<1>7. \A i \in 0..n : run[i] \in V
  BY <1>1, <1>3, <1>5, <1>6, Inherited
<1>. QED
  BY <1>1, <1>7 DEF run, n, effects, V

LEMMA DueRunUnfolds ==
    ASSUME NEW h, NEW V, [ok |-> TRUE, g |-> [h EXCEPT !.pending = PendingAfter(h)]] \in V, Len(Schedule) \in Nat,
           \A i \in 1..Len(Schedule) : \A v \in V : RunNext(h, v, Schedule[i]) \in V
    PROVE  DueRun(h) = [i \in 0..Len(Schedule) |-> IF i = 0 THEN [ok |-> TRUE, g |-> [h EXCEPT !.pending = PendingAfter(h)]] ELSE RunNext(h, DueRun(h)[i - 1], Schedule[i])]
<1>. DEFINE n == Len(Schedule)
            first == [ok |-> TRUE, g |-> [h EXCEPT !.pending = PendingAfter(h)]]
            step == [x \in (1..n) \X V |-> RunNext(h, x[2], Schedule[x[1]])]
            Fits(f) == f = [i \in 0..n |-> IF i = 0 THEN first ELSE RunNext(h, f[i - 1], Schedule[i])]
<1>1. n \in Nat /\ first \in V
  OBVIOUS
<1>2. step \in [(1..n) \X V -> V]
  OBVIOUS
<1>3. PICK f \in [0..n -> V] : Iterates(f, n, first, step)
  <2>. HIDE DEF step, n, first
  <2>. QED
    BY <1>1, <1>2, Iteration
<1>4. ASSUME NEW i \in 0..n
      PROVE  f[i] = IF i = 0 THEN first ELSE RunNext(h, f[i - 1], Schedule[i])
  <2>1. f[i] = IF i = 0 THEN first ELSE step[<<i, f[i - 1]>>]
    BY <1>3 DEF Iterates
  <2>2. CASE i = 0
    BY <2>1, <2>2
  <2>3. CASE i # 0
    <3>1. i \in 1..n /\ i - 1 \in 0..n
      BY <1>1, <2>3
    <3>2. step[<<i, f[i - 1]>>] = RunNext(h, f[i - 1], Schedule[i])
      BY <1>3, <3>1
    <3>. QED
      BY <2>1, <2>3, <3>2
  <2>. QED
    BY <2>2, <2>3
<1>5. Fits(f)
  BY <1>3, <1>4
<1>6. DueRun(h) = CHOOSE k : Fits(k)
  BY DEF DueRun
<1>7. Fits(DueRun(h))
  <2>. HIDE DEF Fits
  <2>. QED
    BY <1>5, <1>6
<1>. QED
  BY <1>7

\* All that is due is carried out on the state without it.
LEMMA DueOK ==
    ASSUME NEW h \in GameStates, \A q \in QuestIds : InOrder(h.quest[q])
    PROVE  RunDue(h) \in CarriesFrom([h EXCEPT !.pending = PendingAfter(h)])
<1>. DEFINE left == [h EXCEPT !.pending = PendingAfter(h)]
            first == [ok |-> TRUE, g |-> left]
            n == Len(Schedule)
            run == DueRun(h)
            V == CarriesFrom(left)
<1>1. n \in Nat /\ \A i \in 1..n : Schedule[i] \in Consequences
  BY ScriptAssumption
<1>2. left \in GameStates /\ left.quest = h.quest
  <2>1. PendingAfter(h) \in SUBSET Consequences
    BY DEF PendingAfter, GameStates
  <2>. QED
    BY <2>1 DEF GameStates
<1>. HIDE DEF left
<1>3. first \in V
  <2>1. CarriedFrom(left, left)
    BY <1>2 DEF CarriedFrom, QuestsKept
  <2>2. first \in [ok : BOOLEAN, g : GameStates] /\ first.g = left
    BY <1>2
  <2>. HIDE DEF first
  <2>. QED
    BY <2>1, <2>2 DEF CarriesFrom
<1>4. ASSUME NEW i \in 1..n, NEW v \in V
      PROVE  RunNext(h, v, Schedule[i]) \in V
  <2>1. Carried(v, Effects[Schedule[i]])[Len(Effects[Schedule[i]])] \in V
    BY <1>1, <1>2, CarriedOK
  <2>. HIDE DEF V
  <2>. QED
    BY <2>1 DEF RunNext
<1>. HIDE DEF V
<1>5. run = [i \in 0..n |-> IF i = 0 THEN first ELSE RunNext(h, run[i - 1], Schedule[i])]
  <2>1. [ok |-> TRUE, g |-> [h EXCEPT !.pending = PendingAfter(h)]] \in V
    BY <1>3 DEF left
  <2>. QED
    BY <1>1, <1>4, <2>1, DueRunUnfolds DEF left
<1>. HIDE DEF first, n, run
<1>6. run[0] = first /\ \A i \in 1..n : run[i] = RunNext(h, run[i - 1], Schedule[i])
  BY <1>1, <1>5
<1>7. \A i \in 1..n : run[i - 1] \in V => run[i] \in V
  BY <1>4, <1>6
<1>8. \A i \in 0..n : run[i] \in V
  BY <1>1, <1>3, <1>6, <1>7, Inherited
<1>. QED
  BY <1>1, <1>8 DEF run, n, V, left, RunDue

-----------------------------------------------------------------------------
(* The invariant: what the properties say of g, said of any state *)

LifeIn(h) ==
    \A n \in Npcs : LET npc == h.npc[n]
                    IN  /\ npc.alive <=> npc.condition # "dead"
                        /\ npc.hp = 0 <=> npc.condition \in Down
                        /\ npc.hp = MaxHp <=> npc.condition = "healthy"
                        /\ npc.hp < MaxHp =>
                              npc.hostile /\ \E p \in Places : h.fights[p][n] # "none"

HeldIn(h) == \A i \in Items \ Given :
    /\ \A n, m \in Npcs : i \in h.stock[n] \cap h.stock[m] => n = m
    /\ h.owner[i] = Player => \A n \in Npcs : i \notin h.stock[n]

OrderIn(h) == \A q \in QuestIds : InOrder(h.quest[q])

NoneBack(h, x) == \A n \in Npcs : /\ x.npc[n].hp <= h.npc[n].hp
                                  /\ h.npc[n].condition \in Down => x.npc[n] = h.npc[n]

Inv == TypeOK /\ LifeIn(g) /\ HeldIn(g) /\ OrderIn(g) /\ TriggersHeard /\ ConsequencesOnce

\* What every handler leaves, before triggers and tick.
AfterOK(h) ==
    /\ h \in GameStates /\ LifeIn(h) /\ HeldIn(h) /\ NoneBack(g, h)
    /\ h.quest = g.quest /\ h.pending = g.pending /\ h.clock = g.clock

LEMMA TickedOK ==
    ASSUME NEW npc \in NpcStates, NEW at \in Places, NEW angered \in BOOLEAN
    PROVE  LET new == Ticked(npc, at, angered)
           IN  /\ new \in NpcStates
               /\ new.alive = npc.alive /\ new.hp = npc.hp /\ new.condition = npc.condition
               /\ npc.hostile => new.hostile
               /\ npc.condition \in Down => new = npc
<1>. DEFINE a == [npc EXCEPT !.at = at]
            hostile == npc.hostile \/ angered
            b == [a EXCEPT !.hostile = hostile]
<1>1. CASE ~CanAct(npc)
  BY <1>1 DEF Ticked
<1>2. CASE CanAct(npc)
  <2>1. Ticked(npc, at, angered) = b
    BY Zenon, <1>2 DEF Ticked
  <2>2. /\ a \in NpcStates /\ a.alive = npc.alive /\ a.hp = npc.hp /\ a.condition = npc.condition
    BY DEF NpcStates
  <2>3. hostile \in BOOLEAN /\ (npc.hostile => hostile)
    OBVIOUS
  <2>. HIDE DEF a, hostile
  <2>4. b \in NpcStates /\ b.alive = a.alive /\ b.hp = a.hp /\ b.condition = a.condition
        /\ b.hostile = hostile
    BY <2>2, <2>3 DEF NpcStates
  <2>5. npc.condition \notin Down
    BY <1>2 DEF CanAct
  <2>. HIDE DEF b
  <2>. QED
    BY <2>1, <2>2, <2>3, <2>4, <2>5
<1>. QED
  BY <1>1, <1>2

After(h, moment, npcs) == [h EXCEPT !.clock = moment, !.npc = npcs]

\* The time passes, and NPCs that can act go about their business.
LEMMA TickKeeps ==
    ASSUME NEW h \in GameStates, LifeIn(h), NEW npcs \in NpcTicks(h.npc),
           NEW moment \in 0..MaxClock, NEW x, x = After(h, moment, npcs)
    PROVE  /\ x \in GameStates /\ LifeIn(x) /\ NoneBack(h, x)
           /\ x.at = h.at /\ x.seen = h.seen /\ x.owner = h.owner /\ x.stock = h.stock
           /\ x.quest = h.quest /\ x.pending = h.pending
<1>. DEFINE y == [h EXCEPT !.clock = moment]
<1>1. PICK where \in [Npcs -> Places], angry \in SUBSET Npcs :
          npcs = [n \in Npcs |-> Ticked(h.npc[n], where[n], n \in angry)]
  BY DEF NpcTicks
<1>2. h.npc \in [Npcs -> NpcStates]
  BY DEF GameStates
<1>3. ASSUME NEW n \in Npcs
      PROVE  /\ npcs[n] \in NpcStates
             /\ npcs[n].alive = h.npc[n].alive /\ npcs[n].hp = h.npc[n].hp
             /\ npcs[n].condition = h.npc[n].condition
             /\ h.npc[n].hostile => npcs[n].hostile
             /\ h.npc[n].condition \in Down => npcs[n] = h.npc[n]
  <2>. DEFINE angered == n \in angry
              new == Ticked(h.npc[n], where[n], angered)
  <2>1. h.npc[n] \in NpcStates /\ where[n] \in Places /\ angered \in BOOLEAN
    BY <1>2
  <2>2. npcs[n] = new
    BY Zenon, <1>1
  <2>. HIDE DEF angered
  <2>3. /\ new \in NpcStates
        /\ new.alive = h.npc[n].alive /\ new.hp = h.npc[n].hp /\ new.condition = h.npc[n].condition
        /\ h.npc[n].hostile => new.hostile
        /\ h.npc[n].condition \in Down => new = h.npc[n]
    BY <2>1, TickedOK
  <2>. HIDE DEF new
  <2>. QED
    BY <2>2, <2>3
<1>4. npcs \in [Npcs -> NpcStates]
  BY <1>1, <1>3
<1>5. y \in GameStates /\ y.fights = h.fights
  BY DEF GameStates
<1>. HIDE DEF y
<1>6. x = [y EXCEPT !.npc = npcs]
  BY DEF y, After
<1>7. x \in GameStates /\ x.npc = npcs /\ x.fights = h.fights
  BY <1>4, <1>5, <1>6 DEF GameStates
<1>8. LifeIn(x)
  <2>. SUFFICES ASSUME NEW n \in Npcs
                PROVE  /\ x.npc[n].alive <=> x.npc[n].condition # "dead"
                       /\ x.npc[n].hp = 0 <=> x.npc[n].condition \in Down
                       /\ x.npc[n].hp = MaxHp <=> x.npc[n].condition = "healthy"
                       /\ x.npc[n].hp < MaxHp =>
                              x.npc[n].hostile /\ \E p \in Places : x.fights[p][n] # "none"
    BY DEF LifeIn
  <2>. QED
    BY <1>3, <1>7 DEF LifeIn
<1>9. NoneBack(h, x)
  BY <1>2, <1>3, <1>7 DEF NoneBack, NpcStates
<1>10. /\ x.at = h.at /\ x.seen = h.seen /\ x.owner = h.owner /\ x.stock = h.stock
       /\ x.quest = h.quest /\ x.pending = h.pending
  BY <1>6 DEF y, GameStates
<1>. QED
  BY <1>7, <1>8, <1>9, <1>10

\* What came about between two states of a turn came about in its handler or later.
LEMMA HeardEitherWay ==
    ASSUME NEW t, TriggerOK(t), NEW a, NEW b, NEW c, NEW d, NEW e, NEW talked,
           Matches(t, a, e, Nobody),
           c.at = b.at, c.seen = b.seen, c.owner = b.owner,
           e.at = d.at, e.seen = d.seen, e.owner = d.owner
    PROVE  Matches(t, a, b, talked) \/ Matches(t, c, d, Nobody)
<1>1. CASE t.kind = "fact"
  BY <1>1 DEF Matches
<1>2. CASE t.kind = "item"
  BY <1>2 DEF Matches
<1>3. CASE t.kind = "visit"
  BY <1>3 DEF Matches
<1>4. CASE t.kind = "talk"
  BY <1>4 DEF Matches
<1>. QED
  BY <1>1, <1>2, <1>3, <1>4 DEF TriggerOK, Kinds

LEMMA KeptTransitive ==
    ASSUME NEW old, NEW mid, NEW new, QuestsKept(old, mid), QuestsKept(mid, new)
    PROVE  QuestsKept(old, new)
BY DEF QuestsKept

LEMMA NoneBackTransitive ==
    ASSUME NEW a \in GameStates, NEW b \in GameStates, NEW c \in GameStates,
           NoneBack(a, b), NoneBack(b, c)
    PROVE  NoneBack(a, c)
<1>. SUFFICES ASSUME NEW n \in Npcs
              PROVE  /\ c.npc[n].hp <= a.npc[n].hp
                     /\ a.npc[n].condition \in Down => c.npc[n] = a.npc[n]
  BY DEF NoneBack
<1>1. a.npc[n].hp \in 0..MaxHp /\ b.npc[n].hp \in 0..MaxHp /\ c.npc[n].hp \in 0..MaxHp
  BY DEF GameStates, NpcStates
<1>2. /\ b.npc[n].hp <= a.npc[n].hp /\ c.npc[n].hp <= b.npc[n].hp
      /\ a.npc[n].condition \in Down => b.npc[n] = a.npc[n]
      /\ b.npc[n].condition \in Down => c.npc[n] = b.npc[n]
  BY DEF NoneBack
<1>. QED
  BY <1>1, <1>2, CombatAssumption

\* What a turn does to the state, whatever the handler did.
TurnOK(x) == /\ x \in GameStates /\ LifeIn(x) /\ HeldIn(x)
             /\ QuestsKept(g.quest, x.quest) /\ NoneBack(g, x)

LEMMA TurnKeeps ==
    ASSUME Inv, NEW after, AfterOK(after), NEW talked, NEW moment \in 0..MaxClock,
           NEW turned, turned = WithTriggers(g, after, talked),
           NEW npcs \in NpcTicks(turned.npc),
           NEW ticked, ticked = After(turned, moment, npcs),
           NEW x, x = AfterDue(turned, RunDue(ticked).g)
    PROVE  /\ TurnOK(x) /\ x.clock = ticked.clock
           /\ ticked.pending = g.pending /\ x.pending = PendingAfter(ticked)
           /\ \A i \in 1..Len(Triggers) : Matches(Triggers[i], g, x, Nobody) =>
                  x.quest[Triggers[i].quest].status # "inactive"
<1>. DEFINE run == RunDue(ticked)
            left == [ticked EXCEPT !.pending = PendingAfter(ticked)]
<1>1. /\ g \in GameStates /\ after \in GameStates /\ after.quest = g.quest
      /\ after.pending = g.pending /\ LifeIn(after) /\ HeldIn(after) /\ NoneBack(g, after)
      /\ \A q \in QuestIds : InOrder(after.quest[q])
  BY DEF AfterOK, Inv, TypeOK, OrderIn
<1>2. /\ turned.quest \in KeptFrom(after.quest)
      /\ turned = [after EXCEPT !.quest = turned.quest]
      /\ Begun(g, after, talked, turned.quest)
  BY <1>1, TriggersKeep
<1>3. /\ turned \in GameStates /\ turned.npc = after.npc /\ turned.fights = after.fights
      /\ turned.at = after.at /\ turned.seen = after.seen /\ turned.owner = after.owner
      /\ turned.stock = after.stock /\ turned.pending = after.pending
      /\ QuestsKept(after.quest, turned.quest)
  <2>1. turned.quest \in [QuestIds -> QuestStates] /\ QuestsKept(after.quest, turned.quest)
    BY <1>2 DEF KeptFrom, QuestBooks
  <2>. QED
    BY <1>1, <1>2, <2>1 DEF GameStates
<1>4. LifeIn(turned) /\ NoneBack(g, turned) /\ HeldIn(turned)
  BY <1>1, <1>3 DEF LifeIn, NoneBack, HeldIn
<1>5. /\ ticked \in GameStates /\ LifeIn(ticked) /\ NoneBack(turned, ticked)
      /\ ticked.at = turned.at /\ ticked.seen = turned.seen /\ ticked.owner = turned.owner
      /\ ticked.stock = turned.stock /\ ticked.quest = turned.quest /\ ticked.pending = turned.pending
  <2>1. turned \in GameStates /\ LifeIn(turned) /\ npcs \in NpcTicks(turned.npc)
    BY <1>3, <1>4
  <2>. QED
    BY <2>1, TickKeeps
<1>6. \A q \in QuestIds : InOrder(ticked.quest[q])
  BY <1>3, <1>5 DEF QuestsKept
<1>7. run \in CarriesFrom(left)
  BY <1>5, <1>6, DueOK
<1>. HIDE DEF run
<1>8. /\ left.npc = ticked.npc /\ left.fights = ticked.fights /\ left.stock = ticked.stock
      /\ left.clock = ticked.clock /\ left.pending = PendingAfter(ticked)
      /\ left.owner = ticked.owner /\ left.quest = ticked.quest
  BY <1>5 DEF GameStates
<1>. HIDE DEF left
<1>9. /\ run.g \in GameStates /\ run.g.npc = ticked.npc /\ run.g.fights = ticked.fights
      /\ run.g.stock = ticked.stock /\ run.g.clock = ticked.clock
      /\ run.g.pending = PendingAfter(ticked)
      /\ \A i \in Items \ Given : run.g.owner[i] = ticked.owner[i]
      /\ QuestsKept(ticked.quest, run.g.quest)
  BY <1>7, <1>8 DEF CarriesFrom, CarriedFrom
<1>10. /\ x.quest \in KeptFrom(run.g.quest)
       /\ x = [run.g EXCEPT !.quest = x.quest]
       /\ Begun(turned, run.g, Nobody, x.quest)
  <2>1. \A q \in QuestIds : InOrder(run.g.quest[q])
    BY <1>9 DEF QuestsKept
  <2>2. x = WithTriggers(turned, run.g, Nobody)
    BY DEF AfterDue, run
  <2>. QED
    BY <1>9, <2>1, <2>2, TriggersKeep
<1>11. /\ x \in GameStates /\ x.npc = run.g.npc /\ x.fights = run.g.fights
       /\ x.at = run.g.at /\ x.seen = run.g.seen /\ x.owner = run.g.owner
       /\ x.stock = run.g.stock /\ x.pending = run.g.pending /\ x.clock = run.g.clock
       /\ QuestsKept(run.g.quest, x.quest)
  <2>1. x.quest \in [QuestIds -> QuestStates] /\ QuestsKept(run.g.quest, x.quest)
    BY <1>10 DEF KeptFrom, QuestBooks
  <2>. QED
    BY <1>9, <1>10, <2>1 DEF GameStates
<1>12. QuestsKept(turned.quest, x.quest) /\ QuestsKept(g.quest, x.quest)
  <2>1. QuestsKept(turned.quest, run.g.quest)
    BY <1>5, <1>9
  <2>2. QuestsKept(g.quest, turned.quest)
    BY <1>1, <1>3
  <2>3. QuestsKept(turned.quest, x.quest)
    BY <1>11, <2>1, KeptTransitive
  <2>. QED
    BY <2>2, <2>3, KeptTransitive
<1>13. NoneBack(g, x)
  <2>1. NoneBack(g, ticked)
    BY <1>1, <1>3, <1>4, <1>5, NoneBackTransitive
  <2>. QED
    BY <1>9, <1>11, <2>1 DEF NoneBack
<1>14. LifeIn(x)
  BY <1>5, <1>9, <1>11 DEF LifeIn
<1>15. HeldIn(x)
  BY <1>4, <1>5, <1>9, <1>11 DEF HeldIn
<1>16. ASSUME NEW i \in 1..Len(Triggers), Matches(Triggers[i], g, x, Nobody)
       PROVE  x.quest[Triggers[i].quest].status # "inactive"
  <2>. DEFINE t == Triggers[i]
  <2>1. TriggerOK(t) /\ t.quest \in QuestIds
    BY TriggerTypes DEF TriggerOK
  <2>2. Matches(t, g, after, talked) \/ Matches(t, turned, run.g, Nobody)
    <3>. HIDE DEF t
    <3>1. Matches(t, g, x, Nobody)
      BY <1>16 DEF t
    <3>2. turned.at = after.at /\ turned.seen = after.seen /\ turned.owner = after.owner
      BY <1>3
    <3>3. x.at = run.g.at /\ x.seen = run.g.seen /\ x.owner = run.g.owner
      BY <1>11
    <3>. QED
      BY <2>1, <3>1, <3>2, <3>3, HeardEitherWay
  <2>3. CASE Matches(t, g, after, talked)
    <3>1. turned.quest[t.quest].status # "inactive"
      BY <1>2, <2>3 DEF Begun
    <3>. QED
      BY <1>12, <2>1, <3>1 DEF QuestsKept
  <2>4. CASE Matches(t, turned, run.g, Nobody)
    BY <1>10, <2>4 DEF Begun
  <2>. QED
    BY <2>2, <2>3, <2>4
<1>. QED
  BY <1>1, <1>3, <1>5, <1>9, <1>11, <1>12, <1>13, <1>14, <1>15, <1>16 DEF TurnOK

\* The step of every action, success, failure or a consequence that fails.
LEMMA TookKeeps ==
    ASSUME Inv, NEW after, AfterOK(after), NEW level \in {"success", "failure"}, NEW talked,
           Took(after, level, talked)
    PROVE  Inv' /\ QuestsKept(g.quest, g'.quest) /\ NoneBack(g, g')
<1>. DEFINE turned == WithTriggers(g, after, talked)
<1>1. /\ g \in GameStates /\ g.clock \in 0..MaxClock /\ OrderIn(g) /\ LifeIn(g) /\ HeldIn(g)
      /\ owed \subseteq 1..Len(Triggers) /\ fired \in [Consequences -> Nat]
      /\ outcome \in {"none", "success", "failure", "error"}
      /\ TriggersHeard /\ ConsequencesOnce
  BY DEF Inv, TypeOK, GameStates
<1>2. /\ after \in GameStates /\ LifeIn(after) /\ HeldIn(after) /\ NoneBack(g, after)
      /\ after.quest = g.quest /\ after.pending = g.pending
  BY DEF AfterOK
<1>3. ASSUME TurnOK(g'), owed' \subseteq 1..Len(Triggers), fired' \in [Consequences -> Nat],
             outcome' \in {"none", "success", "failure", "error"},
             TriggersHeard', ConsequencesOnce'
      PROVE  Inv' /\ QuestsKept(g.quest, g'.quest) /\ NoneBack(g, g')
  <2>1. OrderIn(g)'
    BY <1>3 DEF TurnOK, QuestsKept, OrderIn
  <2>. QED
    BY <1>3, <2>1 DEF TurnOK, Inv, TypeOK
<1>4. ASSUME QuestsKept(g.quest, g'.quest), owed' = owed
      PROVE  TriggersHeard'
  <2>1. ASSUME NEW i \in owed
        PROVE  g'.quest[Triggers[i].quest].status # "inactive"
    <3>1. i \in 1..Len(Triggers) /\ Triggers[i].quest \in QuestIds
      BY <1>1, TriggerTypes DEF TriggerOK
    <3>. QED
      BY <1>1, <1>4, <3>1 DEF TriggersHeard, QuestsKept
  <2>. QED
    BY <1>4, <2>1 DEF TriggersHeard
<1>5. PICK moment \in g.clock..MaxClock :
          IF level = "failure"
          THEN g' = [after EXCEPT !.clock = moment] /\ outcome' = level /\ UNCHANGED <<owed, fired>>
          ELSE \E npcs \in NpcTicks(turned.npc) :
                  LET ticked == After(turned, moment, npcs)
                      due == {c \in ticked.pending : IsDue(ticked, c)}
                      run == RunDue(ticked)
                  IN  IF run.ok
                      THEN /\ g' = AfterDue(turned, run.g)
                           /\ outcome' = level
                           /\ owed' = owed \cup Events(g, g')
                           /\ fired' = [c \in Consequences |-> fired[c] + (IF c \in due THEN 1 ELSE 0)]
                      ELSE outcome' = "error" /\ UNCHANGED <<g, owed, fired>>
  BY Zenon DEF Took, After
<1>6. moment \in 0..MaxClock
  BY <1>1, WorldAssumption
<1>7. CASE level = "failure"
  <2>1. g' = [after EXCEPT !.clock = moment] /\ outcome' = level /\ owed' = owed /\ fired' = fired
    BY <1>5, <1>7
  <2>2. /\ g' \in GameStates /\ g'.npc = after.npc /\ g'.fights = after.fights
        /\ g'.stock = after.stock /\ g'.owner = after.owner /\ g'.quest = after.quest
        /\ g'.pending = after.pending
    BY <1>2, <1>6, <2>1 DEF GameStates
  <2>3. QuestsKept(g.quest, g'.quest)
    BY <1>1, <1>2, <2>2 DEF QuestsKept, OrderIn
  <2>4. TurnOK(g')
    BY <1>2, <2>2, <2>3 DEF TurnOK, LifeIn, HeldIn, NoneBack
  <2>5. TriggersHeard'
    BY <1>4, <2>1, <2>3
  <2>6. ConsequencesOnce'
    BY <1>1, <1>2, <1>7, <2>1, <2>2 DEF ConsequencesOnce
  <2>. QED
    BY <1>1, <1>3, <1>7, <2>1, <2>4, <2>5, <2>6
<1>8. CASE level = "success"
  <2>. DEFINE tick(npcs) == After(turned, moment, npcs)
              due(npcs) == {c \in tick(npcs).pending : IsDue(tick(npcs), c)}
  <2>1. PICK npcs \in NpcTicks(turned.npc) :
            IF RunDue(tick(npcs)).ok
            THEN /\ g' = AfterDue(turned, RunDue(tick(npcs)).g)
                 /\ outcome' = level
                 /\ owed' = owed \cup Events(g, g')
                 /\ fired' = [c \in Consequences |-> fired[c] + (IF c \in due(npcs) THEN 1 ELSE 0)]
            ELSE outcome' = "error" /\ UNCHANGED <<g, owed, fired>>
    BY <1>5, <1>8
  <2>. DEFINE ticked == tick(npcs)
  <2>2. CASE ~RunDue(ticked).ok
    <3>1. outcome' = "error" /\ g' = g /\ owed' = owed /\ fired' = fired
      BY <2>1, <2>2
    <3>2. QuestsKept(g.quest, g.quest) /\ NoneBack(g, g)
      BY <1>1 DEF QuestsKept, OrderIn, NoneBack, GameStates, NpcStates
    <3>3. TurnOK(g')
      BY <1>1, <3>1, <3>2 DEF TurnOK
    <3>4. TriggersHeard' /\ ConsequencesOnce'
      BY <1>1, <3>1 DEF TriggersHeard, ConsequencesOnce
    <3>. QED
      BY <1>1, <1>3, <3>1, <3>3, <3>4
  <2>3. CASE RunDue(ticked).ok
    <3>. DEFINE x == AfterDue(turned, RunDue(ticked).g)
    <3>1. /\ g' = x /\ outcome' = level /\ owed' = owed \cup Events(g, g')
          /\ fired' = [c \in Consequences |-> fired[c] + (IF c \in due(npcs) THEN 1 ELSE 0)]
      BY <2>1, <2>3
    <3>2. /\ TurnOK(x) /\ x.clock = ticked.clock
          /\ ticked.pending = g.pending /\ x.pending = PendingAfter(ticked)
          /\ \A i \in 1..Len(Triggers) : Matches(Triggers[i], g, x, Nobody) =>
                 x.quest[Triggers[i].quest].status # "inactive"
      <4>. HIDE DEF turned, ticked, x
      <4>. QED
        BY <1>6, TurnKeeps DEF turned, ticked, x
    <3>3. TurnOK(g')
      BY <3>1, <3>2
    <3>4. owed' \subseteq 1..Len(Triggers) /\ fired' \in [Consequences -> Nat]
      BY <1>1, <3>1 DEF Events
    <3>5. TriggersHeard'
      <4>1. ASSUME NEW i \in owed
            PROVE  g'.quest[Triggers[i].quest].status # "inactive"
        <5>1. i \in 1..Len(Triggers) /\ Triggers[i].quest \in QuestIds
          BY <1>1, TriggerTypes DEF TriggerOK
        <5>. QED
          BY <1>1, <3>3, <5>1 DEF TriggersHeard, QuestsKept, TurnOK
      <4>2. ASSUME NEW i \in Events(g, g')
            PROVE  g'.quest[Triggers[i].quest].status # "inactive"
        BY <3>1, <3>2, <4>2 DEF Events
      <4>. QED
        BY <3>1, <4>1, <4>2 DEF TriggersHeard
    <3>6. ConsequencesOnce'
      <4>1. /\ g'.clock = ticked.clock /\ g'.pending = PendingAfter(ticked) /\ ticked.pending = g.pending
            /\ g.pending \subseteq Consequences
        BY <1>1, <3>1, <3>2 DEF GameStates
      <4>. HIDE DEF ticked
      <4>2. g'.pending = {c \in g.pending : ~IsDue(ticked, c)}
        BY <4>1 DEF PendingAfter
      <4>3. ASSUME NEW c \in Consequences
            PROVE  fired'[c] = (IF c \in g'.pending THEN 0 ELSE 1)
        <5>1. fired'[c] = fired[c] + (IF c \in g.pending /\ IsDue(ticked, c) THEN 1 ELSE 0)
          BY <3>1, <4>1 DEF ticked
        <5>2. fired[c] = (IF c \in g.pending THEN 0 ELSE 1)
          BY <1>1 DEF ConsequencesOnce
        <5>. QED
          BY <4>2, <5>1, <5>2
      <4>4. \A c \in g'.pending : ~(Due[c] <= g'.clock)
        BY <4>1, <4>2 DEF IsDue
      <4>. QED
        BY <4>3, <4>4 DEF ConsequencesOnce, IsDue
    <3>. QED
      BY <1>3, <1>8, <3>1, <3>3, <3>4, <3>5, <3>6
  <2>. QED
    BY <2>2, <2>3
<1>. QED
  BY <1>7, <1>8

-----------------------------------------------------------------------------
(* The handlers *)

LEMMA PriceOK ==
    ASSUME NEW i \in Items, NEW direction \in {"buy", "sell"}, NEW n \in Merchants,
           NEW band \in {"hostile", "suspicious", "neutral", "friendly", "trusted"}
    PROVE  Price(i, direction, n, band) \in Nat
<1>1. ASSUME NEW k \in Nat
      PROVE  Rounded(k, 10000) \in Nat
  BY DEF Rounded
<1>2. Rate(direction, band) \in Nat
  BY DEF Rate
<1>3. ASSUME NEW a \in Nat, NEW b \in Nat
      PROVE  a * b \in Nat
  OBVIOUS
<1>4. BasePrice[i] \in Nat /\ Modifier(direction, n) \in Nat
  BY TradeAssumption DEF Modifier
<1>5. BasePrice[i] * Modifier(direction, n) \in Nat
  BY <1>3, <1>4
<1>6. BasePrice[i] * Modifier(direction, n) * Rate(direction, band) \in Nat
  BY <1>2, <1>3, <1>5
<1>. QED
  BY <1>1, <1>6 DEF Price

\* Hit points, condition and the alive flag of one NPC agree.
LifeOf(npc) ==
    /\ npc.alive <=> npc.condition # "dead"
    /\ npc.hp = 0 <=> npc.condition \in Down
    /\ npc.hp = MaxHp <=> npc.condition = "healthy"

LEMMA DamagedOK ==
    ASSUME NEW npc \in NpcStates, LifeOf(npc), CanAct(npc), NEW amount \in Nat, amount > 0,
           NEW lethal \in BOOLEAN
    PROVE  LET new == Damaged(npc, amount, lethal)
           IN  new \in NpcStates /\ LifeOf(new) /\ new.hp <= npc.hp
<1>. DEFINE hp == Larger(npc.hp - amount, 0)
            condition == ConditionForHp(hp, lethal)
            alive == condition # "dead"
            x == [npc EXCEPT !.hp = hp]
            y == [x EXCEPT !.condition = condition]
            z == [y EXCEPT !.alive = alive]
<1>1. npc.hp \in 1..MaxHp
  BY CombatAssumption DEF NpcStates, LifeOf, CanAct
<1>2. hp \in 0..MaxHp /\ hp < MaxHp /\ hp <= npc.hp
  BY <1>1, CombatAssumption DEF Larger
<1>. HIDE DEF hp
<1>3. /\ condition \in Conditions /\ condition # "healthy"
      /\ hp = 0 <=> condition \in Down
  BY <1>2, CombatAssumption DEF ConditionForHp, Conditions, Down
<1>. HIDE DEF condition
<1>4. alive \in BOOLEAN /\ (alive <=> condition # "dead")
  OBVIOUS
<1>. HIDE DEF alive
<1>5. x \in NpcStates /\ x.hp = hp
  BY <1>2 DEF NpcStates
<1>. HIDE DEF x
<1>6. y \in NpcStates /\ y.hp = hp /\ y.condition = condition
  BY <1>3, <1>5 DEF NpcStates
<1>. HIDE DEF y
<1>7. z \in NpcStates /\ z.hp = hp /\ z.condition = condition /\ z.alive = alive
  BY <1>4, <1>6 DEF NpcStates
<1>8. Damaged(npc, amount, lethal) = z
  BY Zenon DEF Damaged, z, y, x, alive, condition, hp
<1>. HIDE DEF z
<1>9. LifeOf(z)
  BY <1>2, <1>3, <1>4, <1>7, CombatAssumption DEF LifeOf
<1>. QED
  BY <1>2, <1>7, <1>8, <1>9

LEMMA StruckOK ==
    ASSUME NEW npc \in NpcStates, LifeOf(npc), CanAct(npc), NEW blow \in Blows, NEW lethal \in BOOLEAN
    PROVE  LET new == Struck(npc, blow, lethal)
           IN  new \in NpcStates /\ LifeOf(new) /\ new.hp <= npc.hp /\ new.hostile
<1>. DEFINE amount == IF npc.guarded THEN Larger(blow - 2, 0) ELSE blow
            hurt == IF amount > 0 THEN Damaged(npc, amount, lethal) ELSE npc
            x == [hurt EXCEPT !.hostile = TRUE]
            y == [x EXCEPT !.guarded = FALSE]
<1>1. amount \in Nat
  BY CombatAssumption DEF Larger
<1>. HIDE DEF amount
<1>2. hurt \in NpcStates /\ LifeOf(hurt) /\ hurt.hp <= npc.hp
  <2>1. CASE amount > 0
    BY <1>1, <2>1, DamagedOK
  <2>2. CASE ~(amount > 0)
    BY <2>2, CombatAssumption DEF NpcStates
  <2>. QED
    BY <2>1, <2>2
<1>. HIDE DEF hurt
<1>3. x \in NpcStates /\ x.hp = hurt.hp /\ x.condition = hurt.condition /\ x.alive = hurt.alive /\ x.hostile
  BY <1>2 DEF NpcStates
<1>. HIDE DEF x
<1>4. y \in NpcStates /\ y.hp = x.hp /\ y.condition = x.condition /\ y.alive = x.alive /\ y.hostile
  BY <1>3 DEF NpcStates
<1>5. Struck(npc, blow, lethal) = y
  BY Zenon DEF Struck, y, x, hurt, amount
<1>. HIDE DEF y
<1>. QED
  BY <1>2, <1>3, <1>4, <1>5 DEF LifeOf

LEMMA StateOK ==
    ASSUME Inv
    PROVE  AfterOK(g) /\ g \in GameStates
BY DEF Inv, TypeOK, AfterOK, NoneBack, GameStates, NpcStates

\* A handler that touches neither NPCs, fights and the holders of items nor quests.
LEMMA AsideOK ==
    ASSUME Inv, NEW x \in GameStates, x.npc = g.npc, x.fights = g.fights, x.stock = g.stock,
           x.owner = g.owner, x.quest = g.quest, x.pending = g.pending, x.clock = g.clock
    PROVE  AfterOK(x)
BY StateOK DEF AfterOK, LifeIn, HeldIn, NoneBack

LEMMA MoveOK ==
    ASSUME Inv, NEW p \in Places
    PROVE  AfterOK([g EXCEPT !.at = p])
<1>. DEFINE x == [g EXCEPT !.at = p]
<1>1. /\ x \in GameStates /\ x.npc = g.npc /\ x.fights = g.fights /\ x.stock = g.stock
      /\ x.owner = g.owner /\ x.quest = g.quest /\ x.pending = g.pending /\ x.clock = g.clock
  BY StateOK DEF GameStates
<1>. HIDE DEF x
<1>2. AfterOK(x)
  BY <1>1, AsideOK
<1>. QED
  BY <1>2 DEF x

LEMMA SearchOK ==
    ASSUME Inv, NEW seen, seen = g.seen \cup Clues[g.at]
    PROVE  AfterOK([g EXCEPT !.seen = seen])
<1>. DEFINE x == [g EXCEPT !.seen = seen]
<1>1. seen \subseteq Facts
  BY StateOK, WorldAssumption DEF GameStates
<1>2. /\ x \in GameStates /\ x.npc = g.npc /\ x.fights = g.fights /\ x.stock = g.stock
      /\ x.owner = g.owner /\ x.quest = g.quest /\ x.pending = g.pending /\ x.clock = g.clock
  BY <1>1, StateOK DEF GameStates
<1>. HIDE DEF x
<1>3. AfterOK(x)
  BY <1>2, AsideOK
<1>. QED
  BY <1>3 DEF x

LEMMA LockOK ==
    ASSUME Inv
    PROVE  AfterOK([g EXCEPT !.locked = FALSE]) /\ AfterOK(Scratched(g)) /\ AfterOK([g EXCEPT !.stunned = TRUE])
<1>. DEFINE x == [g EXCEPT !.locked = FALSE]
            z == [g EXCEPT !.stunned = TRUE]
<1>1. /\ x \in GameStates /\ x.npc = g.npc /\ x.fights = g.fights /\ x.stock = g.stock
      /\ x.owner = g.owner /\ x.quest = g.quest /\ x.pending = g.pending /\ x.clock = g.clock
  BY StateOK DEF GameStates
<1>2. /\ z \in GameStates /\ z.npc = g.npc /\ z.fights = g.fights /\ z.stock = g.stock
      /\ z.owner = g.owner /\ z.quest = g.quest /\ z.pending = g.pending /\ z.clock = g.clock
  BY StateOK DEF GameStates
<1>3. LET y == Scratched(g)
      IN  /\ y \in GameStates /\ y.npc = g.npc /\ y.fights = g.fights /\ y.stock = g.stock
          /\ y.owner = g.owner /\ y.quest = g.quest /\ y.pending = g.pending /\ y.clock = g.clock
  <2>1. g.seen \cup {Mark} \subseteq Facts
    BY StateOK, WorldAssumption DEF GameStates
  <2>. QED
    BY <2>1, StateOK DEF Scratched, GameStates
<1>. HIDE DEF x, z
<1>4. AfterOK(x) /\ AfterOK(z) /\ AfterOK(Scratched(g))
  BY <1>1, <1>2, <1>3, AsideOK
<1>. QED
  BY <1>4 DEF x, z

\* A purchase: who has paid has the item, and no shop has it any more.
LEMMA BuyOK ==
    ASSUME Inv, NEW i \in Items, NEW n \in Npcs, i \in g.stock[n], NEW price \in Nat, price <= g.coins
    PROVE  AfterOK([g EXCEPT !.coins = @ - price, !.stock[n] = @ \ {i}, !.owner[i] = Player])
<1>. DEFINE coins == g.coins - price
            shop == g.stock[n] \ {i}
            stock == [g.stock EXCEPT ![n] = shop]
            owner == [g.owner EXCEPT ![i] = Player]
            x == [g EXCEPT !.coins = coins]
            y == [x EXCEPT !.stock = stock]
            z == [y EXCEPT !.owner = owner]
<1>0. /\ g \in GameStates /\ AfterOK(g) /\ g.stock \in [Npcs -> SUBSET Items] /\ g.coins \in Nat
      /\ g.owner \in [Items -> Merchants \cup {Player, Nobody}]
  BY StateOK DEF GameStates
<1>1. coins \in Nat
  BY <1>0
<1>2. /\ stock \in [Npcs -> SUBSET Items] /\ stock[n] = g.stock[n] \ {i}
      /\ \A m \in Npcs : m # n => stock[m] = g.stock[m]
  BY <1>0
<1>3. /\ owner \in [Items -> Merchants \cup {Player, Nobody}] /\ owner[i] = Player
      /\ \A j \in Items : j # i => owner[j] = g.owner[j]
  BY <1>0
<1>. HIDE DEF coins, stock, owner
<1>4. x \in GameStates /\ x.npc = g.npc /\ x.fights = g.fights /\ x.quest = g.quest
      /\ x.pending = g.pending /\ x.clock = g.clock
  BY <1>0, <1>1 DEF GameStates
<1>. HIDE DEF x
<1>5. y \in GameStates /\ y.npc = g.npc /\ y.fights = g.fights /\ y.quest = g.quest
      /\ y.pending = g.pending /\ y.clock = g.clock /\ y.stock = stock
  BY <1>2, <1>4 DEF GameStates
<1>. HIDE DEF y
<1>6. z \in GameStates /\ z.npc = g.npc /\ z.fights = g.fights /\ z.quest = g.quest
      /\ z.pending = g.pending /\ z.clock = g.clock /\ z.stock = stock /\ z.owner = owner
  BY <1>3, <1>5 DEF GameStates
<1>. HIDE DEF z
<1>7. HeldIn(z)
  BY <1>0, <1>2, <1>3, <1>6 DEF HeldIn, AfterOK
<1>8. AfterOK(z)
  BY <1>0, <1>6, <1>7 DEF AfterOK, LifeIn, NoneBack
<1>9. z = [g EXCEPT !.coins = @ - price, !.stock[n] = @ \ {i}, !.owner[i] = Player]
  BY Zenon DEF z, y, x, coins, stock, owner
<1>. QED
  BY <1>8, <1>9

\* A sale: the item is in the one shop that bought it.
LEMMA SellOK ==
    ASSUME Inv, NEW i \in Items, NEW n \in Merchants, g.owner[i] = Player, NEW price \in Nat
    PROVE  AfterOK([g EXCEPT !.coins = @ + price, !.stock[n] = @ \cup {i}, !.owner[i] = n])
<1>. DEFINE coins == g.coins + price
            shop == g.stock[n] \cup {i}
            stock == [g.stock EXCEPT ![n] = shop]
            owner == [g.owner EXCEPT ![i] = n]
            x == [g EXCEPT !.coins = coins]
            y == [x EXCEPT !.stock = stock]
            z == [y EXCEPT !.owner = owner]
<1>0. /\ g \in GameStates /\ AfterOK(g) /\ g.stock \in [Npcs -> SUBSET Items] /\ g.coins \in Nat
      /\ g.owner \in [Items -> Merchants \cup {Player, Nobody}]
      /\ n \in Npcs /\ n # Player
  BY StateOK, WorldAssumption DEF GameStates
<1>1. coins \in Nat
  BY <1>0
<1>2. /\ stock \in [Npcs -> SUBSET Items] /\ stock[n] = g.stock[n] \cup {i}
      /\ \A m \in Npcs : m # n => stock[m] = g.stock[m]
  BY <1>0
<1>3. /\ owner \in [Items -> Merchants \cup {Player, Nobody}] /\ owner[i] = n
      /\ \A j \in Items : j # i => owner[j] = g.owner[j]
  BY <1>0
<1>. HIDE DEF coins, stock, owner
<1>4. x \in GameStates /\ x.npc = g.npc /\ x.fights = g.fights /\ x.quest = g.quest
      /\ x.pending = g.pending /\ x.clock = g.clock
  BY <1>0, <1>1 DEF GameStates
<1>. HIDE DEF x
<1>5. y \in GameStates /\ y.npc = g.npc /\ y.fights = g.fights /\ y.quest = g.quest
      /\ y.pending = g.pending /\ y.clock = g.clock /\ y.stock = stock
  BY <1>2, <1>4 DEF GameStates
<1>. HIDE DEF y
<1>6. z \in GameStates /\ z.npc = g.npc /\ z.fights = g.fights /\ z.quest = g.quest
      /\ z.pending = g.pending /\ z.clock = g.clock /\ z.stock = stock /\ z.owner = owner
  BY <1>3, <1>5 DEF GameStates
<1>. HIDE DEF z
<1>7. HeldIn(z)
  BY <1>0, <1>2, <1>3, <1>6 DEF HeldIn, AfterOK
<1>8. AfterOK(z)
  BY <1>0, <1>6, <1>7 DEF AfterOK, LifeIn, NoneBack
<1>9. z = [g EXCEPT !.coins = @ + price, !.stock[n] = @ \cup {i}, !.owner[i] = n]
  BY Zenon DEF z, y, x, coins, stock, owner
<1>. QED
  BY <1>8, <1>9

\* What recording or ending fights leaves: every fight stays on record.
FightsFrom(h) ==
    /\ h \in GameStates /\ h.npc = g.npc /\ h.stock = g.stock /\ h.owner = g.owner
    /\ h.quest = g.quest /\ h.pending = g.pending /\ h.clock = g.clock
    /\ \A p \in Places : \A n \in Npcs : g.fights[p][n] # "none" => h.fights[p][n] # "none"

LEMMA FoughtOK ==
    ASSUME Inv, NEW n \in Npcs
    PROVE  FightsFrom(Fought(g, n)) /\ Fought(g, n).fights[g.at][n] # "none"
<1>. DEFINE fight == IF g.fights[g.at][n] = "none" THEN "active" ELSE g.fights[g.at][n]
            here == [g.fights[g.at] EXCEPT ![n] = fight]
            fights == [g.fights EXCEPT ![g.at] = here]
            x == [g EXCEPT !.fights = fights]
<1>1. g \in GameStates /\ g.at \in Places /\ g.fights \in [Places -> [Npcs -> FightStates]]
  BY StateOK DEF GameStates
<1>2. fight \in FightStates /\ fight # "none"
  BY <1>1 DEF FightStates
<1>. HIDE DEF fight
<1>3. here \in [Npcs -> FightStates] /\ here[n] = fight /\ \A m \in Npcs : m # n => here[m] = g.fights[g.at][m]
  BY <1>1, <1>2
<1>. HIDE DEF here
<1>4. /\ fights \in [Places -> [Npcs -> FightStates]] /\ fights[g.at] = here
      /\ \A p \in Places : p # g.at => fights[p] = g.fights[p]
  BY <1>1, <1>3
<1>. HIDE DEF fights
<1>5. /\ x \in GameStates /\ x.fights = fights /\ x.npc = g.npc /\ x.stock = g.stock /\ x.owner = g.owner
      /\ x.quest = g.quest /\ x.pending = g.pending /\ x.clock = g.clock
  BY <1>1, <1>4 DEF GameStates
<1>6. Fought(g, n) = x
  BY Zenon DEF Fought, x, fights, here, fight
<1>. HIDE DEF x
<1>. QED
  BY <1>1, <1>2, <1>3, <1>4, <1>5, <1>6 DEF FightsFrom

LEMMA StrikeOK ==
    ASSUME Inv, NEW h, FightsFrom(h), NEW n \in Npcs, h.fights[g.at][n] # "none",
           g.npc[n].condition \notin Down,
           NEW new \in NpcStates, LifeOf(new), new.hp <= g.npc[n].hp, new.hostile
    PROVE  AfterOK([h EXCEPT !.npc[n] = new])
<1>. DEFINE npc == [h.npc EXCEPT ![n] = new]
            x == [h EXCEPT !.npc = npc]
<1>1. /\ g \in GameStates /\ AfterOK(g) /\ g.at \in Places /\ g.npc \in [Npcs -> NpcStates]
      /\ h \in GameStates /\ h.npc = g.npc
  BY StateOK DEF GameStates, FightsFrom
<1>2. npc \in [Npcs -> NpcStates] /\ npc[n] = new /\ \A m \in Npcs : m # n => npc[m] = g.npc[m]
  BY <1>1
<1>. HIDE DEF npc
<1>3. /\ x \in GameStates /\ x.npc = npc /\ x.fights = h.fights /\ x.stock = h.stock /\ x.owner = h.owner
      /\ x.quest = h.quest /\ x.pending = h.pending /\ x.clock = h.clock
  BY <1>1, <1>2 DEF GameStates
<1>4. x = [h EXCEPT !.npc[n] = new]
  BY Zenon DEF x, npc
<1>. HIDE DEF x
<1>5. ASSUME NEW m \in Npcs
      PROVE  /\ LifeOf(npc[m])
             /\ npc[m].hp < MaxHp => npc[m].hostile /\ \E p \in Places : h.fights[p][m] # "none"
  <2>1. CASE m = n
    BY <1>1, <1>2, <2>1
  <2>2. CASE m # n
    <3>1. /\ LifeOf(g.npc[m])
          /\ g.npc[m].hp < MaxHp => g.npc[m].hostile /\ \E p \in Places : g.fights[p][m] # "none"
      BY <1>1 DEF AfterOK, LifeIn, LifeOf
    <3>. QED
      BY <1>2, <2>2, <3>1 DEF FightsFrom
  <2>. QED
    BY <2>1, <2>2
<1>6. LifeIn(x)
  BY <1>3, <1>5 DEF LifeIn, LifeOf
<1>7. NoneBack(g, x)
  <2>. SUFFICES ASSUME NEW m \in Npcs
                PROVE  /\ npc[m].hp <= g.npc[m].hp
                       /\ g.npc[m].condition \in Down => npc[m] = g.npc[m]
    BY <1>3 DEF NoneBack
  <2>. QED
    BY <1>1, <1>2, CombatAssumption DEF NpcStates
<1>8. HeldIn(x)
  BY <1>1, <1>3 DEF HeldIn, AfterOK, FightsFrom
<1>9. AfterOK(x)
  BY <1>3, <1>6, <1>7, <1>8 DEF AfterOK, FightsFrom
<1>. QED
  BY <1>4, <1>9

LEMMA MissOK ==
    ASSUME Inv, NEW n \in Npcs, CanAct(g.npc[n])
    PROVE  AfterOK([Fought(g, n) EXCEPT !.npc[n] = Missed(@)])
<1>. DEFINE npc == g.npc[n]
            new == [npc EXCEPT !.hostile = TRUE]
            h == Fought(g, n)
<1>1. npc \in NpcStates /\ LifeOf(npc) /\ npc.condition \notin Down
  BY StateOK DEF GameStates, AfterOK, LifeIn, LifeOf, CanAct
<1>2. FightsFrom(h) /\ h.fights[g.at][n] # "none" /\ h.npc = g.npc
  BY FoughtOK DEF FightsFrom
<1>3. [h EXCEPT !.npc[n] = Missed(@)] = [h EXCEPT !.npc[n] = new]
  BY <1>2 DEF Missed
<1>. HIDE DEF h, npc
<1>4. new \in NpcStates /\ LifeOf(new) /\ new.hp <= npc.hp /\ new.hostile
  <2>1. /\ new \in NpcStates /\ new.hostile = TRUE
        /\ new.hp = npc.hp /\ new.condition = npc.condition /\ new.alive = npc.alive
    BY <1>1 DEF NpcStates
  <2>2. npc.hp \in 0..MaxHp
    BY <1>1 DEF NpcStates
  <2>. HIDE DEF new
  <2>. QED
    BY <1>1, <2>1, <2>2, CombatAssumption DEF LifeOf
<1>. HIDE DEF new
<1>5. AfterOK([h EXCEPT !.npc[n] = new])
  BY <1>1, <1>2, <1>4, StrikeOK DEF npc
<1>. QED
  BY Zenon, <1>3, <1>5 DEF h

LEMMA HitOK ==
    ASSUME Inv, NEW n \in Npcs, CanAct(g.npc[n]), NEW blow \in Blows, NEW lethal \in BOOLEAN
    PROVE  AfterOK([Fought(g, n) EXCEPT !.npc[n] = Struck(@, blow, lethal)])
<1>. DEFINE npc == g.npc[n]
            new == Struck(npc, blow, lethal)
            h == Fought(g, n)
<1>1. npc \in NpcStates /\ LifeOf(npc) /\ npc.condition \notin Down /\ CanAct(npc)
  BY StateOK DEF GameStates, AfterOK, LifeIn, LifeOf, CanAct
<1>2. FightsFrom(h) /\ h.fights[g.at][n] # "none" /\ h.npc = g.npc
  BY FoughtOK DEF FightsFrom
<1>3. [h EXCEPT !.npc[n] = Struck(@, blow, lethal)] = [h EXCEPT !.npc[n] = new]
  BY <1>2
<1>. HIDE DEF h, npc
<1>4. new \in NpcStates /\ LifeOf(new) /\ new.hp <= npc.hp /\ new.hostile
  BY <1>1, StruckOK
<1>. HIDE DEF new
<1>5. AfterOK([h EXCEPT !.npc[n] = new])
  BY <1>1, <1>2, <1>4, StrikeOK DEF npc
<1>. QED
  BY Zenon, <1>3, <1>5 DEF h

LEMMA FledOK ==
    ASSUME Inv, NEW p \in Places
    PROVE  AfterOK(Fled(g, p))
<1>. DEFINE fights == [q \in Places |-> [n \in Npcs |->
                          IF g.fights[q][n] = "active" THEN "ended" ELSE g.fights[q][n]]]
            x == [g EXCEPT !.at = p]
            y == [x EXCEPT !.fights = fights]
<1>1. /\ g \in GameStates /\ AfterOK(g) /\ g.fights \in [Places -> [Npcs -> FightStates]]
  BY StateOK DEF GameStates
<1>2. fights \in [Places -> [Npcs -> FightStates]]
  BY <1>1 DEF FightStates
<1>3. \A q \in Places : \A n \in Npcs : g.fights[q][n] # "none" => fights[q][n] # "none"
  BY <1>1
<1>. HIDE DEF fights
<1>4. /\ x \in GameStates /\ x.npc = g.npc /\ x.stock = g.stock /\ x.owner = g.owner
      /\ x.quest = g.quest /\ x.pending = g.pending /\ x.clock = g.clock
  BY <1>1 DEF GameStates
<1>. HIDE DEF x
<1>5. /\ y \in GameStates /\ y.npc = g.npc /\ y.stock = g.stock /\ y.owner = g.owner
      /\ y.quest = g.quest /\ y.pending = g.pending /\ y.clock = g.clock /\ y.fights = fights
  BY <1>2, <1>4 DEF GameStates
<1>6. Fled(g, p) = y
  BY Zenon DEF Fled, y, x, fights
<1>. HIDE DEF y
<1>7. AfterOK(y)
  BY <1>1, <1>3, <1>5 DEF AfterOK, LifeIn, HeldIn, NoneBack
<1>. QED
  BY <1>6, <1>7

-----------------------------------------------------------------------------
(* Every step *)

LEMMA InitOK ==
    ASSUME Init
    PROVE  Inv
<1>1. PICK at \in [Npcs -> Places], guarded \in SUBSET Npcs :
          g = [at |-> Start, stunned |-> FALSE, clock |-> 0, seen |-> {}, marked |-> FALSE, locked |-> TRUE,
               owner |-> [i \in Items |-> Nobody], stock |-> Shop, coins |-> Coins,
               npc |-> [n \in Npcs |-> FirstNpc(at[n], n \in guarded)],
               fights |-> [p \in Places |-> [n \in Npcs |-> "none"]],
               quest |-> [q \in QuestIds |-> FirstQuest], pending |-> Consequences]
  BY Zenon DEF Init
<1>2. outcome = "none" /\ owed = {} /\ fired = [c \in Consequences |-> 0]
  BY DEF Init
<1>3. ASSUME NEW n \in Npcs
      PROVE  FirstNpc(at[n], n \in guarded) \in NpcStates /\ LifeOf(FirstNpc(at[n], n \in guarded))
             /\ FirstNpc(at[n], n \in guarded).hp = MaxHp
  <2>. DEFINE held == n \in guarded
  <2>1. at[n] \in Places /\ held \in BOOLEAN
    OBVIOUS
  <2>. HIDE DEF held
  <2>2. /\ FirstNpc(at[n], held) \in NpcStates /\ LifeOf(FirstNpc(at[n], held))
        /\ FirstNpc(at[n], held).hp = MaxHp
    BY <2>1, CombatAssumption DEF FirstNpc, NpcStates, LifeOf, Conditions, Down
  <2>. QED
    BY Zenon, <2>2 DEF held
<1>. DEFINE npc == [n \in Npcs |-> FirstNpc(at[n], n \in guarded)]
<1>4. npc \in [Npcs -> NpcStates] /\ \A n \in Npcs : LifeOf(npc[n]) /\ npc[n].hp = MaxHp
  BY <1>3
<1>. HIDE DEF npc
<1>5. FirstQuest \in QuestStates /\ InOrder(FirstQuest)
  BY QuestAssumption DEF FirstQuest, QuestStates, QuestStatus, InOrder
<1>6. g = [at |-> Start, stunned |-> FALSE, clock |-> 0, seen |-> {}, marked |-> FALSE, locked |-> TRUE,
           owner |-> [i \in Items |-> Nobody], stock |-> Shop, coins |-> Coins, npc |-> npc,
           fights |-> [p \in Places |-> [n \in Npcs |-> "none"]],
           quest |-> [q \in QuestIds |-> FirstQuest], pending |-> Consequences]
  BY Zenon, <1>1 DEF npc
<1>7. g \in GameStates
  BY <1>4, <1>5, <1>6, WorldAssumption, CombatAssumption DEF GameStates, FightStates
<1>8. LifeIn(g)
  BY <1>4, <1>6, CombatAssumption DEF LifeIn, LifeOf
<1>9. HeldIn(g)
  <2>1. g.stock = Shop /\ \A i \in Items : g.owner[i] # Player
    BY <1>6 DEF Player, Nobody
  <2>. QED
    BY <2>1, WorldAssumption DEF HeldIn
<1>10. OrderIn(g)
  BY <1>5, <1>6 DEF OrderIn
<1>11. TriggersHeard /\ ConsequencesOnce
  BY <1>2, <1>6 DEF TriggersHeard, ConsequencesOnce
<1>. QED
  BY <1>2, <1>7, <1>8, <1>9, <1>10, <1>11 DEF Inv, TypeOK

Kept == Inv' /\ QuestsKept(g.quest, g'.quest) /\ NoneBack(g, g')

\* Every action is a handler's state that is taken.
LEMMA StepKeeps ==
    ASSUME Inv, Next
    PROVE  Kept
<1>. USE DEF Kept
<1>1. CASE Pass
  BY <1>1, StateOK, TookKeeps DEF Pass
<1>2. CASE Search
  BY <1>2, SearchOK, TookKeeps DEF Search
<1>3. CASE Lockpick
  BY <1>3, LockOK, TookKeeps DEF Lockpick
<1>4. ASSUME NEW p \in Places, Move(p)
      PROVE  Kept
  BY <1>4, MoveOK, TookKeeps DEF Move
<1>5. ASSUME NEW p \in Places, SneakTo(p)
      PROVE  Kept
  BY <1>5, MoveOK, StateOK, TookKeeps DEF SneakTo
<1>6. ASSUME NEW n \in Npcs, Talk(n)
      PROVE  Kept
  BY <1>6, StateOK, TookKeeps DEF Talk
<1>7. ASSUME NEW i \in Items, NEW n \in Npcs, Buy(i, n)
      PROVE  Kept
  <2>1. PICK band \in Bands :
            /\ Price(i, "buy", n, band) <= g.coins
            /\ Took([g EXCEPT !.coins = @ - Price(i, "buy", n, band), !.stock[n] = @ \ {i},
                              !.owner[i] = Player], "success", Nobody)
    BY Zenon, <1>7 DEF Buy
  <2>. DEFINE price == Price(i, "buy", n, band)
              after == [g EXCEPT !.coins = @ - price, !.stock[n] = @ \ {i}, !.owner[i] = Player]
  <2>2. i \in g.stock[n] /\ price \in Nat /\ price <= g.coins
    BY <1>7, <2>1, PriceOK, TradeAssumption DEF Buy
  <2>3. Took(after, "success", Nobody)
    BY Zenon, <2>1
  <2>. HIDE DEF price
  <2>4. AfterOK(after)
    BY Zenon, <2>2, BuyOK
  <2>. HIDE DEF after
  <2>. QED
    BY <2>3, <2>4, TookKeeps
<1>8. ASSUME NEW i \in Items, NEW n \in Npcs, Sell(i, n)
      PROVE  Kept
  <2>1. PICK band \in Bands :
            Took([g EXCEPT !.coins = @ + Price(i, "sell", n, band), !.stock[n] = @ \cup {i},
                           !.owner[i] = n], "success", Nobody)
    BY Zenon, <1>8 DEF Sell
  <2>. DEFINE price == Price(i, "sell", n, band)
              after == [g EXCEPT !.coins = @ + price, !.stock[n] = @ \cup {i}, !.owner[i] = n]
  <2>2. n \in Merchants /\ g.owner[i] = Player /\ price \in Nat
    BY <1>8, PriceOK, TradeAssumption DEF Sell
  <2>3. Took(after, "success", Nobody)
    BY Zenon, <2>1
  <2>. HIDE DEF price
  <2>4. AfterOK(after)
    BY Zenon, <2>2, SellOK
  <2>. HIDE DEF after
  <2>. QED
    BY <2>3, <2>4, TookKeeps
<1>9. ASSUME NEW n \in Npcs, AttackMiss(n)
      PROVE  Kept
  <2>. DEFINE after == [Fought(g, n) EXCEPT !.npc[n] = Missed(@)]
  <2>1. CanAct(g.npc[n]) /\ Took(after, "failure", Nobody)
    BY Zenon, <1>9 DEF AttackMiss, CanAttack
  <2>2. AfterOK(after)
    BY Zenon, <2>1, MissOK
  <2>. HIDE DEF after
  <2>. QED
    BY <2>1, <2>2, TookKeeps
<1>10. ASSUME NEW n \in Npcs, AttackHit(n)
       PROVE  Kept
  <2>1. CanAct(g.npc[n])
    BY <1>10 DEF AttackHit, CanAttack
  <2>2. PICK blow \in Blows, lethal \in BOOLEAN :
            Took([Fought(g, n) EXCEPT !.npc[n] = Struck(@, blow, lethal)], "success", Nobody)
    BY Zenon, <1>10 DEF AttackHit
  <2>. DEFINE after == [Fought(g, n) EXCEPT !.npc[n] = Struck(@, blow, lethal)]
  <2>3. Took(after, "success", Nobody)
    BY Zenon, <2>2
  <2>4. AfterOK(after)
    BY Zenon, <2>1, HitOK
  <2>. HIDE DEF after
  <2>. QED
    BY <2>3, <2>4, TookKeeps
<1>11. ASSUME NEW p \in Places, Flee(p)
       PROVE  Kept
  BY <1>11, FledOK, LockOK, TookKeeps DEF Flee
<1>. QED
  BY <1>1, <1>2, <1>3, <1>4, <1>5, <1>6, <1>7, <1>8, <1>9, <1>10, <1>11
  DEF Next, ExploreNext, SearchNext, TradeNext, FightNext

LEMMA NextInv == Inv /\ [Next]_vars => Inv'
<1>. SUFFICES ASSUME Inv, [Next]_vars
              PROVE  Inv'
  OBVIOUS
<1>1. CASE Next
  BY <1>1, StepKeeps DEF Kept
<1>2. CASE UNCHANGED vars
  BY <1>2 DEF vars, Inv, TypeOK, LifeIn, HeldIn, OrderIn, TriggersHeard, ConsequencesOnce, IsDue
<1>. QED
  BY <1>1, <1>2

LEMMA AlwaysInv == Spec => []Inv
BY InitOK, NextInv, PTL DEF Spec

-----------------------------------------------------------------------------
(* For every world, script, price and number of NPCs *)

\* The parts of the state keep their types: no hit points below zero, no debts
\* (combat.py apply_damage, economy.py buy_item).
THEOREM StateTyped == Spec => []TypeOK
<1>1. Inv => TypeOK
  BY DEF Inv
<1>. QED
  BY AlwaysInv, <1>1, PTL

\* Hit points, condition and alive flag agree, and who is hurt was hurt in a fight
\* on record (combat.py apply_damage, life_state.py, _combat_state_delta).
THEOREM LivesAgree == Spec => []LifeConsistent
<1>1. Inv => LifeConsistent
  BY DEF Inv, LifeIn, LifeConsistent
<1>. QED
  BY AlwaysInv, <1>1, PTL

\* No rule of the loop heals or revives (combat.py, world_tick.py, npc schedules).
THEOREM DeathIsFinal == Spec => NoWayBack
<1>1. Inv /\ [Next]_vars =>
          [\A n \in Npcs : /\ g'.npc[n].hp <= g.npc[n].hp
                           /\ g.npc[n].condition \in Down => g'.npc[n] = g.npc[n]]_vars
  BY StepKeeps DEF Kept, NoneBack
<1>. QED
  BY AlwaysInv, <1>1, PTL DEF Spec, NoWayBack

\* Whatever triggers and consequences meet in one turn, no quest is begun without the
\* player knowing of it, and none is taken up again (quests.py, world_tick.py).
THEOREM QuestsGoForward == Spec => QuestsInOrder
<1>. DEFINE Ordered == \A q \in QuestIds : InOrder(g.quest[q])
            Forward == \A q \in QuestIds :
                /\ g.quest[q].status \in Closed => g'.quest[q].status \in Closed
                /\ g.quest[q].known => g'.quest[q].known
<1>1. Inv => Ordered
  BY DEF Inv, OrderIn
<1>2. Inv /\ [Next]_vars => [Forward]_vars
  BY StepKeeps DEF Kept, QuestsKept
<1>. QED
  BY AlwaysInv, <1>1, <1>2, PTL DEF Spec, QuestsInOrder

\* No quest misses what a turn brought about, by the action or by a consequence
\* of its tick (game_loop.py, world_tick.py resolve_quest_triggers).
THEOREM NoTriggerIsMissed == Spec => []TriggersHeard
<1>1. Inv => TriggersHeard
  BY DEF Inv
<1>. QED
  BY AlwaysInv, <1>1, PTL

\* A delayed consequence is carried out exactly once, however many turns its moment
\* is late (world_tick.py _resolve_due_delayed_consequences).
THEOREM NoConsequenceTwice == Spec => []ConsequencesOnce
<1>1. Inv => ConsequencesOnce
  BY DEF Inv
<1>. QED
  BY AlwaysInv, <1>1, PTL

\* An item is never with the player and in a shop, nor in two shops, but for what
\* consequences give away (economy.py buy_item, sell_item).
THEOREM OneOwner == Spec => []OneHolder
<1>1. Inv => OneHolder
  BY DEF Inv, HeldIn, OneHolder
<1>. QED
  BY AlwaysInv, <1>1, PTL

LEMMA RoundedGrows ==
    ASSUME NEW m \in Nat, NEW n \in Nat, m <= n
    PROVE  Rounded(m, 10000) <= Rounded(n, 10000)
<1>. DEFINE p == m \div 10000
            q == n \div 10000
            r == m % 10000
            s == n % 10000
<1>1. /\ p \in Nat /\ q \in Nat /\ r \in 0..9999 /\ s \in 0..9999
      /\ m = 10000 * p + r /\ n = 10000 * q + s
  OBVIOUS
<1>2. /\ Rounded(m, 10000) = IF 2 * r > 10000 \/ (2 * r = 10000 /\ p % 2 = 1) THEN p + 1 ELSE p
      /\ Rounded(n, 10000) = IF 2 * s > 10000 \/ (2 * s = 10000 /\ q % 2 = 1) THEN q + 1 ELSE q
  BY DEF Rounded
<1>. HIDE DEF p, q, r, s
<1>3. p <= q /\ (p = q => r <= s)
  BY <1>1
<1>4. CASE p < q
  BY <1>1, <1>2, <1>4
<1>5. CASE p = q
  BY <1>1, <1>2, <1>3, <1>5
<1>. QED
  BY <1>1, <1>3, <1>4, <1>5

-----------------------------------------------------------------------------
(* What the player is worth *)

\* What an item adds to the holdings of its owner.
Part(owner, i) == IF owner[i] = Player THEN BestOffer(i) ELSE 0

\* Finitely many offers have a best one.
LEMMA SomeOfferBest ==
    ASSUME NEW i \in Items
    PROVE  \E offer \in Offers(i) : \A other \in Offers(i) : other <= offer
<1>. DEFINE paid == [n \in Merchants |-> Price(i, "sell", n, "trusted")]
            Of(T) == {0} \cup {paid[n] : n \in T}
            P == {T \in SUBSET Merchants : \E offer \in Of(T) : \A other \in Of(T) : other <= offer}
<1>1. /\ \A n \in Merchants : paid[n] \in Nat
      /\ Offers(i) = Of(Merchants)
  BY PriceOK DEF Offers
<1>. HIDE DEF paid
<1>2. {} \in P
  OBVIOUS
<1>3. ASSUME NEW T \in SUBSET Merchants, NEW n \in Merchants \ T, T \in P
      PROVE  T \cup {n} \in P
  <2>1. PICK offer \in Of(T) : \A other \in Of(T) : other <= offer
    BY <1>3
  <2>2. Of(T \cup {n}) = Of(T) \cup {paid[n]}
    OBVIOUS
  <2>3. offer \in Nat /\ paid[n] \in Nat
    BY <1>1
  <2>. HIDE DEF Of
  <2>4. CASE paid[n] <= offer
    BY <2>1, <2>2, <2>4
  <2>5. CASE ~(paid[n] <= offer)
    <3>1. \A other \in Of(T) : other \in Nat
      BY <1>1 DEF Of
    <3>2. \A other \in Of(T \cup {n}) : other <= paid[n]
      BY <2>1, <2>2, <2>3, <2>5, <3>1
    <3>. QED
      BY <2>2, <3>2
  <2>. QED
    BY <2>4, <2>5
<1>. HIDE DEF P
<1>4. Merchants \in P
  BY <1>2, <1>3, FiniteInduction, TradeAssumption
<1>. QED
  BY <1>1, <1>4 DEF P

LEMMA BestOfferOK ==
    ASSUME NEW i \in Items
    PROVE  /\ BestOffer(i) \in Nat
           /\ \A n \in Merchants : Price(i, "sell", n, "trusted") <= BestOffer(i)
<1>1. BestOffer(i) \in Offers(i) /\ \A other \in Offers(i) : other <= BestOffer(i)
  BY SomeOfferBest DEF BestOffer
<1>2. Offers(i) \subseteq Nat
  BY PriceOK DEF Offers
<1>3. \A n \in Merchants : Price(i, "sell", n, "trusted") \in Offers(i)
  BY DEF Offers
<1>. QED
  BY <1>1, <1>2, <1>3

\* No merchant pays a band more than the trusted, nor asks it less.
LEMMA TrustedTradeBest ==
    ASSUME NEW i \in Items, NEW n \in Merchants, NEW band \in Bands
    PROVE  /\ Price(i, "sell", n, band) <= Price(i, "sell", n, "trusted")
           /\ Price(i, "buy", n, "trusted") <= Price(i, "buy", n, band)
<1>1. ASSUME NEW base \in Nat, NEW p \in Nat, NEW q \in Nat, p <= q
      PROVE  Rounded(base * p, 10000) <= Rounded(base * q, 10000)
  <2>1. base * p \in Nat /\ base * q \in Nat /\ base * p <= base * q
    BY <1>1
  <2>. QED
    BY <2>1, RoundedGrows
<1>2. /\ Rate("sell", band) \in Nat /\ Rate("sell", "trusted") \in Nat
      /\ Rate("sell", band) <= Rate("sell", "trusted")
      /\ Rate("buy", band) \in Nat /\ Rate("buy", "trusted") \in Nat
      /\ Rate("buy", "trusted") <= Rate("buy", band)
  BY TradeAssumption DEF Rate
<1>3. \A direction \in {"buy", "sell"} : BasePrice[i] * Modifier(direction, n) \in Nat
  BY TradeAssumption DEF Modifier
<1>. QED
  BY <1>1, <1>2, <1>3 DEF Price

\* No shop pays any band more than the best offer.
LEMMA BestOfferBest ==
    ASSUME NEW i \in Items, NEW n \in Merchants, NEW band \in Bands
    PROVE  Price(i, "sell", n, band) <= BestOffer(i)
<1>1. /\ Price(i, "sell", n, band) \in Nat /\ Price(i, "sell", n, "trusted") \in Nat
      /\ BestOffer(i) \in Nat
  BY PriceOK, BestOfferOK, TradeAssumption
<1>2. Price(i, "sell", n, band) <= Price(i, "sell", n, "trusted")
  BY TrustedTradeBest
<1>3. Price(i, "sell", n, "trusted") <= BestOffer(i)
  BY BestOfferOK
<1>. QED
  BY <1>1, <1>2, <1>3

\* When one item changes hands, the holdings change by that item.
LEMMA OneItemMoves ==
    ASSUME NEW old, NEW new, NEW i \in Items, \A j \in Items : j # i => new[j] = old[j]
    PROVE  /\ Holdings(old) \in Int /\ Holdings(new) \in Int
           /\ Holdings(new) - Part(new, i) = Holdings(old) - Part(old, i)
<1>. DEFINE f == [j \in Items |-> IF old[j] = Player THEN BestOffer(j) ELSE 0]
            h == [j \in Items |-> IF new[j] = Player THEN BestOffer(j) ELSE 0]
            rest == Items \ {i}
<1>1. IsFiniteSet(Items) /\ IsFiniteSet(rest)
  BY TradeAssumption, FS_Subset
<1>2. \A j \in Items : f[j] \in Int /\ h[j] \in Int
  BY BestOfferOK
<1>3. /\ \A j \in rest : h[j] = f[j]
      /\ f[i] = Part(old, i) /\ h[i] = Part(new, i)
  BY DEF Part
<1>4. Holdings(old) = SumFunctionOnSet(f, Items) /\ Holdings(new) = SumFunctionOnSet(h, Items)
  BY DEF Holdings
<1>. HIDE DEF f, h
<1>5. /\ SumFunctionOnSet(f, Items) \in Int
      /\ SumFunctionOnSet(f, Items) = f[i] + SumFunctionOnSet(f, rest)
  BY <1>1, <1>2, SumOfMore
<1>6. /\ SumFunctionOnSet(h, Items) \in Int
      /\ SumFunctionOnSet(h, Items) = h[i] + SumFunctionOnSet(h, rest)
  BY <1>1, <1>2, SumOfMore
<1>7. SumFunctionOnSet(h, rest) = SumFunctionOnSet(f, rest) /\ SumFunctionOnSet(f, rest) \in Int
  <2>1. \A j \in rest : f[j] \in Int /\ h[j] = f[j]
    BY <1>2, <1>3
  <2>. QED
    BY <1>1, <2>1, SumOfSame, SumOfMore
<1>. QED
  BY <1>2, <1>3, <1>4, <1>5, <1>6, <1>7

LEMMA HoldingsOK ==
    ASSUME NEW owner
    PROVE  Holdings(owner) \in Int
<1>. DEFINE f == [j \in Items |-> IF owner[j] = Player THEN BestOffer(j) ELSE 0]
<1>1. \A j \in Items : f[j] \in Int
  BY BestOfferOK
<1>2. Holdings(owner) = SumFunctionOnSet(f, Items)
  BY DEF Holdings
<1>. HIDE DEF f
<1>. QED
  BY <1>1, <1>2, SumOfMore, TradeAssumption

\* Where nothing is due, nothing is carried out.
LEMMA NoneDue ==
    ASSUME NEW h, PendingAfter(h) = h.pending
    PROVE  RunDue(h).g = [h EXCEPT !.pending = PendingAfter(h)]
<1>. DEFINE left == [h EXCEPT !.pending = PendingAfter(h)]
            first == [ok |-> TRUE, g |-> left]
            n == Len(Schedule)
            V == {first}
            run == DueRun(h)
<1>1. n \in Nat
  BY ScriptAssumption
<1>2. ASSUME NEW i \in 1..n, NEW v \in V
      PROVE  RunNext(h, v, Schedule[i]) \in V
  <2>1. ~(Schedule[i] \in h.pending /\ IsDue(h, Schedule[i]))
    BY DEF PendingAfter
  <2>. QED
    BY <2>1 DEF RunNext
<1>3. first \in V
  OBVIOUS
<1>. HIDE DEF V
<1>4. run = [i \in 0..n |-> IF i = 0 THEN first ELSE RunNext(h, run[i - 1], Schedule[i])]
  BY <1>1, <1>2, <1>3, DueRunUnfolds
<1>. HIDE DEF first, n, run
<1>5. run[0] = first /\ \A i \in 1..n : run[i] = RunNext(h, run[i - 1], Schedule[i])
  BY <1>1, <1>4
<1>6. \A i \in 1..n : run[i - 1] \in V => run[i] \in V
  BY <1>2, <1>5
<1>7. run[n] \in V
  BY <1>1, <1>3, <1>5, <1>6, Inherited
<1>8. RunDue(h) = first
  BY <1>7 DEF V, run, n, RunDue
<1>. QED
  BY <1>8 DEF first, left

\* What a turn of a handler's state makes of coins and owners, when nothing that
\* was pending is carried out: nothing.
LEMMA TookPays ==
    ASSUME Inv, NEW after, AfterOK(after), NEW level \in {"success", "failure"}, NEW talked,
           Took(after, level, talked), g'.pending = g.pending
    PROVE  g' = g \/ (g'.coins = after.coins /\ g'.owner = after.owner)
<1>. DEFINE turned == WithTriggers(g, after, talked)
<1>1. /\ g \in GameStates /\ g.clock \in 0..MaxClock /\ after \in GameStates
      /\ after.quest = g.quest /\ after.pending = g.pending
      /\ \A q \in QuestIds : InOrder(after.quest[q])
  BY DEF Inv, TypeOK, AfterOK, OrderIn, GameStates
<1>2. PICK moment \in g.clock..MaxClock :
          IF level = "failure"
          THEN g' = [after EXCEPT !.clock = moment]
          ELSE \E npcs \in NpcTicks(turned.npc) :
                  LET ticked == After(turned, moment, npcs)
                  IN  IF RunDue(ticked).ok THEN g' = AfterDue(turned, RunDue(ticked).g) ELSE g' = g
  BY Zenon DEF Took, After
<1>3. moment \in 0..MaxClock
  BY <1>1, WorldAssumption
<1>4. CASE level = "failure"
  BY <1>1, <1>2, <1>4 DEF GameStates
<1>5. CASE level = "success"
  <2>1. PICK npcs \in NpcTicks(turned.npc) :
            LET ticked == After(turned, moment, npcs)
            IN  IF RunDue(ticked).ok THEN g' = AfterDue(turned, RunDue(ticked).g) ELSE g' = g
    BY <1>2, <1>5
  <2>. DEFINE ticked == After(turned, moment, npcs)
              x == AfterDue(turned, RunDue(ticked).g)
  <2>2. CASE ~RunDue(ticked).ok
    BY <2>1, <2>2
  <2>3. CASE RunDue(ticked).ok
    <3>1. g' = x
      BY <2>1, <2>3
    <3>2. ticked.pending = g.pending /\ x.pending = PendingAfter(ticked)
      <4>. HIDE DEF turned, ticked, x
      <4>. QED
        BY <1>3, TurnKeeps DEF turned, ticked, x
    <3>3. /\ turned \in GameStates /\ turned.coins = after.coins /\ turned.owner = after.owner
          /\ turned.pending = after.pending /\ QuestsKept(after.quest, turned.quest)
          /\ LifeIn(turned)
      <4>. HIDE DEF turned
      <4>1. /\ turned.quest \in KeptFrom(after.quest)
            /\ turned = [after EXCEPT !.quest = turned.quest]
        BY <1>1, TriggersKeep DEF turned
      <4>2. turned.quest \in [QuestIds -> QuestStates] /\ QuestsKept(after.quest, turned.quest)
        BY <4>1 DEF KeptFrom, QuestBooks
      <4>3. /\ turned \in GameStates /\ turned.coins = after.coins /\ turned.owner = after.owner
            /\ turned.pending = after.pending /\ turned.npc = after.npc /\ turned.fights = after.fights
        BY <1>1, <4>1, <4>2 DEF GameStates
      <4>4. LifeIn(turned)
        BY <4>3 DEF LifeIn, AfterOK
      <4>. QED
        BY <4>2, <4>3, <4>4
    <3>. HIDE DEF turned
    <3>4. /\ ticked \in GameStates /\ ticked.owner = after.owner
          /\ ticked.quest = turned.quest /\ ticked.coins = after.coins
      <4>1. ticked \in GameStates /\ ticked.owner = turned.owner /\ ticked.quest = turned.quest
        BY <1>3, <3>3, TickKeeps
      <4>2. ticked.coins = turned.coins
        BY <3>3 DEF After, GameStates
      <4>. QED
        BY <3>3, <4>1, <4>2
    <3>. HIDE DEF ticked
    <3>5. PendingAfter(ticked) = ticked.pending
      BY <3>1, <3>2
    <3>. DEFINE left == [ticked EXCEPT !.pending = PendingAfter(ticked)]
    <3>6. RunDue(ticked).g = left
      BY <3>5, NoneDue
    <3>7. left \in GameStates /\ left.owner = ticked.owner /\ left.coins = ticked.coins /\ left.quest = ticked.quest
      BY <3>4, <3>5 DEF GameStates
    <3>. HIDE DEF left
    <3>8. x = [left EXCEPT !.quest = x.quest]
      <4>1. \A q \in QuestIds : InOrder(left.quest[q])
        BY <3>3, <3>4, <3>7 DEF QuestsKept
      <4>2. x = WithTriggers(turned, left, Nobody)
        BY <3>6 DEF AfterDue
      <4>. HIDE DEF x
      <4>. QED
        BY <3>7, <4>1, <4>2, TriggersKeep
    <3>9. x.owner = left.owner /\ x.coins = left.coins
      <4>. HIDE DEF x
      <4>. QED
        BY <3>7, <3>8 DEF GameStates
    <3>. QED
      BY <3>1, <3>4, <3>7, <3>9
  <2>. QED
    BY <2>2, <2>3
<1>. QED
  BY <1>4, <1>5

\* What MoneyNeedsMargin says of one step.
EarnsByMargin ==
    Worth(g') > Worth(g) /\ g'.pending = g.pending =>
        \E i \in Items, n \in Merchants :
           /\ i \in g.stock[n] /\ g.owner[i] # Player /\ g'.owner[i] = Player
           /\ Worth(g') - Worth(g) <= BestOffer(i) - Price(i, "buy", n, "trusted")

\* A handler's state that is worth no more than the state it was given.
Affordable(after) == after.coins + Holdings(after.owner) <= g.coins + Holdings(g.owner)

LEMMA TookEarnsNothing ==
    ASSUME Inv, NEW after, AfterOK(after), Affordable(after),
           NEW level \in {"success", "failure"}, NEW talked, Took(after, level, talked)
    PROVE  EarnsByMargin
<1>. SUFFICES ASSUME g'.pending = g.pending
              PROVE  ~(Worth(g') > Worth(g))
  BY DEF EarnsByMargin
<1>1. g' = g \/ (g'.coins = after.coins /\ g'.owner = after.owner)
  BY TookPays
<1>2. g.coins \in Int /\ after.coins \in Int
  BY DEF Inv, TypeOK, AfterOK, GameStates
<1>3. Holdings(g.owner) \in Int /\ Holdings(after.owner) \in Int
  BY HoldingsOK
<1>. QED
  BY <1>1, <1>2, <1>3 DEF Worth, Affordable

\* Who has bought is worth more by what the item brings over what it cost, if the
\* item is new.
LEMMA BuyEarnsMargin ==
    ASSUME Inv, NEW i \in Items, NEW n \in Merchants, i \in g.stock[n], NEW band \in Bands,
           NEW price, price = Price(i, "buy", n, band),
           AfterOK([g EXCEPT !.coins = @ - price, !.stock[n] = @ \ {i}, !.owner[i] = Player]),
           Took([g EXCEPT !.coins = @ - price, !.stock[n] = @ \ {i}, !.owner[i] = Player], "success", Nobody)
    PROVE  EarnsByMargin
<1>. DEFINE x == [g EXCEPT !.coins = @ - price, !.stock[n] = @ \ {i}, !.owner[i] = Player]
            owner == [g.owner EXCEPT ![i] = Player]
<1>. SUFFICES ASSUME Worth(g') > Worth(g), g'.pending = g.pending
              PROVE  /\ g.owner[i] # Player /\ g'.owner[i] = Player
                     /\ Worth(g') - Worth(g) <= BestOffer(i) - Price(i, "buy", n, "trusted")
  BY DEF EarnsByMargin
<1>1. g \in GameStates /\ g.coins \in Nat /\ DOMAIN g.owner = Items
  BY DEF Inv, TypeOK, GameStates
<1>2. price \in Nat /\ Price(i, "buy", n, "trusted") \in Nat /\ Price(i, "buy", n, "trusted") <= price
  BY PriceOK, TrustedTradeBest, TradeAssumption
<1>3. x.coins = g.coins - price /\ x.owner = owner
  BY <1>1 DEF GameStates
<1>4. owner[i] = Player /\ \A j \in Items : j # i => owner[j] = g.owner[j]
  BY <1>1
<1>5. AfterOK(x) /\ Took(x, "success", Nobody)
  OBVIOUS
<1>. HIDE DEF owner, x
<1>6. g' = g \/ (g'.coins = x.coins /\ g'.owner = x.owner)
  BY <1>5, TookPays
<1>7. /\ Holdings(g.owner) \in Int /\ Holdings(owner) \in Int
      /\ Holdings(owner) - Part(owner, i) = Holdings(g.owner) - Part(g.owner, i)
  BY <1>4, OneItemMoves
<1>8. Worth(g) = g.coins + Holdings(g.owner) /\ Worth(g) \in Int
  BY <1>1, <1>7 DEF Worth
<1>9. g'.coins = g.coins - price /\ g'.owner = owner
  BY <1>3, <1>6, <1>8
<1>10. Worth(g') = g.coins - price + Holdings(owner)
  BY <1>9 DEF Worth
<1>11. BestOffer(i) \in Nat /\ Part(owner, i) = BestOffer(i)
  BY <1>4, BestOfferOK DEF Part
<1>12. g.owner[i] # Player
  <2>1. g.owner[i] = Player => Part(g.owner, i) = BestOffer(i)
    BY DEF Part
  <2>. QED
    BY <1>1, <1>2, <1>7, <1>8, <1>10, <1>11, <2>1
<1>13. Part(g.owner, i) = 0
  BY <1>12 DEF Part
<1>14. Worth(g') - Worth(g) <= BestOffer(i) - Price(i, "buy", n, "trusted")
  BY <1>1, <1>2, <1>7, <1>8, <1>10, <1>11, <1>13
<1>. QED
  BY <1>4, <1>9, <1>12, <1>14

\* Who has sold is worth no more for it.
LEMMA SellAffordable ==
    ASSUME Inv, NEW i \in Items, NEW n \in Merchants, g.owner[i] = Player, NEW band \in Bands,
           NEW price, price = Price(i, "sell", n, band)
    PROVE  Affordable([g EXCEPT !.coins = @ + price, !.stock[n] = @ \cup {i}, !.owner[i] = n])
<1>. DEFINE x == [g EXCEPT !.coins = @ + price, !.stock[n] = @ \cup {i}, !.owner[i] = n]
            owner == [g.owner EXCEPT ![i] = n]
<1>1. /\ g \in GameStates /\ g.coins \in Nat /\ DOMAIN g.owner = Items /\ price \in Nat
      /\ n # Player
  BY PriceOK, TradeAssumption, WorldAssumption DEF Inv, TypeOK, GameStates
<1>2. x.coins = g.coins + price /\ x.owner = owner
  BY <1>1 DEF GameStates
<1>3. owner[i] = n /\ \A j \in Items : j # i => owner[j] = g.owner[j]
  BY <1>1
<1>. HIDE DEF owner, x
<1>4. /\ Holdings(g.owner) \in Int /\ Holdings(owner) \in Int
      /\ Holdings(owner) - Part(owner, i) = Holdings(g.owner) - Part(g.owner, i)
  BY <1>3, OneItemMoves
<1>5. BestOffer(i) \in Nat /\ price <= BestOffer(i)
  BY BestOfferOK, BestOfferBest
<1>6. Part(owner, i) = 0 /\ Part(g.owner, i) = BestOffer(i)
  BY <1>1, <1>3 DEF Part
<1>7. Affordable(x)
  BY <1>1, <1>2, <1>4, <1>5, <1>6 DEF Affordable
<1>. QED
  BY <1>7 DEF x

\* A handler that touches neither coins nor owners.
LEMMA AsideAffordable ==
    ASSUME Inv, NEW after, after.coins = g.coins, after.owner = g.owner
    PROVE  Affordable(after)
<1>1. g.coins \in Int /\ Holdings(g.owner) \in Int
  BY HoldingsOK DEF Inv, TypeOK, GameStates
<1>. QED
  BY <1>1 DEF Affordable

LEMMA StepEarnsByMargin ==
    ASSUME Inv, Next
    PROVE  EarnsByMargin
<1>0. ASSUME NEW after, AfterOK(after), Affordable(after),
             NEW level \in {"success", "failure"}, NEW talked, Took(after, level, talked)
      PROVE  EarnsByMargin
  BY <1>0, TookEarnsNothing
<1>a. g \in GameStates /\ AfterOK(g) /\ Affordable(g)
  BY StateOK, AsideAffordable
<1>1. CASE Pass
  BY <1>0, <1>a, <1>1 DEF Pass
<1>2. CASE Search
  <2>. DEFINE seen == g.seen \cup Clues[g.at]
              after == [g EXCEPT !.seen = seen]
              level == IF seen # g.seen THEN "success" ELSE "failure"
  <2>1. Took(after, level, Nobody)
    BY <1>2 DEF Search
  <2>2. AfterOK(after)
    BY SearchOK
  <2>3. after.coins = g.coins /\ after.owner = g.owner
    BY <1>a DEF GameStates
  <2>4. level \in {"success", "failure"}
    OBVIOUS
  <2>. HIDE DEF after, level
  <2>5. Affordable(after)
    BY <2>3, AsideAffordable
  <2>. QED
    BY <1>0, <2>1, <2>2, <2>4, <2>5
<1>3. CASE Lockpick
  <2>. DEFINE opened == [g EXCEPT !.locked = FALSE]
  <2>1. \/ Took(opened, "success", Nobody)
        \/ \E level \in {"success", "failure"} : Took(Scratched(g), level, Nobody)
    BY <1>3 DEF Lockpick
  <2>2. AfterOK(opened) /\ AfterOK(Scratched(g))
    BY LockOK
  <2>3. /\ opened.coins = g.coins /\ opened.owner = g.owner
        /\ Scratched(g).coins = g.coins /\ Scratched(g).owner = g.owner
    BY <1>a DEF Scratched, GameStates
  <2>. HIDE DEF opened
  <2>4. Affordable(opened) /\ Affordable(Scratched(g))
    BY <2>3, AsideAffordable
  <2>5. CASE Took(opened, "success", Nobody)
    BY <1>0, <2>2, <2>4, <2>5
  <2>6. ASSUME NEW level \in {"success", "failure"}, Took(Scratched(g), level, Nobody)
        PROVE  EarnsByMargin
    BY <1>0, <2>2, <2>4, <2>6
  <2>. QED
    BY <2>1, <2>5, <2>6
<1>4. ASSUME NEW p \in Places, Move(p) \/ SneakTo(p)
      PROVE  EarnsByMargin
  <2>. DEFINE after == [g EXCEPT !.at = p]
  <2>1. Took(after, "success", Nobody) \/ Took(g, "failure", Nobody)
    BY <1>4 DEF Move, SneakTo
  <2>2. AfterOK(after)
    BY MoveOK
  <2>3. after.coins = g.coins /\ after.owner = g.owner
    BY <1>a DEF GameStates
  <2>. HIDE DEF after
  <2>. QED
    BY <1>0, <1>a, <2>1, <2>2, <2>3, AsideAffordable
<1>5. ASSUME NEW n \in Npcs, Talk(n)
      PROVE  EarnsByMargin
  BY <1>0, <1>a, <1>5 DEF Talk
<1>6. ASSUME NEW i \in Items, NEW n \in Npcs, Buy(i, n)
      PROVE  EarnsByMargin
  <2>1. PICK band \in Bands :
            /\ Price(i, "buy", n, band) <= g.coins
            /\ Took([g EXCEPT !.coins = @ - Price(i, "buy", n, band), !.stock[n] = @ \ {i},
                              !.owner[i] = Player], "success", Nobody)
    BY Zenon, <1>6 DEF Buy
  <2>. DEFINE price == Price(i, "buy", n, band)
              after == [g EXCEPT !.coins = @ - price, !.stock[n] = @ \ {i}, !.owner[i] = Player]
  <2>2. n \in Merchants /\ i \in g.stock[n] /\ price \in Nat /\ price <= g.coins
    BY <1>6, <2>1, PriceOK, TradeAssumption DEF Buy
  <2>3. Took(after, "success", Nobody)
    BY Zenon, <2>1
  <2>4. price = Price(i, "buy", n, band)
    OBVIOUS
  <2>. HIDE DEF price
  <2>5. AfterOK(after)
    BY Zenon, <2>2, BuyOK
  <2>. QED
    BY Zenon, <2>2, <2>3, <2>4, <2>5, BuyEarnsMargin
<1>7. ASSUME NEW i \in Items, NEW n \in Npcs, Sell(i, n)
      PROVE  EarnsByMargin
  <2>1. PICK band \in Bands :
            Took([g EXCEPT !.coins = @ + Price(i, "sell", n, band), !.stock[n] = @ \cup {i},
                           !.owner[i] = n], "success", Nobody)
    BY Zenon, <1>7 DEF Sell
  <2>. DEFINE price == Price(i, "sell", n, band)
              after == [g EXCEPT !.coins = @ + price, !.stock[n] = @ \cup {i}, !.owner[i] = n]
  <2>2. n \in Merchants /\ g.owner[i] = Player /\ price \in Nat
    BY <1>7, PriceOK, TradeAssumption DEF Sell
  <2>3. Took(after, "success", Nobody)
    BY Zenon, <2>1
  <2>4. Affordable(after)
    BY Zenon, <2>2, SellAffordable
  <2>. HIDE DEF price
  <2>5. AfterOK(after)
    BY Zenon, <2>2, SellOK
  <2>. HIDE DEF after
  <2>. QED
    BY <1>0, <2>3, <2>4, <2>5
<1>8. ASSUME NEW n \in Npcs, AttackMiss(n)
      PROVE  EarnsByMargin
  <2>. DEFINE after == [Fought(g, n) EXCEPT !.npc[n] = Missed(@)]
  <2>1. CanAct(g.npc[n]) /\ Took(after, "failure", Nobody)
    BY Zenon, <1>8 DEF AttackMiss, CanAttack
  <2>2. AfterOK(after)
    BY Zenon, <2>1, MissOK
  <2>3. after.coins = g.coins /\ after.owner = g.owner
    BY <1>a DEF Fought, GameStates
  <2>. HIDE DEF after
  <2>. QED
    BY <1>0, <2>1, <2>2, <2>3, AsideAffordable
<1>9. ASSUME NEW n \in Npcs, AttackHit(n)
      PROVE  EarnsByMargin
  <2>1. PICK blow \in Blows, lethal \in BOOLEAN :
            Took([Fought(g, n) EXCEPT !.npc[n] = Struck(@, blow, lethal)], "success", Nobody)
    BY Zenon, <1>9 DEF AttackHit
  <2>. DEFINE after == [Fought(g, n) EXCEPT !.npc[n] = Struck(@, blow, lethal)]
  <2>2. CanAct(g.npc[n])
    BY <1>9 DEF AttackHit, CanAttack
  <2>3. Took(after, "success", Nobody)
    BY Zenon, <2>1
  <2>4. AfterOK(after)
    BY Zenon, <2>2, HitOK
  <2>5. after.coins = g.coins /\ after.owner = g.owner
    BY <1>a DEF Fought, GameStates
  <2>. HIDE DEF after
  <2>. QED
    BY <1>0, <2>3, <2>4, <2>5, AsideAffordable
<1>10. ASSUME NEW p \in Places, Flee(p)
       PROVE  EarnsByMargin
  <2>. DEFINE held == [g EXCEPT !.stunned = TRUE]
  <2>1. Took(Fled(g, p), "success", Nobody) \/ Took(held, "failure", Nobody)
    BY <1>10 DEF Flee
  <2>2. AfterOK(Fled(g, p)) /\ AfterOK(held)
    BY FledOK, LockOK
  <2>3. /\ held.coins = g.coins /\ held.owner = g.owner
        /\ Fled(g, p).coins = g.coins /\ Fled(g, p).owner = g.owner
    BY <1>a DEF Fled, GameStates
  <2>. HIDE DEF held
  <2>4. Affordable(Fled(g, p)) /\ Affordable(held)
    BY <2>3, AsideAffordable
  <2>5. CASE Took(Fled(g, p), "success", Nobody)
    BY <1>0, <2>2, <2>4, <2>5
  <2>6. CASE Took(held, "failure", Nobody)
    BY <1>0, <2>2, <2>4, <2>6
  <2>. QED
    BY <2>1, <2>5, <2>6
<1>. QED
  BY <1>1, <1>2, <1>3, <1>4, <1>5, <1>6, <1>7, <1>8, <1>9, <1>10
  DEF Next, ExploreNext, SearchNext, TradeNext, FightNext

\* In whatever order things are bought and sold, by however many merchants with
\* whatever modifiers, and whatever their factions think of the player between: money
\* and goods together are worth more than before only after a purchase, by no more
\* than what the shop asks the item for less than the best pays (economy.py
\* buy_item, sell_item, get_item_price), or through a consequence.
THEOREM MoneyByMargin == Spec => MoneyNeedsMargin
<1>1. Inv /\ [Next]_vars =>
        [Worth(g') > Worth(g) /\ g'.pending = g.pending =>
            \E i \in Items, n \in Merchants :
               /\ i \in g.stock[n] /\ g.owner[i] # Player /\ g'.owner[i] = Player
               /\ Worth(g') - Worth(g) <= BestOffer(i) - Price(i, "buy", n, "trusted")]_vars
  BY StepEarnsByMargin DEF EarnsByMargin
<1>. QED
  BY AlwaysInv, <1>1, PTL DEF Spec, MoneyNeedsMargin
=============================================================================
