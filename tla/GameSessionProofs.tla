--------------------------- MODULE GameSessionProofs ---------------------------
(* Proofs about GameSession and SessionStory, for any number of workers, sessions *)
(* and dialogues.                                                               *)
EXTENDS SessionStory, SequenceTheorems, Recursion

ElementsOf(s) == {s[k] : k \in DOMAIN s}

\* Concatenation keeps the type and adds up the elements.
LEMMA Concat ==
    ASSUME NEW S, NEW s \in Seq(S), NEW t \in Seq(S)
    PROVE  /\ s \o t \in Seq(S)
           /\ ElementsOf(s \o t) = ElementsOf(s) \cup ElementsOf(t)
<1>1. /\ s \o t \in Seq(S) /\ Len(s \o t) = Len(s) + Len(t)
      /\ \A k \in 1..Len(s) : (s \o t)[k] = s[k]
      /\ \A k \in 1..Len(t) : (s \o t)[Len(s) + k] = t[k]
      /\ Len(s) \in Nat /\ Len(t) \in Nat
      /\ \A k \in 1..Len(s) + Len(t) : k \in 1..Len(s) \/ k - Len(s) \in 1..Len(t)
  OBVIOUS
<1>2. ElementsOf(s) = {s[k] : k \in 1..Len(s)} /\ ElementsOf(t) = {t[k] : k \in 1..Len(t)}
      /\ ElementsOf(s \o t) = {(s \o t)[k] : k \in 1..Len(s) + Len(t)}
  BY <1>1 DEF ElementsOf
<1>3. ASSUME NEW k \in 1..Len(s) + Len(t)
      PROVE  (s \o t)[k] \in ElementsOf(s) \cup ElementsOf(t)
  <2>1. CASE k \in 1..Len(s)
    BY <2>1, <1>1, <1>2
  <2>2. CASE k - Len(s) \in 1..Len(t)
    BY <2>2, <1>1, <1>2
  <2> QED BY <2>1, <2>2, <1>1
<1>4. \A k \in 1..Len(s) : s[k] \in ElementsOf(s \o t)
  BY <1>1, <1>2
<1>5. \A k \in 1..Len(t) : t[k] \in ElementsOf(s \o t)
  <2> TAKE k \in 1..Len(t)
  <2>1. Len(s) + k \in 1..Len(s) + Len(t) /\ (s \o t)[Len(s) + k] = t[k]
    BY <1>1
  <2> QED BY <2>1, <1>2
<1> QED BY <1>1, <1>2, <1>3, <1>4, <1>5

LEMMA One ==
    ASSUME NEW S, NEW e \in S
    PROVE  <<e>> \in Seq(S) /\ ElementsOf(<<e>>) = {e}
BY DEF ElementsOf

LEMMA None ==
    ASSUME NEW S
    PROVE  << >> \in Seq(S) /\ ElementsOf(<< >>) = {}
BY DEF ElementsOf
LEMMA OneIf ==
    ASSUME NEW S, NEW b \in BOOLEAN, NEW e \in S
    PROVE  /\ (IF b THEN <<e>> ELSE <<>>) \in Seq(S)
           /\ ElementsOf(IF b THEN <<e>> ELSE <<>>) = (IF b THEN {e} ELSE {})
<1>1. CASE b
  BY <1>1, One
<1>2. CASE ~b
  BY <1>2, None
<1> QED BY <1>1, <1>2

StepKinds == {"player", "tick", "crime"}

\* What one step of the game loop logs: events of one turn, and an event for
\* every delta it applied.
LEMMA StepLogged ==
    ASSUME NEW n \in Nat, NEW turn \in Nat,
           NEW changed \in BOOLEAN, NEW tick \in BOOLEAN, NEW crime \in BOOLEAN
    PROVE  LET evs == StepEvents(n, turn, changed, tick, crime)
               ids == StepDeltas(n, changed, tick, crime)
           IN  /\ evs \in Seq(Event) /\ evs # <<>>
               /\ \A k \in DOMAIN evs : evs[k].turn = turn
               /\ \A k \in DOMAIN evs : evs[k].kind \in StepKinds
               /\ ids \in Seq(Nat)
               /\ \A k \in DOMAIN ids : ids[k] \in IdsOf(evs)
<1> DEFINE p == IF tick THEN n + 1 ELSE n
<1> DEFINE P == NewEvent(p, turn, "player", changed)
<1> DEFINE T == NewEvent(n, turn, "tick", TRUE)
<1> DEFINE C == NewEvent(p + 1, turn, "crime", TRUE)
<1> DEFINE Ts == IF tick THEN <<T>> ELSE <<>>
<1> DEFINE Cs == IF crime THEN <<C>> ELSE <<>>
<1> DEFINE ps == IF changed THEN <<p>> ELSE <<>>
<1> DEFINE ts == IF tick THEN <<n>> ELSE <<>>
<1> DEFINE cs == IF crime THEN <<p + 1>> ELSE <<>>
<1>1. P \in Event /\ T \in Event /\ C \in Event /\ p \in Nat
  BY DEF NewEvent, Event, Kinds
<1>2. /\ P.turn = turn /\ T.turn = turn /\ C.turn = turn
      /\ P.id = p /\ T.id = n /\ C.id = p + 1
      /\ P.kind \in StepKinds /\ T.kind \in StepKinds /\ C.kind \in StepKinds
  BY DEF NewEvent, StepKinds
<1>3. /\ StepEvents(n, turn, changed, tick, crime) = (<<P>> \o Ts) \o Cs
      /\ StepDeltas(n, changed, tick, crime) = (ps \o ts) \o cs
  BY DEF StepEvents, StepDeltas
<1> HIDE DEF p, P, T, C
<1>4. /\ <<P>> \in Seq(Event) /\ ElementsOf(<<P>>) = {P}
      /\ Ts \in Seq(Event) /\ ElementsOf(Ts) = (IF tick THEN {T} ELSE {})
      /\ Cs \in Seq(Event) /\ ElementsOf(Cs) = (IF crime THEN {C} ELSE {})
  BY <1>1, One, OneIf
<1>5. /\ ps \in Seq(Nat) /\ ElementsOf(ps) = (IF changed THEN {p} ELSE {})
      /\ ts \in Seq(Nat) /\ ElementsOf(ts) = (IF tick THEN {n} ELSE {})
      /\ cs \in Seq(Nat) /\ ElementsOf(cs) = (IF crime THEN {p + 1} ELSE {})
  <2>1. p + 1 \in Nat
    BY <1>1
  <2> QED BY <1>1, <2>1, OneIf
<1> HIDE DEF Ts, Cs, ps, ts, cs
<1> DEFINE PT == <<P>> \o Ts
<1> DEFINE pt == ps \o ts
<1>6. PT \in Seq(Event) /\ ElementsOf(PT) = ElementsOf(<<P>>) \cup ElementsOf(Ts)
  BY <1>4, Concat
<1>7. pt \in Seq(Nat) /\ ElementsOf(pt) = ElementsOf(ps) \cup ElementsOf(ts)
  BY <1>5, Concat
<1> HIDE DEF PT, pt
<1>8. PT \o Cs \in Seq(Event) /\ ElementsOf(PT \o Cs) = ElementsOf(PT) \cup ElementsOf(Cs)
  BY <1>4, <1>6, Concat
<1>9. pt \o cs \in Seq(Nat) /\ ElementsOf(pt \o cs) = ElementsOf(pt) \cup ElementsOf(cs)
  BY <1>5, <1>7, Concat
<1>10. \A evs \in Seq(Event) : IdsOf(evs) = {e.id : e \in ElementsOf(evs)}
  BY DEF IdsOf, ElementsOf
<1>11. ElementsOf(PT \o Cs)
         = ({P} \cup (IF tick THEN {T} ELSE {})) \cup (IF crime THEN {C} ELSE {})
  BY <1>4, <1>6, <1>8
<1>12. ElementsOf(pt \o cs)
         = ((IF changed THEN {p} ELSE {}) \cup (IF tick THEN {n} ELSE {}))
             \cup (IF crime THEN {p + 1} ELSE {})
  BY <1>5, <1>7, <1>9
<1>13. \A e \in ElementsOf(PT \o Cs) : e.turn = turn /\ e.kind \in StepKinds
  BY <1>2, <1>11
<1>14. \A i \in ElementsOf(pt \o cs) : \E e \in ElementsOf(PT \o Cs) : e.id = i
  BY <1>2, <1>11, <1>12
<1>15. P \in ElementsOf(PT \o Cs)
  BY <1>11
<1>16. PT \o Cs # <<>>
  BY <1>15, None
<1>17. \A k \in DOMAIN (pt \o cs) : (pt \o cs)[k] \in IdsOf(PT \o Cs)
  BY <1>14, <1>8, <1>10 DEF ElementsOf
<1>18. \A k \in DOMAIN (PT \o Cs) : /\ (PT \o Cs)[k].turn = turn
                                    /\ (PT \o Cs)[k].kind \in StepKinds
  BY <1>13 DEF ElementsOf
<1> QED BY <1>3, <1>8, <1>9, <1>16, <1>17, <1>18 DEF PT, pt

-----------------------------------------------------------------------------
LEMMA InitTypes == Init => TypeOK
BY DEF Init, TypeOK, Fresh, State, Talk, NoSave

LEMMA NextKeepsTypes == TypeOK /\ [Next]_vars => TypeOK'
<1> SUFFICES ASSUME TypeOK, [Next]_vars PROVE TypeOK'
  OBVIOUS
<1> USE DEF TypeOK
<1>1. ASSUME NEW s \in Sessions, StartGame(s) PROVE TypeOK'
  BY <1>1 DEF StartGame
<1>2. ASSUME NEW w \in Workers, Commit(w) PROVE TypeOK'
  <2>1. /\ req[w] \in Pending /\ req[w].pc = "commit"
    BY <1>2 DEF Commit, At, Idle
  <2>2. /\ req[w].s \in Sessions /\ req[w].next \in State
        /\ req[w].pending \in Seq(Event) \ {<<>>}
    BY <2>1 DEF Pending
  <2>3. req' \in [Workers -> {Idle} \cup Pending]
    BY <1>2, <2>2 DEF Commit, Appending, Goto, Pending
  <2>4. state' \in [Sessions -> State]
    BY <1>2, <2>2 DEF Commit
  <2> QED BY <1>2, <2>3, <2>4 DEF Commit
<1>3. ASSUME NEW w \in Workers, Abort(w) PROVE TypeOK'
  BY <1>3 DEF Abort, Finish
<1>4. ASSUME NEW w \in Workers, NEW s \in Sessions, Noop(w, s) PROVE TypeOK'
  <2>1. NewEvent(nextId, state[s].turn, "noop", FALSE) \in Event
    BY DEF NewEvent, Event, Kinds, State
  <2>2. <<NewEvent(nextId, state[s].turn, "noop", FALSE)>> \in Seq(Event) \ {<<>>}
    BY <2>1, One
  <2> DEFINE r == [pc |-> "check", s |-> s,
                   pending |-> <<NewEvent(nextId, state[s].turn, "noop", FALSE)>>,
                   next |-> state[s], write |-> FALSE]
  <2>3. r \in Pending
    BY <2>2 DEF Pending
  <2>4. req' = [req EXCEPT ![w] = r]
    BY <1>4 DEF Noop, Appending, Goto
  <2> HIDE DEF r
  <2>5. req' \in [Workers -> {Idle} \cup Pending]
    BY <2>3, <2>4
  <2> QED BY <1>4, <2>5 DEF Noop
<1>5. ASSUME NEW w \in Workers, NEW s \in Sessions,
             NEW success \in BOOLEAN, NEW changed \in BOOLEAN,
             NEW tick \in BOOLEAN, NEW crime \in BOOLEAN,
             Resolve(w, s, success, changed, tick, crime)
      PROVE  TypeOK'
  <2>2. state[s].turn \in Nat /\ state[s].applied \in Seq(Nat)
    BY DEF State
  <2>3. /\ TurnAfter(state[s].turn, success) \in Nat
        /\ EventTurn(state[s].turn, TurnAfter(state[s].turn, success)) \in Nat
    BY <2>2 DEF TurnAfter, EventTurn
  <2>4. /\ StepEvents(nextId, EventTurn(state[s].turn, TurnAfter(state[s].turn, success)),
                   changed, tick, crime)
             \in Seq(Event) \ {<<>>}
        /\ StepDeltas(nextId, changed, tick, crime) \in Seq(Nat)
    BY <2>3, StepLogged
  <2>5. [turn |-> TurnAfter(state[s].turn, success),
         applied |-> state[s].applied \o StepDeltas(nextId, changed, tick, crime)] \in State
    BY <2>2, <2>3, <2>4, Concat DEF State
  <2>6. req' \in [Workers -> {Idle} \cup Pending]
    BY <1>5, <2>4, <2>5 DEF Resolve, Goto, Pending
  <2>7. nextId' \in Nat
    BY <1>5 DEF Resolve
  <2> QED BY <1>5, <2>6, <2>7 DEF Resolve
<1>6. ASSUME NEW w \in Workers, AppendTest(w) PROVE TypeOK'
  <2>1. req[w] \in Pending /\ req[w].pc = "check"
    BY <1>6 DEF AppendTest, At, Idle
  <2>2. /\ req[w].s \in Sessions /\ req[w].next \in State
        /\ req[w].pending \in Seq(Event) \ {<<>>} /\ req[w].write \in BOOLEAN
    BY <2>1 DEF Pending
  <2>3. IdsOf(req[w].pending) \subseteq Nat
    <3>1. \A k \in DOMAIN req[w].pending : req[w].pending[k] \in Event
      BY <2>2
    <3> QED BY <3>1 DEF IdsOf, Event
  <2>4. refused' \subseteq Nat
    BY <1>6, <2>3 DEF AppendTest
  <2>5. [pc |-> "append", s |-> req[w].s, pending |-> req[w].pending,
         next |-> req[w].next, write |-> req[w].write] \in Pending
    BY <2>2 DEF Pending
  <2>6. req' \in [Workers -> {Idle} \cup Pending]
    BY <1>6, <2>5 DEF AppendTest, Goto, Finish
  <2> QED BY <1>6, <2>4, <2>6 DEF AppendTest
<1>7. ASSUME NEW w \in Workers, AppendEvent(w) PROVE TypeOK'
  <2>1. req[w] \in Pending /\ req[w].pc = "append"
    BY <1>7 DEF AppendEvent, At, Idle
  <2>2. /\ req[w].s \in Sessions /\ req[w].next \in State
        /\ req[w].pending \in Seq(Event) /\ req[w].pending # <<>>
        /\ req[w].write \in BOOLEAN
    BY <2>1 DEF Pending
  <2>3. req[w].pending[1] \in Event /\ Tail(req[w].pending) \in Seq(Event)
    BY <2>2
  <2>4. log' \in [Sessions -> Seq(Event)]
    BY <1>7, <2>2, <2>3 DEF AppendEvent
  <2>5. [pc |-> "write", s |-> req[w].s, next |-> req[w].next] \in Pending
    BY <2>2 DEF Pending
  <2>6. Tail(req[w].pending) # <<>> =>
          [pc |-> "check", s |-> req[w].s, pending |-> Tail(req[w].pending),
           next |-> req[w].next, write |-> req[w].write] \in Pending
    BY <2>2, <2>3 DEF Pending
  <2>7. req' \in [Workers -> {Idle} \cup Pending]
    BY <1>7, <2>5, <2>6 DEF AppendEvent, Appending, Goto, Finish
  <2> QED BY <1>7, <2>4, <2>7 DEF AppendEvent
<1>8. ASSUME NEW w \in Workers, WriteState(w) PROVE TypeOK'
  <2>1. req[w] \in Pending /\ req[w].pc = "write"
    BY <1>8 DEF WriteState, At, Idle
  <2>2. req[w].s \in Sessions /\ req[w].next \in State
    BY <2>1 DEF Pending
  <2> QED BY <1>8, <2>2 DEF WriteState, Finish
<1>9. ASSUME NEW w \in Workers, NEW s \in Sessions, NEW t \in Talks,
             NEW group \in BOOLEAN, StartTalk(w, s, t, group)
      PROVE  TypeOK'
  <2>1. TalkEvent(s, t, "start", FALSE) \in Seq(Event) \ {<<>>}
    BY DEF TalkEvent, Event, Kinds, State
  <2>2. req' \in [Workers -> {Idle} \cup Pending]
    BY <1>9, <2>1 DEF StartTalk, Appending, Goto, Pending
  <2>3. talks' \in [Talks -> Talk]
    BY <1>9 DEF StartTalk, Talk
  <2> QED BY <1>9, <2>2, <2>3 DEF StartTalk
<1>10. ASSUME NEW w \in Workers, NEW t \in Talks, NEW changes \in BOOLEAN,
              ContinueTalk(w, t, changes)
       PROVE  TypeOK'
  <2>1. talks[t].s \in Sessions /\ talks[t].group \in BOOLEAN
    BY <1>10 DEF ContinueTalk, MayContinue, Talk
  <2>2. TalkEvent(talks[t].s, t, "talk", changes) \in Seq(Event) \ {<<>>}
    BY <2>1 DEF TalkEvent, Event, Kinds, State
  <2>3. /\ (IF changes THEN <<nextId>> ELSE <<>>) \in Seq(Nat)
        /\ state[talks[t].s].applied \in Seq(Nat) /\ state[talks[t].s].turn \in Nat
    BY <2>1 DEF State
  <2>4. [turn |-> state[talks[t].s].turn,
         applied |-> state[talks[t].s].applied \o (IF changes THEN <<nextId>> ELSE <<>>)]
           \in State
    BY <2>3, Concat DEF State
  <2>5. req' \in [Workers -> {Idle} \cup Pending]
    BY <1>10, <2>1, <2>2, <2>4 DEF ContinueTalk, Appending, Goto, Pending
  <2> QED BY <1>10, <2>5 DEF ContinueTalk
<1>11. ASSUME NEW w \in Workers, NEW t \in Talks, LeaveTalk(w, t) \/ EndTalk(w, t)
       PROVE  TypeOK'
  <2> DEFINE r(write) == [pc |-> "check", s |-> talks[t].s,
                          pending |-> TalkEvent(talks[t].s, t, "end", FALSE),
                          next |-> state[talks[t].s], write |-> write]
  <2>1. talks[t] \in Talk /\ talks[t].status # "none"
    BY <1>11 DEF LeaveTalk, EndTalk, MayContinue
  <2>2. talks[t].s \in Sessions /\ talks[t].group \in BOOLEAN
    BY <2>1 DEF Talk
  <2>3. TalkEvent(talks[t].s, t, "end", FALSE) \in Seq(Event) \ {<<>>}
    BY <2>2 DEF TalkEvent, Event, Kinds, State
  <2>4. \A write \in BOOLEAN : r(write) \in Pending
    BY <2>2, <2>3 DEF Pending
  <2>5. /\ \E write \in BOOLEAN : req' = [req EXCEPT ![w] = r(write)]
        /\ talks' = [talks EXCEPT ![t] = Ended(t)]
        /\ nextId' = nextId + 1
        /\ UNCHANGED <<live, state, log, refused, saved>>
    BY <1>11 DEF LeaveTalk, EndTalk, Appending, Goto
  <2> HIDE DEF r
  <2>6. req' \in [Workers -> {Idle} \cup Pending]
    BY <2>4, <2>5
  <2>7. Ended(t) \in Talk
    BY <2>2 DEF Ended, Talk
  <2>8. talks' \in [Talks -> Talk]
    BY <2>5, <2>7
  <2> QED BY <2>5, <2>6, <2>8
<1>12. CASE UNCHANGED vars
  BY <1>12 DEF vars
<1> QED BY <1>1, <1>2, <1>3, <1>4, <1>5, <1>6, <1>7, <1>8, <1>9, <1>10, <1>11, <1>12
        DEF Next, AppendNext, StepNext, TalkNext

LEMMA SavingKeepsTypes ==
    ASSUME TypeOK, SaveNext
    PROVE  TypeOK'
<1> USE DEF TypeOK
<1>1. ASSUME NEW w \in Workers, ReadLog(w) PROVE TypeOK'
  <2>1. req[w] \in Pending /\ req[w].pc = "save"
    BY <1>1 DEF ReadLog, At, Idle
  <2>2. req[w].s \in Sessions /\ req[w].next \in State
    BY <2>1 DEF Pending
  <2> QED BY <1>1, <2>2 DEF ReadLog, Finish
<1>2. ASSUME NEW w \in Workers, NEW s \in Sessions, ReadState(w, s) PROVE TypeOK'
  BY <1>2 DEF ReadState, Goto, Pending
<1>3. ASSUME NEW s \in Sessions, Restore(s) PROVE TypeOK'
  <2>1. saved.state \in State /\ saved.log \in Seq(Event)
    BY <1>3 DEF Restore
  <2> QED BY <1>3, <2>1 DEF Restore
<1> QED BY <1>1, <1>2, <1>3 DEF SaveNext

\* Type correctness of sessions, requests and dialogues.
THEOREM TypeCorrect == Spec => []TypeOK
BY InitTypes, NextKeepsTypes, PTL DEF Spec

-----------------------------------------------------------------------------
(* The turn of a state is logged, or owed by a request about to log it.     *)

LoggedAt(s, turn) == \E k \in DOMAIN log[s] : log[s][k].turn >= turn
Logging(w, s) == req[w].pc \in {"check", "append"} /\ req[w].s = s

TurnOwed ==
    \A s \in Sessions :
        \/ state[s].turn = 0
        \/ LoggedAt(s, state[s].turn)
        \/ \E w \in Workers : Logging(w, s) /\ req[w].pending[1].turn >= state[s].turn

\* The events of a request have the turn of its state, and a dialogue puts its
\* state back only after its event is logged.
RequestTurns ==
    \A w \in Workers :
        /\ req[w].pc \in {"commit", "check", "append"}
              => \A k \in DOMAIN req[w].pending : req[w].pending[k].turn = req[w].next.turn
        /\ req[w].pc = "write" => LoggedAt(req[w].s, req[w].next.turn)

TurnInv == TypeOK /\ TurnOwed /\ RequestTurns

LEMMA NonEmpty ==
    ASSUME NEW s \in Seq(Event), s # <<>>
    PROVE  1 \in DOMAIN s /\ s[1] \in Event /\ s[1].turn \in Nat
<1>1. 1 \in DOMAIN s /\ s[1] \in Event
  OBVIOUS
<1> QED BY <1>1 DEF Event

\* Appending keeps what is logged and adds the event.
LEMMA AppendLogs ==
    ASSUME NEW l \in Seq(Event), NEW e \in Event
    PROVE  /\ DOMAIN l \subseteq DOMAIN Append(l, e)
           /\ \A k \in DOMAIN l : Append(l, e)[k] = l[k]
           /\ Len(l) + 1 \in DOMAIN Append(l, e) /\ Append(l, e)[Len(l) + 1] = e
           /\ \A k \in DOMAIN Append(l, e) : k \in DOMAIN l \/ Append(l, e)[k] = e
OBVIOUS

\* A request that starts, with the state and the log left alone.
LEMMA StartsKeepTurns ==
    ASSUME TurnInv, TypeOK', UNCHANGED <<state, log>>, NEW w \in Workers, At(w, "idle"),
           NEW r, req' = [req EXCEPT ![w] = r], r.pc \in {"commit", "check"},
           \A k \in DOMAIN r.pending : r.pending[k].turn = r.next.turn
    PROVE  TurnOwed' /\ RequestTurns'
<1>1. req'[w] = r /\ \A v \in Workers : v # w => req'[v] = req[v]
  BY DEF TurnInv, TypeOK
<1>2. \A v \in Workers, s \in Sessions : Logging(v, s) => v # w
  BY DEF At, Logging
<1>3. TurnOwed'
  BY <1>1, <1>2 DEF TurnInv, TurnOwed, Logging, LoggedAt
<1>4. RequestTurns'
  BY <1>1 DEF TurnInv, RequestTurns, LoggedAt
<1> QED BY <1>3, <1>4

\* Once every request has ended, the log knows the turn of the state.
THEOREM TurnLogged == Spec => []StateTurnLogged
<1>1. Init => TurnOwed /\ RequestTurns
  BY DEF Init, TurnOwed, RequestTurns, Fresh, Idle
<1>2. TurnInv /\ TypeOK' /\ [Next]_vars => TurnOwed' /\ RequestTurns'
  <2> SUFFICES ASSUME TurnInv, TypeOK', [Next]_vars PROVE TurnOwed' /\ RequestTurns'
    OBVIOUS
  <2>1. ASSUME NEW s \in Sessions, StartGame(s) PROVE TurnOwed' /\ RequestTurns'
    BY <2>1 DEF StartGame, TurnInv, TurnOwed, RequestTurns, Logging, LoggedAt
  <2>2. ASSUME NEW w \in Workers, Commit(w) PROVE TurnOwed' /\ RequestTurns'
    <3> DEFINE r == [pc |-> "check", s |-> req[w].s, pending |-> req[w].pending,
                     next |-> req[w].next, write |-> FALSE]
    <3>1. req[w] \in Pending /\ req[w].pc = "commit"
      BY <2>2 DEF Commit, At, Idle, TurnInv, TypeOK
    <3>2. /\ req[w].s \in Sessions /\ req[w].next \in State
          /\ req[w].pending \in Seq(Event) /\ req[w].pending # <<>>
      BY <3>1 DEF Pending
    <3>3. /\ req'[w] = r /\ \A v \in Workers : v # w => req'[v] = req[v]
          /\ state' = [state EXCEPT ![req[w].s] = req[w].next] /\ log' = log
      BY <2>2 DEF Commit, Appending, Goto, TurnInv, TypeOK
    <3>4. req[w].pending[1].turn = req[w].next.turn /\ req[w].next.turn \in Nat
      BY <3>1, <3>2, NonEmpty DEF TurnInv, RequestTurns, State
    <3>5. \A v \in Workers, s \in Sessions : Logging(v, s) => v # w
      BY <3>1 DEF Logging
    <3>6. RequestTurns'
      BY <3>1, <3>3 DEF TurnInv, RequestTurns, LoggedAt
    <3>7. ASSUME NEW s \in Sessions, s = req[w].s
          PROVE  Logging(w, s)' /\ req'[w].pending[1].turn >= state'[s].turn
      BY <3>2, <3>3, <3>4, <3>7 DEF Logging, TurnInv, TypeOK
    <3>8. ASSUME NEW s \in Sessions, s # req[w].s
          PROVE  state'[s] = state[s]
      BY <3>3, <3>8 DEF TurnInv, TypeOK
    <3>9. TurnOwed'
      BY <3>3, <3>5, <3>7, <3>8 DEF TurnInv, TurnOwed, Logging, LoggedAt
    <3> QED BY <3>6, <3>9
  <2>3. ASSUME NEW w \in Workers, Abort(w) PROVE TurnOwed' /\ RequestTurns'
    <3>1. /\ req'[w] = Idle /\ \A v \in Workers : v # w => req'[v] = req[v]
          /\ req[w].pc = "commit" /\ UNCHANGED <<state, log>>
      BY <2>3 DEF Abort, Finish, At, TurnInv, TypeOK
    <3>2. \A v \in Workers, s \in Sessions : Logging(v, s) => v # w
      BY <3>1 DEF Logging
    <3> QED BY <3>1, <3>2 DEF TurnInv, TurnOwed, RequestTurns, Logging, LoggedAt, Idle
  <2>4. ASSUME NEW w \in Workers, NEW s \in Sessions, Noop(w, s)
        PROVE  TurnOwed' /\ RequestTurns'
    <3> DEFINE r == [pc |-> "check", s |-> s,
                     pending |-> <<NewEvent(nextId, state[s].turn, "noop", FALSE)>>,
                     next |-> state[s], write |-> FALSE]
    <3>1. /\ req' = [req EXCEPT ![w] = r] /\ At(w, "idle") /\ UNCHANGED <<state, log>>
      BY <2>4 DEF Noop, Appending, Goto
    <3>2. r.pc = "check" /\ \A k \in DOMAIN r.pending : r.pending[k].turn = r.next.turn
      BY DEF NewEvent
    <3> QED BY <3>1, <3>2, StartsKeepTurns
  <2>5. ASSUME NEW w \in Workers, NEW s \in Sessions,
               NEW success \in BOOLEAN, NEW changed \in BOOLEAN,
               NEW tick \in BOOLEAN, NEW crime \in BOOLEAN,
               Resolve(w, s, success, changed, tick, crime)
        PROVE  TurnOwed' /\ RequestTurns'
    <3> DEFINE turn == EventTurn(state[s].turn, TurnAfter(state[s].turn, success))
    <3> DEFINE r == [pc |-> "commit", s |-> s,
                     next |-> [turn |-> TurnAfter(state[s].turn, success),
                               applied |-> state[s].applied
                                   \o StepDeltas(nextId, changed, tick, crime)],
                     pending |-> StepEvents(nextId, turn, changed, tick, crime)]
    <3>1. /\ req' = [req EXCEPT ![w] = r] /\ At(w, "idle") /\ UNCHANGED <<state, log>>
      BY <2>5 DEF Resolve, Goto
    <3> DEFINE evs == StepEvents(nextId, turn, changed, tick, crime)
    <3>2. turn \in Nat /\ nextId \in Nat
      BY DEF EventTurn, TurnAfter, TurnInv, TypeOK, State
    <3>3. r.pc = "commit" /\ r.pending = evs /\ r.next.turn = turn
      BY DEF EventTurn, TurnAfter
    <3>4. \A k \in DOMAIN evs : evs[k].turn = turn
      <4> HIDE DEF turn
      <4> QED BY <3>2, StepLogged
    <3> HIDE DEF r, evs, turn
    <3>5. \A k \in DOMAIN r.pending : r.pending[k].turn = r.next.turn
      BY <3>3, <3>4
    <3> QED BY <3>1, <3>3, <3>5, StartsKeepTurns
  <2>6. ASSUME NEW w \in Workers, AppendTest(w) PROVE TurnOwed' /\ RequestTurns'
    <3>1. req[w] \in Pending /\ req[w].pc = "check"
      BY <2>6 DEF AppendTest, At, Idle, TurnInv, TypeOK
    <3>2. /\ req[w].s \in Sessions
          /\ req[w].pending \in Seq(Event) /\ req[w].pending # <<>>
      BY <3>1 DEF Pending
    <3>3. /\ UNCHANGED <<state, log>>
          /\ \A v \in Workers : v # w => req'[v] = req[v]
      BY <2>6 DEF AppendTest, Goto, Finish, TurnInv, TypeOK
    <3>4. CASE Backwards(log[req[w].s], req[w].pending[1])
      <4>1. req'[w] = Idle
        BY <2>6, <3>4 DEF AppendTest, Finish, TurnInv, TypeOK
      <4>2. \A s \in Sessions : Logging(w, s) /\ req[w].pending[1].turn >= state[s].turn
                => LoggedAt(s, state[s].turn)
        <5> SUFFICES ASSUME NEW s \in Sessions, s = req[w].s,
                            req[w].pending[1].turn >= state[s].turn
                     PROVE  LoggedAt(s, state[s].turn)
          BY DEF Logging
        <5>1. log[s] \in Seq(Event) /\ log[s] # <<>> /\ state[s].turn \in Nat
          BY <3>4 DEF Backwards, TurnInv, TypeOK, State
        <5>2. Len(log[s]) \in DOMAIN log[s] /\ log[s][Len(log[s])] \in Event
          BY <5>1
        <5>3. /\ log[s][Len(log[s])].turn \in Nat /\ req[w].pending[1].turn \in Nat
              /\ log[s][Len(log[s])].turn > req[w].pending[1].turn
          BY <5>2, <3>2, <3>4, NonEmpty DEF Event, Backwards
        <5>4. log[s][Len(log[s])].turn >= state[s].turn
          BY <5>1, <5>3
        <5> QED BY <5>2, <5>4 DEF LoggedAt
      <4> QED BY <3>3, <4>1, <4>2 DEF TurnInv, TurnOwed, RequestTurns, Logging, LoggedAt, Idle
    <3>5. CASE ~Backwards(log[req[w].s], req[w].pending[1])
      <4>1. req'[w] = [pc |-> "append", s |-> req[w].s, pending |-> req[w].pending,
                       next |-> req[w].next, write |-> req[w].write]
        BY <2>6, <3>5 DEF AppendTest, Goto, TurnInv, TypeOK
      <4> QED BY <3>1, <3>3, <4>1 DEF TurnInv, TurnOwed, RequestTurns, Logging, LoggedAt
    <3> QED BY <3>4, <3>5
  <2>7. ASSUME NEW w \in Workers, AppendEvent(w) PROVE TurnOwed' /\ RequestTurns'
    <3> DEFINE e == req[w].pending[1]
    <3> DEFINE rest == Tail(req[w].pending)
    <3>1. req[w] \in Pending /\ req[w].pc = "append"
      BY <2>7 DEF AppendEvent, At, Idle, TurnInv, TypeOK
    <3>2. /\ req[w].s \in Sessions /\ req[w].next \in State
          /\ req[w].pending \in Seq(Event) /\ req[w].pending # <<>>
      BY <3>1 DEF Pending
    <3>3. /\ log' = [log EXCEPT ![req[w].s] = Append(@, e)] /\ UNCHANGED state
          /\ \A v \in Workers : v # w => req'[v] = req[v]
      BY <2>7 DEF AppendEvent, Appending, Goto, Finish, TurnInv, TypeOK
    <3>4. /\ e \in Event /\ e.turn \in Nat /\ e.turn = req[w].next.turn
          /\ rest \in Seq(Event)
          /\ \A k \in DOMAIN rest : rest[k].turn = req[w].next.turn
      <4>1. \A k \in DOMAIN rest : k + 1 \in DOMAIN req[w].pending
                                  /\ rest[k] = req[w].pending[k + 1]
        BY <3>2
      <4> QED BY <3>1, <3>2, <4>1, NonEmpty DEF TurnInv, RequestTurns
    <3> HIDE DEF e
    <3>5. \A s \in Sessions, t \in Nat : LoggedAt(s, t) => LoggedAt(s, t)'
      <4> TAKE s \in Sessions, t \in Nat
      <4>1. CASE s = req[w].s
        <5>1. log[s] \in Seq(Event) /\ log'[s] = Append(log[s], e)
          BY <3>2, <3>3, <4>1 DEF TurnInv, TypeOK
        <5> QED BY <5>1, <3>4, AppendLogs DEF LoggedAt
      <4>2. CASE s # req[w].s
        <5>1. log'[s] = log[s]
          BY <3>3, <4>2 DEF TurnInv, TypeOK
        <5> QED BY <5>1 DEF LoggedAt
      <4> QED BY <4>1, <4>2
    <3>6. PICK q \in Sessions : q = req[w].s
      BY <3>2
    <3>13. \A t \in Nat : e.turn >= t => LoggedAt(q, t)'
      <4>1. log[q] \in Seq(Event) /\ log'[q] = Append(log[q], e)
        BY <3>3, <3>6 DEF TurnInv, TypeOK
      <4> DEFINE n == Len(log[q]) + 1
      <4>2. n \in DOMAIN log'[q] /\ log'[q][n] = e
        BY <4>1, <3>4, AppendLogs
      <4> HIDE DEF n
      <4>3. log'[q][n].turn = e.turn
        BY <4>2
      <4>4. \A t \in Nat : e.turn >= t => \E k \in DOMAIN log'[q] : log'[q][k].turn >= t
        BY <4>2, <4>3
      <4> QED BY <4>4 DEF LoggedAt
    <3>7. \A s \in Sessions : state[s].turn \in Nat
      BY DEF TurnInv, TypeOK, State
    <3>8. TurnOwed'
      <4> SUFFICES ASSUME NEW s \in Sessions, state[s].turn # 0
                   PROVE  \/ LoggedAt(s, state[s].turn)'
                          \/ \E v \in Workers : /\ Logging(v, s)'
                                               /\ req'[v].pending[1].turn >= state[s].turn
        BY <3>3 DEF TurnOwed
      <4>1. CASE LoggedAt(s, state[s].turn)
        BY <4>1, <3>5, <3>7, <3>3 DEF LoggedAt
      <4>2. ASSUME NEW v \in Workers, Logging(v, s), req[v].pending[1].turn >= state[s].turn
            PROVE  \/ LoggedAt(s, state[s].turn)'
                   \/ Logging(v, s)' /\ req'[v].pending[1].turn >= state[s].turn
        <5>1. CASE v = w
          BY <5>1, <4>2, <3>6, <3>13, <3>7, <3>3 DEF Logging, LoggedAt, e
        <5>2. CASE v # w
          BY <5>2, <4>2, <3>3 DEF Logging
        <5> QED BY <5>1, <5>2
      <4> QED BY <4>1, <4>2 DEF TurnInv, TurnOwed
    <3>9. \A v \in Workers : v # w => /\ req[v].pc = "write" => req[v].s \in Sessions
                                                   /\ req[v].next.turn \in Nat
      BY DEF TurnInv, TypeOK, Pending, Idle, State
    <3>10. /\ req'[w].pc \in {"check", "write", "idle"}
           /\ req'[w].pc = "check" => /\ req'[w].pending = rest
                                     /\ req'[w].next = req[w].next
           /\ req'[w].pc = "write" => /\ req'[w].s = req[w].s
                                     /\ req'[w].next = req[w].next
      <4>1. w \in DOMAIN req
        BY DEF TurnInv, TypeOK
      <4>2. CASE rest # <<>>
        BY <2>7, <4>1, <4>2 DEF AppendEvent, Appending, Goto
      <4>3. CASE rest = <<>> /\ req[w].write
        <5>1. req' = [req EXCEPT ![w] = [pc |-> "write", s |-> req[w].s, next |-> req[w].next]]
          BY <2>7, <4>3, Zenon DEF AppendEvent, Goto
        <5> QED BY <5>1, <4>1
      <4>4. CASE rest = <<>> /\ ~req[w].write
        BY <2>7, <4>1, <4>4 DEF AppendEvent, Finish, Idle
      <4> QED BY <4>2, <4>3, <4>4
    <3>11. req'[w].pc = "write" => LoggedAt(req[w].s, req[w].next.turn)'
      <4> SUFFICES ASSUME req'[w].pc = "write"
                   PROVE  \E k \in DOMAIN log'[req'[w].s] :
                             log'[req'[w].s][k].turn >= req'[w].next.turn
        BY DEF LoggedAt
      <4>1. req'[w].s = q /\ req'[w].next.turn = e.turn
        BY <3>4, <3>6, <3>10
      <4> QED BY <4>1, <3>4, <3>13 DEF LoggedAt
    <3>12. RequestTurns'
      <4> SUFFICES ASSUME NEW v \in Workers
                   PROVE  /\ req'[v].pc \in {"commit", "check", "append"}
                               => \A k \in DOMAIN req'[v].pending :
                                     req'[v].pending[k].turn = req'[v].next.turn
                          /\ req'[v].pc = "write" => LoggedAt(req[v].s, req[v].next.turn)'
        BY DEF RequestTurns
      <4>1. CASE v = w
        BY <4>1, <3>4, <3>10, <3>11 DEF LoggedAt
      <4>2. CASE v # w
        <5>1. req'[v] = req[v]
          BY <4>2, <3>3
        <5>2. req[v].pc = "write" => LoggedAt(req[v].s, req[v].next.turn)
          BY DEF TurnInv, RequestTurns
        <5>3. req[v].pc = "write" => LoggedAt(req[v].s, req[v].next.turn)'
          BY <4>2, <5>1, <5>2, <3>5, <3>9 DEF LoggedAt
        <5> QED BY <5>1, <5>3 DEF TurnInv, RequestTurns
      <4> QED BY <4>1, <4>2
    <3> QED BY <3>8, <3>12
  <2>8. ASSUME NEW w \in Workers, WriteState(w) PROVE TurnOwed' /\ RequestTurns'
    <3>1. req[w] \in Pending /\ req[w].pc = "write"
      BY <2>8 DEF WriteState, At, Idle, TurnInv, TypeOK
    <3>2. req[w].s \in Sessions /\ LoggedAt(req[w].s, req[w].next.turn)
      BY <3>1 DEF Pending, TurnInv, RequestTurns
    <3>3. /\ req'[w] = Idle /\ \A v \in Workers : v # w => req'[v] = req[v]
          /\ state' = [state EXCEPT ![req[w].s] = req[w].next] /\ log' = log
      BY <2>8 DEF WriteState, Finish, TurnInv, TypeOK
    <3>4. \A v \in Workers, s \in Sessions : Logging(v, s) => v # w
      BY <3>1 DEF Logging
    <3>5. RequestTurns'
      BY <3>3 DEF TurnInv, RequestTurns, LoggedAt, Idle
    <3>6. \A s \in Sessions :
             state'[s] = IF s = req[w].s THEN req[w].next ELSE state[s]
      BY <3>3 DEF TurnInv, TypeOK
    <3>7. TurnOwed'
      BY <3>2, <3>3, <3>4, <3>6 DEF TurnInv, TurnOwed, Logging, LoggedAt
    <3> QED BY <3>5, <3>7
  <2>9. ASSUME NEW w \in Workers, NEW s, NEW t, NEW kind, NEW changes, NEW next,
               NEW write, At(w, "idle"), UNCHANGED <<state, log>>,
               next.turn = state[s].turn,
               Appending(w, s, TalkEvent(s, t, kind, changes), next, write)
        PROVE  TurnOwed' /\ RequestTurns'
    <3> DEFINE r == [pc |-> "check", s |-> s, pending |-> TalkEvent(s, t, kind, changes),
                     next |-> next, write |-> write]
    <3>1. req' = [req EXCEPT ![w] = r] /\ r.pc = "check"
      BY <2>9 DEF Appending, Goto
    <3>2. \A k \in DOMAIN r.pending : r.pending[k].turn = r.next.turn
      BY <2>9 DEF TalkEvent
    <3> HIDE DEF r
    <3> QED BY <2>9, <3>1, <3>2, StartsKeepTurns
  <2>10. ASSUME NEW w \in Workers, NEW t \in Talks,
                \/ \E s \in Sessions, group \in BOOLEAN : StartTalk(w, s, t, group)
                \/ \E changes \in BOOLEAN : ContinueTalk(w, t, changes)
                \/ LeaveTalk(w, t) \/ EndTalk(w, t)
         PROVE  TurnOwed' /\ RequestTurns'
    <3>1. ASSUME NEW s \in Sessions, NEW group \in BOOLEAN, StartTalk(w, s, t, group)
          PROVE  TurnOwed' /\ RequestTurns'
      BY <3>1, <2>9 DEF StartTalk
    <3>2. ASSUME NEW changes \in BOOLEAN, ContinueTalk(w, t, changes)
          PROVE  TurnOwed' /\ RequestTurns'
      <4> DEFINE next == [turn |-> state[talks[t].s].turn,
                          applied |-> state[talks[t].s].applied
                              \o (IF changes THEN <<nextId>> ELSE <<>>)]
      <4>1. next.turn = state[talks[t].s].turn
        OBVIOUS
      <4>2. /\ At(w, "idle") /\ UNCHANGED <<state, log>>
            /\ Appending(w, talks[t].s, TalkEvent(talks[t].s, t, "talk", changes), next,
                         ~talks[t].group)
        BY <3>2 DEF ContinueTalk
      <4> HIDE DEF next
      <4> QED BY <4>1, <4>2, <2>9
    <3>3. CASE LeaveTalk(w, t)
      BY <3>3, <2>9 DEF LeaveTalk
    <3>4. CASE EndTalk(w, t)
      BY <3>4, <2>9 DEF EndTalk
    <3> QED BY <2>10, <3>1, <3>2, <3>3, <3>4
  <2>11. CASE UNCHANGED vars
    BY <2>11 DEF vars, TurnInv, TurnOwed, RequestTurns, Logging, LoggedAt
  <2> QED BY <2>1, <2>2, <2>3, <2>4, <2>5, <2>6, <2>7, <2>8, <2>10, <2>11
          DEF Next, AppendNext, StepNext, TalkNext
<1>3. TurnInv => StateTurnLogged
  <2> SUFFICES ASSUME TurnInv, Quiet, NEW s \in live, state[s].turn # 0
               PROVE  LoggedAt(s, state[s].turn)
    BY DEF StateTurnLogged, LoggedAt
  <2>1. s \in Sessions /\ \A w \in Workers : ~Logging(w, s)
    BY DEF TurnInv, TypeOK, Quiet, At, Logging
  <2> QED BY <2>1 DEF TurnInv, TurnOwed
<1> QED BY <1>1, <1>2, <1>3, TypeCorrect, PTL DEF Spec, TurnInv

-----------------------------------------------------------------------------
(* Every delta of a state, and of a state a request is about to assign, has *)
(* its event in the log, refused, or in the request.                        *)

Traced(s, n) ==
    \/ n \in IdsOf(log[s]) \cup refused
    \/ \E w \in Workers : Logging(w, s) /\ n \in IdsOf(req[w].pending)

StateTraced ==
    \A s \in Sessions : \A k \in DOMAIN state[s].applied : Traced(s, state[s].applied[k])

NextTraced ==
    \A w \in Workers :
        req[w].pc \in {"commit", "check", "append", "write"} =>
            \A k \in DOMAIN req[w].next.applied :
                \/ Traced(req[w].s, req[w].next.applied[k])
                \/ req[w].pc # "write" /\ req[w].next.applied[k] \in IdsOf(req[w].pending)

EffectInv == TypeOK /\ StateTraced /\ NextTraced

\* A request that starts with a state made of the session's and its own events.
LEMMA StartsTraced ==
    ASSUME EffectInv, UNCHANGED <<state, log, refused>>, NEW w \in Workers, At(w, "idle"),
           NEW s \in Sessions, NEW r, req' = [req EXCEPT ![w] = r],
           r.pc \in {"commit", "check"}, r.s = s,
           \A k \in DOMAIN r.next.applied :
              \/ \E j \in DOMAIN state[s].applied : r.next.applied[k] = state[s].applied[j]
              \/ r.next.applied[k] \in IdsOf(r.pending)
    PROVE  StateTraced' /\ NextTraced'
<1>1. req'[w] = r /\ \A v \in Workers : v # w => req'[v] = req[v]
  BY DEF EffectInv, TypeOK
<1>2. \A v \in Workers, q \in Sessions : Logging(v, q) => v # w
  BY DEF At, Logging
<1>3. \A q, n : Traced(q, n) => Traced(q, n)'
  <2> TAKE q, n
  <2>1. \A v \in Workers : Logging(v, q) => v # w
    BY DEF At, Logging
  <2>2. \A v \in Workers : Logging(v, q) => Logging(v, q)' /\ req'[v] = req[v]
    BY <1>1, <2>1 DEF Logging
  <2> QED BY <2>2 DEF Traced, IdsOf
<1>4. StateTraced'
  BY <1>3 DEF EffectInv, StateTraced
<1>5. ASSUME NEW k \in DOMAIN r.next.applied
      PROVE  Traced(s, r.next.applied[k])' \/ r.next.applied[k] \in IdsOf(r.pending)
  BY <1>3, <1>5 DEF EffectInv, StateTraced
<1>6. NextTraced'
  <2> SUFFICES ASSUME NEW v \in Workers,
                      req'[v].pc \in {"commit", "check", "append", "write"},
                      NEW k \in DOMAIN req'[v].next.applied
               PROVE  \/ Traced(req[v].s, req[v].next.applied[k])'
                      \/ /\ req'[v].pc # "write"
                         /\ req'[v].next.applied[k] \in IdsOf(req'[v].pending)
    BY DEF NextTraced, IdsOf
  <2>1. CASE v = w
    <3>1. req'[v] = r
      BY <2>1, <1>1
    <3>2. Traced(s, r.next.applied[k])' \/ r.next.applied[k] \in IdsOf(r.pending)
      BY <3>1, <1>5
    <3> QED BY <3>1, <3>2 DEF Traced, Logging
  <2>2. CASE v # w
    <3>1. req'[v] = req[v]
      BY <2>2, <1>1
    <3>2. \/ Traced(req[v].s, req[v].next.applied[k])
          \/ req[v].pc # "write" /\ req[v].next.applied[k] \in IdsOf(req[v].pending)
      BY <3>1 DEF EffectInv, NextTraced
    <3>3. PICK q, n : q = req[v].s /\ n = req[v].next.applied[k]
      OBVIOUS
    <3>4. Traced(q, n) => Traced(q, n)'
      BY <1>3
    <3> QED BY <3>1, <3>2, <3>3, <3>4 DEF Traced, Logging
  <2> QED BY <2>1, <2>2
<1> QED BY <1>4, <1>6

\* The commit, the refusal, the append and the write of a request, each for
\* the worker that makes it.
LEMMA CommitTraced ==
    ASSUME EffectInv, NEW w \in Workers, Commit(w)
    PROVE  StateTraced' /\ NextTraced'
<1>1. req[w] \in Pending /\ req[w].pc = "commit"
  BY DEF Commit, At, Idle, EffectInv, TypeOK
<1>2. PICK q, r : q \in Sessions /\ q = req[w].s /\ r = req[w]
  BY <1>1 DEF Pending
<1>3. /\ req'[w] = [pc |-> "check", s |-> q, pending |-> r.pending,
                    next |-> r.next, write |-> FALSE]
      /\ \A v \in Workers : v # w => req'[v] = req[v]
      /\ \A s \in Sessions : state'[s] = IF s = q THEN r.next ELSE state[s]
      /\ UNCHANGED <<log, refused>>
  BY <1>2 DEF Commit, Appending, Goto, EffectInv, TypeOK
<1>4. \A s, n : Traced(s, n) => Traced(s, n)'
  <2> TAKE s, n
  <2>1. \A v \in Workers : Logging(v, s) => Logging(v, s)' /\ req'[v] = req[v]
    BY <1>1, <1>3 DEF Logging
  <2> QED BY <1>3, <2>1 DEF Traced, IdsOf
<1>5. ASSUME NEW k \in DOMAIN r.next.applied
      PROVE  Traced(q, r.next.applied[k])'
  <2>1. Traced(q, r.next.applied[k]) \/ r.next.applied[k] \in IdsOf(r.pending)
    BY <1>1, <1>2 DEF EffectInv, NextTraced
  <2>2. r.next.applied[k] \in IdsOf(r.pending) => Traced(q, r.next.applied[k])'
    BY <1>3 DEF Traced, Logging, IdsOf
  <2> QED BY <2>1, <2>2, <1>4
<1>6. StateTraced'
  <2> SUFFICES ASSUME NEW s \in Sessions, NEW k \in DOMAIN state'[s].applied
               PROVE  Traced(s, state[s].applied[k])'
    BY DEF StateTraced
  <2>1. PICK n : n = state'[s].applied[k]
    OBVIOUS
  <2>2. CASE s = q
    <3>1. state'[s] = r.next
      BY <2>2, <1>3
    <3>2. Traced(q, n)'
      BY <3>1, <2>1, <1>5
    <3> QED BY <3>2, <2>1, <2>2 DEF Traced, Logging
  <2>3. CASE s # q
    <3>1. state'[s] = state[s]
      BY <2>3, <1>3
    <3>2. Traced(s, n)
      BY <3>1, <2>1 DEF EffectInv, StateTraced
    <3>3. Traced(s, n)'
      BY <3>2, <1>4
    <3> QED BY <3>3, <2>1 DEF Traced, Logging
  <2> QED BY <2>2, <2>3
<1>7. NextTraced'
  <2> SUFFICES ASSUME NEW v \in Workers,
                      req'[v].pc \in {"commit", "check", "append", "write"},
                      NEW k \in DOMAIN req'[v].next.applied
               PROVE  \/ Traced(req[v].s, req[v].next.applied[k])'
                      \/ /\ req'[v].pc # "write"
                         /\ req'[v].next.applied[k] \in IdsOf(req'[v].pending)
    BY DEF NextTraced, IdsOf
  <2>1. CASE v = w
    <3>1. req'[v].s = q /\ req'[v].next = r.next
      BY <2>1, <1>3
    <3>2. Traced(q, r.next.applied[k])'
      BY <3>1, <1>5
    <3> QED BY <3>1, <3>2 DEF Traced, Logging
  <2>2. CASE v # w
    <3>1. req'[v] = req[v]
      BY <2>2, <1>3
    <3>2. \/ Traced(req[v].s, req[v].next.applied[k])
          \/ req[v].pc # "write" /\ req[v].next.applied[k] \in IdsOf(req[v].pending)
      BY <3>1 DEF EffectInv, NextTraced
    <3>3. PICK s, n : s = req[v].s /\ n = req[v].next.applied[k]
      OBVIOUS
    <3>4. Traced(s, n) => Traced(s, n)'
      BY <1>4
    <3> QED BY <3>1, <3>2, <3>3, <3>4 DEF Traced, Logging
  <2> QED BY <2>1, <2>2
<1> QED BY <1>6, <1>7

\* Steps that leave the states alone and take events only from the requests of
\* w to the log or to the refused ones.
LEMMA MovesTraced ==
    ASSUME EffectInv, NEW w \in Workers, UNCHANGED state,
           \A v \in Workers : v # w => req'[v] = req[v],
           \A s, n : Traced(s, n) => Traced(s, n)',
           req'[w].pc \in {"commit", "check", "append", "write"} =>
              /\ req[w].pc \in {"commit", "check", "append", "write"}
              /\ req'[w].s = req[w].s /\ req'[w].next = req[w].next
              /\ \A n : (req[w].pc # "write" /\ n \in IdsOf(req[w].pending))
                    => \/ Traced(req[w].s, n)'
                       \/ req'[w].pc # "write" /\ n \in IdsOf(req'[w].pending)
    PROVE  StateTraced' /\ NextTraced'
<1>1. StateTraced'
  BY DEF EffectInv, StateTraced
<1>2. NextTraced'
  <2> SUFFICES ASSUME NEW v \in Workers,
                      req'[v].pc \in {"commit", "check", "append", "write"},
                      NEW k \in DOMAIN req'[v].next.applied
               PROVE  \/ Traced(req[v].s, req[v].next.applied[k])'
                      \/ /\ req'[v].pc # "write"
                         /\ req'[v].next.applied[k] \in IdsOf(req'[v].pending)
    BY DEF NextTraced, IdsOf
  <2>1. req[v].pc \in {"commit", "check", "append", "write"}
        /\ req'[v].s = req[v].s /\ req'[v].next = req[v].next
    OBVIOUS
  <2>0. \/ Traced(req[v].s, req[v].next.applied[k])
        \/ req[v].pc # "write" /\ req[v].next.applied[k] \in IdsOf(req[v].pending)
    BY <2>1 DEF EffectInv, NextTraced
  <2>2. PICK s, n : s = req[v].s /\ n = req[v].next.applied[k]
    OBVIOUS
  <2>3. Traced(s, n) \/ (req[v].pc # "write" /\ n \in IdsOf(req[v].pending))
    BY <2>0, <2>2
  <2>4. CASE Traced(s, n)
    <3>1. Traced(s, n)'
      BY <2>4
    <3> QED BY <3>1, <2>1, <2>2 DEF Traced, Logging
  <2>5. CASE req[v].pc # "write" /\ n \in IdsOf(req[v].pending)
    BY <2>5, <2>1, <2>2 DEF Traced, Logging
  <2> QED BY <2>3, <2>4, <2>5
<1> QED BY <1>1, <1>2

\* Whatever requests do to each other, no delta is in a state without its event.
THEOREM EffectsLogged == Spec => []EffectsAccounted
<1>1. Init => StateTraced /\ NextTraced
  BY DEF Init, StateTraced, NextTraced, Fresh, Idle
<1>2. EffectInv /\ TypeOK' /\ [Next]_vars => StateTraced' /\ NextTraced'
  <2> SUFFICES ASSUME EffectInv, TypeOK', [Next]_vars PROVE StateTraced' /\ NextTraced'
    OBVIOUS
  <2>1. ASSUME NEW s \in Sessions, StartGame(s) PROVE StateTraced' /\ NextTraced'
    BY <2>1 DEF StartGame, EffectInv, StateTraced, NextTraced, Traced, Logging, IdsOf
  <2>2. ASSUME NEW w \in Workers, Commit(w) PROVE StateTraced' /\ NextTraced'
    BY <2>2, CommitTraced
  <2>3. ASSUME NEW w \in Workers, Abort(w) PROVE StateTraced' /\ NextTraced'
    <3>1. /\ req'[w] = Idle /\ \A v \in Workers : v # w => req'[v] = req[v]
          /\ req[w].pc = "commit" /\ UNCHANGED <<state, log, refused>>
      BY <2>3 DEF Abort, Finish, At, EffectInv, TypeOK
    <3>2. \A s, n : Traced(s, n) => Traced(s, n)'
      <4> TAKE s, n
      <4>1. \A v \in Workers : Logging(v, s) => Logging(v, s)' /\ req'[v] = req[v]
        BY <3>1 DEF Logging
      <4> QED BY <3>1, <4>1 DEF Traced, IdsOf
    <3>3. req'[w].pc = "idle"
      BY <3>1 DEF Idle
    <3> QED BY <3>1, <3>2, <3>3, MovesTraced
  <2>4. ASSUME NEW w \in Workers, NEW s \in Sessions, Noop(w, s)
        PROVE  StateTraced' /\ NextTraced'
    <3> DEFINE r == [pc |-> "check", s |-> s,
                     pending |-> <<NewEvent(nextId, state[s].turn, "noop", FALSE)>>,
                     next |-> state[s], write |-> FALSE]
    <3>1. /\ req' = [req EXCEPT ![w] = r] /\ At(w, "idle")
          /\ UNCHANGED <<state, log, refused>>
      BY <2>4 DEF Noop, Appending, Goto
    <3>2. r.pc = "check" /\ r.s = s /\ r.next = state[s]
      OBVIOUS
    <3> HIDE DEF r
    <3> QED BY <3>1, <3>2, StartsTraced
  <2>5. ASSUME NEW w \in Workers, NEW s \in Sessions,
               NEW success \in BOOLEAN, NEW changed \in BOOLEAN,
               NEW tick \in BOOLEAN, NEW crime \in BOOLEAN,
               Resolve(w, s, success, changed, tick, crime)
        PROVE  StateTraced' /\ NextTraced'
    <3> DEFINE turn == EventTurn(state[s].turn, TurnAfter(state[s].turn, success))
    <3> DEFINE ids == StepDeltas(nextId, changed, tick, crime)
    <3> DEFINE evs == StepEvents(nextId, turn, changed, tick, crime)
    <3> DEFINE r == [pc |-> "commit", s |-> s,
                     next |-> [turn |-> TurnAfter(state[s].turn, success),
                               applied |-> state[s].applied \o ids],
                     pending |-> evs]
    <3>1. /\ req' = [req EXCEPT ![w] = r] /\ At(w, "idle")
          /\ UNCHANGED <<state, log, refused>>
      BY <2>5 DEF Resolve, Goto
    <3>2. turn \in Nat /\ nextId \in Nat /\ state[s].applied \in Seq(Nat)
      BY DEF EventTurn, TurnAfter, EffectInv, TypeOK, State
    <3>3. r.pc = "commit" /\ r.s = s /\ r.pending = evs
          /\ r.next.applied = state[s].applied \o ids
      OBVIOUS
    <3>4. ids \in Seq(Nat) /\ \A k \in DOMAIN ids : ids[k] \in IdsOf(evs)
      <4> HIDE DEF turn
      <4> QED BY <3>2, StepLogged
    <3> HIDE DEF r, evs, ids, turn
    <3>5. ElementsOf(r.next.applied) = ElementsOf(state[s].applied) \cup ElementsOf(ids)
      BY <3>2, <3>3, <3>4, Concat
    <3>6. \A k \in DOMAIN r.next.applied :
             r.next.applied[k] \in ElementsOf(state[s].applied) \cup ElementsOf(ids)
      BY <3>5 DEF ElementsOf
    <3>7. \A k \in DOMAIN r.next.applied :
             \/ \E j \in DOMAIN state[s].applied : r.next.applied[k] = state[s].applied[j]
             \/ r.next.applied[k] \in IdsOf(r.pending)
      BY <3>3, <3>4, <3>6 DEF ElementsOf
    <3> QED BY <3>1, <3>3, <3>7, StartsTraced
  <2>6. ASSUME NEW w \in Workers, AppendTest(w) PROVE StateTraced' /\ NextTraced'
    <3>1. /\ req[w].pc = "check" /\ UNCHANGED <<state, log>>
          /\ \A v \in Workers : v # w => req'[v] = req[v]
      BY <2>6 DEF AppendTest, At, Goto, Finish, EffectInv, TypeOK
    <3>2. CASE Backwards(log[req[w].s], req[w].pending[1])
      <4>1. req'[w] = Idle /\ refused' = refused \cup IdsOf(req[w].pending)
        BY <2>6, <3>2 DEF AppendTest, Finish, EffectInv, TypeOK
      <4>2. \A s, n : Traced(s, n) => Traced(s, n)'
        <5> TAKE s, n
        <5>1. \A v \in Workers : Logging(v, s) =>
                 v = w \/ (Logging(v, s)' /\ req'[v] = req[v])
          BY <3>1 DEF Logging
        <5>2. IdsOf(log[s]) = IdsOf(log[s])'
          BY <3>1 DEF IdsOf
        <5>3. n \in refused \/ n \in IdsOf(req[w].pending) => n \in refused'
          BY <4>1
        <5> QED BY <5>1, <5>2, <5>3 DEF Traced, IdsOf
      <4>3. req'[w].pc = "idle"
        BY <4>1 DEF Idle
      <4> QED BY <3>1, <4>2, <4>3, MovesTraced
    <3>3. CASE ~Backwards(log[req[w].s], req[w].pending[1])
      <4>1. /\ req'[w] = [pc |-> "append", s |-> req[w].s, pending |-> req[w].pending,
                          next |-> req[w].next, write |-> req[w].write]
            /\ refused' = refused
        BY <2>6, <3>3 DEF AppendTest, Goto, EffectInv, TypeOK
      <4>2. \A s, n : Traced(s, n) => Traced(s, n)'
        <5> TAKE s, n
        <5>1. \A v \in Workers : Logging(v, s) =>
                 Logging(v, s)' /\ req'[v].pending = req[v].pending
          BY <3>1, <4>1 DEF Logging
        <5> QED BY <3>1, <4>1, <5>1 DEF Traced, IdsOf
      <4>3. /\ req'[w].s = req[w].s /\ req'[w].next = req[w].next
            /\ req'[w].pc = "append" /\ req'[w].pending = req[w].pending
        BY <4>1
      <4> QED BY <3>1, <4>2, <4>3, MovesTraced
    <3> QED BY <3>2, <3>3
  <2>7. ASSUME NEW w \in Workers, AppendEvent(w) PROVE StateTraced' /\ NextTraced'
    <3> DEFINE rest == Tail(req[w].pending)
    <3>1. req[w] \in Pending /\ req[w].pc = "append"
      BY <2>7 DEF AppendEvent, At, Idle, EffectInv, TypeOK
    <3>2. PICK q, e : q \in Sessions /\ q = req[w].s /\ e = req[w].pending[1]
      BY <3>1 DEF Pending
    <3>3. /\ req[w].pending \in Seq(Event) /\ req[w].pending # <<>>
          /\ e \in Event /\ log[q] \in Seq(Event)
      BY <3>1, <3>2 DEF Pending, EffectInv, TypeOK
    <3>4. \A n \in IdsOf(req[w].pending) : n = e.id \/ n \in IdsOf(rest)
      <4>1. \A k \in DOMAIN req[w].pending : k = 1 \/ (k - 1 \in DOMAIN rest
                                  /\ rest[k - 1] = req[w].pending[k])
        BY <3>3
      <4> QED BY <4>1, <3>2 DEF IdsOf
    <3>5. /\ \A v \in Workers : v # w => req'[v] = req[v]
          /\ \A s \in Sessions : log'[s] = IF s = q THEN Append(log[q], e) ELSE log[s]
          /\ UNCHANGED <<state, refused>> /\ w \in DOMAIN req
          /\ log \in [Sessions -> Seq(Event)] /\ log' = [log EXCEPT ![q] = Append(@, e)]
      BY <2>7, <3>2 DEF AppendEvent, Appending, Goto, Finish, EffectInv, TypeOK
    <3>6. e.id \in IdsOf(Append(log[q], e)) /\ IdsOf(log[q]) \subseteq IdsOf(Append(log[q], e))
      BY <3>3, AppendLogs DEF IdsOf
    <3>7. e.id \in IdsOf(log[q])' /\ \A s : IdsOf(log[s]) \subseteq IdsOf(log[s])'
      <4>1. \A s : IdsOf(log'[s]) = IdsOf(log[s])'
        BY DEF IdsOf
      <4>2. \A s : s # q => log'[s] = log[s]
        BY <3>5
      <4> QED BY <3>2, <3>5, <3>6, <4>1, <4>2
    <3>8. /\ req'[w].pc \in {"check", "write", "idle"}
          /\ rest # <<>> => /\ req'[w].pc = "check" /\ req'[w].pending = rest
                           /\ req'[w].s = q /\ req'[w].next = req[w].next
          /\ req'[w].pc = "write" => /\ req'[w].s = q
                                    /\ req'[w].next = req[w].next
          /\ req'[w].pc = "check" => rest # <<>>
      <4>1. CASE rest # <<>>
        BY <2>7, <3>2, <3>5, <4>1 DEF AppendEvent, Appending, Goto
      <4>2. CASE rest = <<>> /\ req[w].write
        <5>1. req' = [req EXCEPT ![w] = [pc |-> "write", s |-> req[w].s, next |-> req[w].next]]
          BY <2>7, <4>2, Zenon DEF AppendEvent, Goto
        <5> QED BY <5>1, <4>2, <3>2, <3>5
      <4>3. CASE rest = <<>> /\ ~req[w].write
        BY <2>7, <3>5, <4>3 DEF AppendEvent, Finish, Idle
      <4> QED BY <4>1, <4>2, <4>3
    <3>9. IdsOf(rest) # {} => rest # <<>>
      BY DEF IdsOf
    <3>10. \A n \in IdsOf(req[w].pending) : Traced(q, n)'
      <4> SUFFICES ASSUME NEW n \in IdsOf(req[w].pending) PROVE Traced(q, n)'
        OBVIOUS
      <4>1. CASE n = e.id
        BY <4>1, <3>7 DEF Traced
      <4>2. CASE n \in IdsOf(rest)
        <5>1. req'[w].pc = "check" /\ req'[w].pending = rest /\ req'[w].s = q
          BY <4>2, <3>8, <3>9
        <5> QED BY <5>1, <4>2 DEF Traced, Logging, IdsOf
      <4> QED BY <4>1, <4>2, <3>4
    <3>11. \A s, n : Traced(s, n) => Traced(s, n)'
      <4> SUFFICES ASSUME NEW s, NEW n, Traced(s, n) PROVE Traced(s, n)'
        OBVIOUS
      <4>1. CASE n \in IdsOf(log[s]) \cup refused
        BY <4>1, <3>5, <3>7 DEF Traced
      <4>2. ASSUME NEW v \in Workers, Logging(v, s), n \in IdsOf(req[v].pending)
            PROVE  Traced(s, n)'
        <5>1. CASE v = w
          <6>1. s = q /\ n \in IdsOf(req[w].pending)
            BY <5>1, <4>2, <3>2 DEF Logging
          <6> QED BY <6>1, <3>10
        <5>2. CASE v # w
          <6>1. req'[v] = req[v]
            BY <5>2, <3>5
          <6> QED BY <6>1, <4>2 DEF Traced, Logging, IdsOf
        <5> QED BY <5>1, <5>2
      <4> QED BY <4>1, <4>2 DEF Traced
    <3>12. \A n \in IdsOf(req[w].pending) : req'[w].s = q => Traced(req[w].s, n)'
      BY <3>10 DEF Traced, Logging
    <3>14. req'[w].pc \in {"commit", "check", "append", "write"} =>
              req'[w].s = req[w].s /\ req'[w].next = req[w].next
      BY <3>2, <3>8
    <3> QED BY <3>1, <3>2, <3>5, <3>11, <3>12, <3>14, MovesTraced
  <2>8. ASSUME NEW w \in Workers, WriteState(w) PROVE StateTraced' /\ NextTraced'
    <3>1. req[w] \in Pending /\ req[w].pc = "write"
      BY <2>8 DEF WriteState, At, Idle, EffectInv, TypeOK
    <3>2. PICK q, r : q \in Sessions /\ q = req[w].s /\ r = req[w].next
      BY <3>1 DEF Pending
    <3>3. /\ req'[w] = Idle /\ \A v \in Workers : v # w => req'[v] = req[v]
          /\ \A s \in Sessions : state'[s] = IF s = q THEN r ELSE state[s]
          /\ UNCHANGED <<log, refused>>
      BY <2>8, <3>2 DEF WriteState, Finish, EffectInv, TypeOK
    <3>4. \A s, n : Traced(s, n) => Traced(s, n)'
      <4> TAKE s, n
      <4>1. \A v \in Workers : Logging(v, s) => Logging(v, s)' /\ req'[v] = req[v]
        BY <3>1, <3>3 DEF Logging
      <4> QED BY <3>3, <4>1 DEF Traced, IdsOf
    <3>5. \A k \in DOMAIN r.applied : Traced(q, r.applied[k])
      BY <3>1, <3>2 DEF EffectInv, NextTraced
    <3>6. \A s \in Sessions : \A k \in DOMAIN state'[s].applied :
             Traced(s, state'[s].applied[k])
      BY <3>3, <3>5 DEF EffectInv, StateTraced
    <3>7. StateTraced'
      <4> SUFFICES ASSUME NEW s \in Sessions, NEW k \in DOMAIN state'[s].applied
                   PROVE  Traced(s, state[s].applied[k])'
        BY DEF StateTraced
      <4>1. PICK n : n = state'[s].applied[k]
        OBVIOUS
      <4>2. Traced(s, n)'
        BY <3>4, <3>6, <4>1
      <4> QED BY <4>1, <4>2 DEF Traced, Logging
    <3>8. NextTraced'
      <4> SUFFICES ASSUME NEW v \in Workers,
                          req'[v].pc \in {"commit", "check", "append", "write"},
                          NEW k \in DOMAIN req'[v].next.applied
                   PROVE  \/ Traced(req[v].s, req[v].next.applied[k])'
                          \/ /\ req'[v].pc # "write"
                             /\ req'[v].next.applied[k] \in IdsOf(req'[v].pending)
        BY DEF NextTraced, IdsOf
      <4>1. req'[v] = req[v]
        BY <3>3 DEF Idle
      <4>2. \/ Traced(req[v].s, req[v].next.applied[k])
            \/ req[v].pc # "write" /\ req[v].next.applied[k] \in IdsOf(req[v].pending)
        BY <4>1 DEF EffectInv, NextTraced
      <4>3. PICK s, n : s = req[v].s /\ n = req[v].next.applied[k]
        OBVIOUS
      <4>4. Traced(s, n) => Traced(s, n)'
        BY <3>4
      <4> QED BY <4>1, <4>2, <4>3, <4>4 DEF Traced, Logging
    <3> QED BY <3>7, <3>8
  <2>9. ASSUME NEW w \in Workers, NEW s \in Sessions, NEW t, NEW kind, NEW changes,
               NEW next, NEW write, At(w, "idle"), UNCHANGED <<state, log, refused>>,
               Appending(w, s, TalkEvent(s, t, kind, changes), next, write),
               \A k \in DOMAIN next.applied :
                  \/ \E j \in DOMAIN state[s].applied : next.applied[k] = state[s].applied[j]
                  \/ next.applied[k] = nextId
        PROVE  StateTraced' /\ NextTraced'
    <3> DEFINE r == [pc |-> "check", s |-> s, pending |-> TalkEvent(s, t, kind, changes),
                     next |-> next, write |-> write]
    <3>1. req' = [req EXCEPT ![w] = r]
      BY <2>9 DEF Appending, Goto
    <3>2. /\ r.pc = "check" /\ r.s = s /\ r.next = next
          /\ r.pending = TalkEvent(s, t, kind, changes)
      OBVIOUS
    <3>3. nextId \in IdsOf(TalkEvent(s, t, kind, changes))
      BY DEF IdsOf, TalkEvent
    <3> HIDE DEF r
    <3>4. \A k \in DOMAIN r.next.applied :
             \/ \E j \in DOMAIN state[s].applied : r.next.applied[k] = state[s].applied[j]
             \/ r.next.applied[k] \in IdsOf(r.pending)
      BY <2>9, <3>2, <3>3
    <3> QED BY <2>9, <3>1, <3>2, <3>4, StartsTraced
  <2>10. ASSUME NEW w \in Workers, NEW t \in Talks,
                \/ \E s \in Sessions, group \in BOOLEAN : StartTalk(w, s, t, group)
                \/ \E changes \in BOOLEAN : ContinueTalk(w, t, changes)
                \/ LeaveTalk(w, t) \/ EndTalk(w, t)
         PROVE  StateTraced' /\ NextTraced'
    <3>1. ASSUME NEW s \in Sessions, NEW group \in BOOLEAN, StartTalk(w, s, t, group)
          PROVE  StateTraced' /\ NextTraced'
      BY <3>1, <2>9 DEF StartTalk
    <3>2. talks[t].status # "none" => talks[t].s \in Sessions
      BY DEF EffectInv, TypeOK, Talk
    <3>3. ASSUME NEW changes \in BOOLEAN, ContinueTalk(w, t, changes)
          PROVE  StateTraced' /\ NextTraced'
      <4> DEFINE s == talks[t].s
      <4> DEFINE own == IF changes THEN <<nextId>> ELSE <<>>
      <4> DEFINE next == [turn |-> state[s].turn, applied |-> state[s].applied \o own]
      <4>1. s \in Sessions
        BY <3>2, <3>3 DEF ContinueTalk, MayContinue
      <4>2. /\ At(w, "idle") /\ UNCHANGED <<state, log, refused>>
            /\ Appending(w, s, TalkEvent(s, t, "talk", changes), next, ~talks[t].group)
        BY <3>3 DEF ContinueTalk
      <4>3. state[s].applied \in Seq(Nat) /\ nextId \in Nat
        BY <4>1 DEF EffectInv, TypeOK, State
      <4>4. own \in Seq(Nat) /\ ElementsOf(own) \subseteq {nextId}
        BY <4>3, OneIf
      <4>5. next.applied = state[s].applied \o own
        OBVIOUS
      <4> HIDE DEF s, own, next
      <4>6. ElementsOf(next.applied) = ElementsOf(state[s].applied) \cup ElementsOf(own)
        BY <4>3, <4>4, <4>5, Concat
      <4>7. \A k \in DOMAIN next.applied :
               next.applied[k] \in ElementsOf(state[s].applied) \cup {nextId}
        BY <4>4, <4>6 DEF ElementsOf
      <4>8. \A k \in DOMAIN next.applied :
               \/ \E j \in DOMAIN state[s].applied : next.applied[k] = state[s].applied[j]
               \/ next.applied[k] = nextId
        BY <4>7 DEF ElementsOf
      <4> QED BY <4>1, <4>2, <4>8, <2>9
    <3>4. CASE LeaveTalk(w, t)
      <4>1. talks[t].s \in Sessions
        BY <3>2, <3>4 DEF LeaveTalk, MayContinue
      <4> QED BY <3>4, <4>1, <2>9 DEF LeaveTalk
    <3>5. CASE EndTalk(w, t)
      <4>1. talks[t].s \in Sessions
        BY <3>2, <3>5 DEF EndTalk
      <4> QED BY <3>5, <4>1, <2>9 DEF EndTalk
    <3> QED BY <2>10, <3>1, <3>3, <3>4, <3>5
  <2>11. CASE UNCHANGED vars
    BY <2>11 DEF vars, EffectInv, StateTraced, NextTraced, Traced, Logging, IdsOf
  <2> QED BY <2>1, <2>2, <2>3, <2>4, <2>5, <2>6, <2>7, <2>8, <2>10, <2>11
          DEF Next, AppendNext, StepNext, TalkNext
<1>3. EffectInv => EffectsAccounted
  BY DEF EffectInv, StateTraced, Traced, Logging, EffectsAccounted, PendingIds
<1> QED BY <1>1, <1>2, <1>3, TypeCorrect, PTL DEF Spec, EffectInv

-----------------------------------------------------------------------------
(* What a log says was changed, event after event *)

LEMMA ChangesUnfold ==
    ASSUME NEW l \in Seq(Event)
    PROVE  /\ ChangesUpTo(l) \in [0..Len(l) -> Seq(Nat)]
           /\ ChangesUpTo(l)[0] = <<>>
           /\ \A k \in 1..Len(l) :
                 ChangesUpTo(l)[k] = IF l[k].changes THEN Append(ChangesUpTo(l)[k - 1], l[k].id)
                                     ELSE ChangesUpTo(l)[k - 1]
<1>. DEFINE n == Len(l)
            V == Seq(Nat)
            next(k, ids) == IF l[k].changes THEN Append(ids, l[k].id) ELSE ids
            step == [x \in (1..n) \X V |-> next(x[1], x[2])]
            Fits(f) == f = [k \in 0..n |-> IF k = 0 THEN <<>> ELSE next(k, f[k - 1])]
<1>1. n \in Nat /\ \A k \in 1..n : l[k] \in Event
  OBVIOUS
<1>2. ASSUME NEW k \in 1..n, NEW ids \in V
      PROVE  next(k, ids) \in V
  BY <1>1 DEF Event
<1>3. step \in [(1..n) \X V -> V]
  BY <1>2
<1>4. PICK f \in [0..n -> V] : \A k \in 0..n : f[k] = IF k = 0 THEN <<>> ELSE step[<<k, f[k - 1]>>]
  <2>. DEFINE first == <<>>
  <2>1. first \in V
    OBVIOUS
  <2>. HIDE DEF step, n, V, first
  <2>2. \E f \in [0..n -> V] : Iterates(f, n, first, step)
    BY <1>1, <1>3, <2>1, Iteration
  <2>. QED
    BY <2>2 DEF first, Iterates
<1>5. ASSUME NEW k \in 1..n
      PROVE  step[<<k, f[k - 1]>>] = next(k, f[k - 1])
  <2>1. k - 1 \in 0..n
    BY <1>1
  <2>. HIDE DEF V, next
  <2>. QED
    BY <1>4, <2>1
<1>6. Fits(f)
  <2>. HIDE DEF step, next
  <2>1. ASSUME NEW k \in 0..n
        PROVE  f[k] = IF k = 0 THEN <<>> ELSE next(k, f[k - 1])
    <3>1. k # 0 => k \in 1..n
      BY <1>1
    <3>. QED
      BY <1>4, <1>5, <3>1
  <2>. QED
    BY <1>4, <2>1
<1>7. ChangesUpTo(l) = CHOOSE h : Fits(h)
  BY DEF ChangesUpTo
<1>8. Fits(ChangesUpTo(l))
  <2>. HIDE DEF Fits
  <2>. QED
    BY <1>6, <1>7
<1>. DEFINE g == ChangesUpTo(l)
<1>9. g[0] = <<>> /\ \A k \in 1..n : g[k] = next(k, g[k - 1])
  <2>. HIDE DEF g, next
  <2>1. g = [k \in 0..n |-> IF k = 0 THEN <<>> ELSE next(k, g[k - 1])]
    BY <1>8 DEF g
  <2>2. 0 \in 0..n /\ \A k \in 1..n : k \in 0..n /\ k # 0
    BY <1>1
  <2>. QED
    BY <2>1, <2>2
<1>10. \A k \in 0..n : g[k] \in V
  <2>1. ASSUME NEW k \in 1..n, g[k - 1] \in V
        PROVE  g[k] \in V
    <3>1. g[k] = next(k, g[k - 1]) /\ next(k, g[k - 1]) \in V
      <4>. HIDE DEF next, g
      <4>. QED
        BY <1>2, <1>9, <2>1
    <3>. QED
      BY <3>1
  <2>2. g[0] \in V
    BY <1>9
  <2>. HIDE DEF g, V, n
  <2>. QED
    BY <1>1, <2>1, <2>2, Inherited
<1>11. g \in [0..n -> V]
  <2>. HIDE DEF g, next
  <2>1. g = [k \in 0..n |-> IF k = 0 THEN <<>> ELSE next(k, g[k - 1])]
    BY <1>8 DEF g
  <2>. QED
    BY <1>10, <2>1
<1>. QED
  BY <1>9, <1>11

\* One more event changes nothing of what the log said before.
LEMMA ChangesAppend ==
    ASSUME NEW l \in Seq(Event), NEW e \in Event
    PROVE  /\ ChangingIds(Append(l, e)) =
                  IF e.changes THEN Append(ChangingIds(l), e.id) ELSE ChangingIds(l)
           /\ ChangingIds(l) \in Seq(Nat)
<1>. DEFINE m == Append(l, e)
            S == {k \in Nat : k <= Len(l) => ChangesUpTo(m)[k] = ChangesUpTo(l)[k]}
<1>1. /\ m \in Seq(Event) /\ Len(l) \in Nat /\ Len(m) = Len(l) + 1
      /\ \A k \in 1..Len(l) : m[k] = l[k]
      /\ m[Len(l) + 1] = e
  OBVIOUS
<1>. HIDE DEF m
<1>2. 0 \in S
  BY <1>1, ChangesUnfold
<1>3. ASSUME NEW k \in Nat, k \in S
      PROVE  k + 1 \in S
  <2>. SUFFICES ASSUME k + 1 <= Len(l)
                PROVE  ChangesUpTo(m)[k + 1] = ChangesUpTo(l)[k + 1]
    OBVIOUS
  <2>1. k + 1 \in 1..Len(l) /\ k + 1 \in 1..Len(m) /\ (k + 1) - 1 = k
    BY <1>1
  <2>2. ChangesUpTo(m)[k] = ChangesUpTo(l)[k]
    BY <1>1, <1>3
  <2>3. ChangesUpTo(m)[k + 1] = IF m[k + 1].changes THEN Append(ChangesUpTo(m)[k], m[k + 1].id)
                                ELSE ChangesUpTo(m)[k]
    BY <1>1, <2>1, ChangesUnfold
  <2>4. ChangesUpTo(l)[k + 1] = IF l[k + 1].changes THEN Append(ChangesUpTo(l)[k], l[k + 1].id)
                                ELSE ChangesUpTo(l)[k]
    BY <2>1, ChangesUnfold
  <2>. QED
    BY <1>1, <2>1, <2>2, <2>3, <2>4
<1>. HIDE DEF S
<1>4. Len(l) \in S
  BY <1>1, <1>2, <1>3, SetInduction
<1>5. ChangesUpTo(m)[Len(l)] = ChangesUpTo(l)[Len(l)]
  BY <1>1, <1>4 DEF S
<1>6. ChangesUpTo(m)[Len(l) + 1] = IF e.changes THEN Append(ChangesUpTo(m)[Len(l)], e.id)
                                  ELSE ChangesUpTo(m)[Len(l)]
  <2>1. Len(l) + 1 \in 1..Len(m) /\ (Len(l) + 1) - 1 = Len(l)
    BY <1>1
  <2>. QED
    BY <1>1, <2>1, ChangesUnfold
<1>7. ChangesUpTo(l)[Len(l)] \in Seq(Nat)
  BY <1>1, ChangesUnfold
<1>. QED
  BY <1>1, <1>5, <1>6, <1>7 DEF ChangingIds, m

LEMMA ChangesNone == ChangingIds(<<>>) = <<>>
<1>1. <<>> \in Seq(Event) /\ Len(<<>>) = 0
  OBVIOUS
<1>. QED
  BY <1>1, ChangesUnfold DEF ChangingIds

LEMMA ChangesOneIf ==
    ASSUME NEW l \in Seq(Event), NEW b \in BOOLEAN, NEW e \in Event, e.changes
    PROVE  ChangingIds(l \o (IF b THEN <<e>> ELSE <<>>))
                = ChangingIds(l) \o (IF b THEN <<e.id>> ELSE <<>>)
<1>1. ChangingIds(l) \in Seq(Nat) /\ e.id \in Nat
  BY ChangesAppend DEF Event
<1>2. CASE b
  <2>1. l \o <<e>> = Append(l, e) /\ ChangingIds(l) \o <<e.id>> = Append(ChangingIds(l), e.id)
    BY <1>1, AppendIsConcat
  <2>. QED
    BY <1>2, <2>1, ChangesAppend
<1>3. CASE ~b
  BY <1>1, <1>3, ConcatEmptySeq
<1>. QED
  BY <1>2, <1>3

-----------------------------------------------------------------------------
(* The sessions of a client that waits are a story book. *)

\* What a request has still to do to the state st and the log l of its session.
Continuing(r, l) ==
    /\ \A k \in DOMAIN r.pending : r.pending[k].turn = r.next.turn
    /\ LastTurn(l) <= r.next.turn
    /\ r.next = Replay(l \o r.pending)

RequestFits(r, st, l) ==
    /\ r.pc = "commit" =>
           /\ Continuing(r, l)
           /\ r.next.turn <= LastTurn(l) + 1 /\ Len(r.pending) <= 3
           /\ \A k \in DOMAIN r.pending : r.pending[k].kind \in StepKinds
    /\ r.pc \in {"check", "append"} => Continuing(r, l) /\ (r.write \/ st = r.next)
    /\ r.pc \in {"write", "save"} => r.next = Replay(l)

\* The state of a session with no request between its log and its state.
Settled(s) == \A w \in Busy : req[w].s = s => req[w].pc \in {"commit", "save"}

OneRequest == \A v, w \in Busy : v = w
RequestsFit == \A w \in Busy : /\ req[w].s \in live
                               /\ RequestFits(req[w], state[req[w].s], log[req[w].s])
SessionsFit == \A s \in Sessions :
    /\ Ordered(log[s])
    /\ s \notin live => log[s] = <<>> /\ state[s] = Fresh
    /\ Settled(s) => state[s] = Replay(log[s])
TalksLive == \A t \in Talks : talks[t].status # "none" => talks[t].s \in live
SavedFits == saved # NoSave => saved.state = Replay(saved.log) /\ Ordered(saved.log)

AloneInv == OneRequest /\ RequestsFit /\ SessionsFit /\ TalksLive /\ SavedFits
StoryInv == TypeOK /\ (alone => AloneInv)

LEMMA Extended ==
    ASSUME NEW l \in Seq(Event), Ordered(l), NEW p \in Seq(Event), p # <<>>, NEW t \in Nat,
           \A k \in DOMAIN p : p[k].turn = t, LastTurn(l) <= t
    PROVE  /\ l \o p \in Seq(Event) /\ Ordered(l \o p) /\ LastTurn(l \o p) = t
           /\ ~Backwards(l, p[1])
           /\ Len(l \o p) = Len(l) + Len(p)
           /\ \A k \in Len(l) + 1 .. Len(l) + Len(p) : (l \o p)[k].turn = t
           /\ SubSeq(l \o p, 1, Len(l)) = l
<1>. DEFINE m == l \o p
<1>1. /\ m \in Seq(Event) /\ Len(m) = Len(l) + Len(p)
      /\ Len(l) \in Nat /\ Len(p) \in Nat \ {0}
      /\ DOMAIN p = 1..Len(p)
      /\ \A k \in 1..Len(l) + Len(p) : m[k] = IF k <= Len(l) THEN l[k] ELSE p[k - Len(l)]
  BY ConcatProperties, LenProperties, EmptySeq
<1>2. \A k \in 1..Len(l) : m[k] = l[k]
  BY <1>1
<1>3. ASSUME NEW k \in Len(l) + 1 .. Len(l) + Len(p)
      PROVE  m[k].turn = t
  <2>1. k \in 1..Len(l) + Len(p) /\ ~(k <= Len(l)) /\ k - Len(l) \in 1..Len(p)
    BY <1>1
  <2>2. m[k] = p[k - Len(l)]
    BY <1>1, <2>1
  <2>. QED
    BY <1>1, <2>1, <2>2
<1>4. m # <<>> /\ LastTurn(m) = t
  <2>1. Len(m) \in Len(l) + 1 .. Len(l) + Len(p)
    BY <1>1
  <2>2. m[Len(m)].turn = t
    BY <1>3, <2>1
  <2>3. m # <<>>
    BY <1>1, ConcatEqualIffEmpty
  <2>. QED
    BY <2>2, <2>3 DEF LastTurn
<1>5. l # <<>> => l[Len(l)].turn <= t
  BY DEF LastTurn
<1>6. ASSUME NEW k \in 1..Len(m) - 1
      PROVE  m[k].turn <= m[k + 1].turn
  <2>1. CASE k < Len(l)
    <3>1. k \in 1..Len(l) - 1 /\ k \in 1..Len(l) /\ k + 1 \in 1..Len(l)
      BY <1>1, <2>1
    <3>. QED
      BY <1>2, <3>1 DEF Ordered
  <2>2. CASE k = Len(l)
    <3>1. k \in 1..Len(l) /\ k + 1 \in Len(l) + 1 .. Len(l) + Len(p)
      BY <1>1, <2>2
    <3>2. l # <<>>
      BY <1>1, <3>1
    <3>. QED
      BY <1>2, <1>3, <1>5, <2>2, <3>1, <3>2
  <2>3. CASE k > Len(l)
    <3>1. k \in Len(l) + 1 .. Len(l) + Len(p) /\ k + 1 \in Len(l) + 1 .. Len(l) + Len(p)
      BY <1>1, <2>3
    <3>. QED
      BY <1>3, <3>1
  <2>. QED
    BY <1>1, <2>1, <2>2, <2>3
<1>7. Ordered(m)
  BY <1>6 DEF Ordered
<1>8. ~Backwards(l, p[1])
  <2>1. p[1].turn = t
    BY <1>1
  <2>2. l # <<>> => l[Len(l)] \in Event
    BY <1>1
  <2>3. l # <<>> => l[Len(l)].turn \in Nat
    BY <2>2 DEF Event
  <2>. QED
    BY <1>5, <2>1, <2>3 DEF Backwards
<1>9. SubSeq(m, 1, Len(l)) = l
  <2>1. CASE l = <<>>
    BY <1>1, <2>1, SubSeqEmpty
  <2>2. CASE l # <<>>
    <3>1. 1 \in 1..Len(l) /\ Len(l) \in 1..Len(l)
      BY <1>1, <2>2, EmptySeq
    <3>2. SubSeq(m, 1, Len(l)) = SubSeq(l, 1, Len(l))
      BY <3>1, SubSeqOfConcat1
    <3>. QED
      BY <3>2, SubSeqFull
  <2>. QED
    BY <2>1, <2>2
<1>. QED
  BY <1>1, <1>3, <1>4, <1>7, <1>8, <1>9

LEMMA LenOneIf ==
    ASSUME NEW b \in BOOLEAN, NEW e
    PROVE  Len(IF b THEN <<e>> ELSE <<>>) \in 0..1
<1>1. CASE b
  BY <1>1
<1>2. CASE ~b
  BY <1>2
<1>. QED
  BY <1>1, <1>2

\* The events of a step change what its deltas change.
EventsFitDeltas(l, n, turn, changed, tick, crime) ==
    \E evs \in Seq(Event), ids \in Seq(Nat) :
        /\ evs = StepEvents(n, turn, changed, tick, crime)
        /\ ids = StepDeltas(n, changed, tick, crime)
        /\ ChangingIds(l \o evs) = ChangingIds(l) \o ids
        /\ Len(evs) <= 3

LEMMA StepReplays ==
    ASSUME NEW l \in Seq(Event), NEW n \in Nat, NEW turn \in Nat,
           NEW changed \in BOOLEAN, NEW tick \in BOOLEAN, NEW crime \in BOOLEAN
    PROVE  EventsFitDeltas(l, n, turn, changed, tick, crime)
<1>. DEFINE p == IF tick THEN n + 1 ELSE n
            P == NewEvent(p, turn, "player", changed)
            T == NewEvent(n, turn, "tick", TRUE)
            C == NewEvent(p + 1, turn, "crime", TRUE)
<1>1. /\ P \in Event /\ T \in Event /\ C \in Event /\ T.changes /\ C.changes
      /\ T.id = n /\ C.id = p + 1 /\ P.id = p /\ P.changes = changed
  BY DEF NewEvent, Event, Kinds
<1>2. /\ StepEvents(n, turn, changed, tick, crime)
            = (<<P>> \o (IF tick THEN <<T>> ELSE <<>>)) \o (IF crime THEN <<C>> ELSE <<>>)
      /\ StepDeltas(n, changed, tick, crime)
            = ((IF changed THEN <<p>> ELSE <<>>) \o (IF tick THEN <<n>> ELSE <<>>))
              \o (IF crime THEN <<p + 1>> ELSE <<>>)
  BY DEF StepEvents, StepDeltas
<1>. HIDE DEF P, T, C, p
<1>. DEFINE Ps == <<P>>
            Ts == IF tick THEN <<T>> ELSE <<>>
            Cs == IF crime THEN <<C>> ELSE <<>>
            ps == IF changed THEN <<P.id>> ELSE <<>>
            ts == IF tick THEN <<T.id>> ELSE <<>>
            cs == IF crime THEN <<C.id>> ELSE <<>>
<1>3. P.id \in Nat /\ T.id \in Nat /\ C.id \in Nat
  BY <1>1 DEF Event
<1>4. Ps \in Seq(Event) /\ Len(Ps) = 1
  BY <1>1
<1>5. Ts \in Seq(Event) /\ Cs \in Seq(Event) /\ Len(Ts) \in 0..1 /\ Len(Cs) \in 0..1
  BY <1>1, OneIf, LenOneIf
<1>6. ps \in Seq(Nat) /\ ts \in Seq(Nat) /\ cs \in Seq(Nat)
  BY <1>3, OneIf
<1>7. ChangingIds(l) \in Seq(Nat)
  BY <1>1, ChangesAppend
<1>8. ChangingIds(l \o Ps) = ChangingIds(l) \o ps
  <2>1. /\ l \o Ps = Append(l, P)
        /\ Append(ChangingIds(l), P.id) = ChangingIds(l) \o <<P.id>>
        /\ ChangingIds(l) \o <<>> = ChangingIds(l)
    BY <1>1, <1>3, <1>7, AppendIsConcat, ConcatEmptySeq
  <2>2. ChangingIds(Append(l, P)) = IF changed THEN Append(ChangingIds(l), P.id) ELSE ChangingIds(l)
    BY <1>1, ChangesAppend
  <2>. QED
    BY <2>1, <2>2
<1>. HIDE DEF Ps, ps
<1>9. l \o Ps \in Seq(Event)
  BY <1>4, ConcatProperties
<1>10. ChangingIds((l \o Ps) \o Ts) = ChangingIds(l \o Ps) \o ts
  BY <1>1, <1>9, ChangesOneIf
<1>. HIDE DEF Ts, ts
<1>11. (l \o Ps) \o Ts \in Seq(Event)
  BY <1>5, <1>9, ConcatProperties
<1>12. ChangingIds(((l \o Ps) \o Ts) \o Cs) = ChangingIds((l \o Ps) \o Ts) \o cs
  BY <1>1, <1>11, ChangesOneIf
<1>. HIDE DEF Cs, cs
<1>13. ((l \o Ps) \o Ts) \o Cs = l \o ((Ps \o Ts) \o Cs)
  <2>1. (l \o Ps) \o Ts = l \o (Ps \o Ts)
    BY <1>4, <1>5, ConcatAssociative
  <2>2. PICK v \in Seq(Event) : v = Ps \o Ts
    BY <1>4, <1>5, Concat
  <2>3. (l \o v) \o Cs = l \o (v \o Cs)
    BY <1>5, ConcatAssociative
  <2>. QED
    BY <2>1, <2>2, <2>3
<1>14. ((ChangingIds(l) \o ps) \o ts) \o cs = ChangingIds(l) \o ((ps \o ts) \o cs)
  <2>1. PICK u \in Seq(Nat) : u = ChangingIds(l)
    BY <1>7
  <2>2. (u \o ps) \o ts = u \o (ps \o ts)
    BY <1>6, ConcatAssociative
  <2>3. PICK v \in Seq(Nat) : v = ps \o ts
    BY <1>6, Concat
  <2>4. (u \o v) \o cs = u \o (v \o cs)
    BY <1>6, ConcatAssociative
  <2>. QED
    BY <2>1, <2>2, <2>3, <2>4
<1>15. ChangingIds(l \o ((Ps \o Ts) \o Cs)) = ChangingIds(l) \o ((ps \o ts) \o cs)
  BY <1>8, <1>10, <1>12, <1>13, <1>14
<1>16. Len((Ps \o Ts) \o Cs) <= 3
  <2>1. Len(Ps \o Ts) = Len(Ps) + Len(Ts) /\ Ps \o Ts \in Seq(Event)
    BY <1>4, <1>5, ConcatProperties
  <2>2. Len((Ps \o Ts) \o Cs) = Len(Ps \o Ts) + Len(Cs)
    BY <1>5, <2>1, ConcatProperties
  <2>. QED
    BY <1>4, <1>5, <2>1, <2>2
<1>17. /\ StepEvents(n, turn, changed, tick, crime) = (Ps \o Ts) \o Cs
       /\ StepDeltas(n, changed, tick, crime) = (ps \o ts) \o cs
  BY <1>1, <1>2 DEF Ps, Ts, Cs, ps, ts, cs
<1>18. (Ps \o Ts) \o Cs \in Seq(Event) /\ (ps \o ts) \o cs \in Seq(Nat)
  BY <1>4, <1>5, <1>6, Concat
<1>. QED
  BY <1>15, <1>16, <1>17, <1>18, Zenon DEF EventsFitDeltas

\* What a request r, the only one there may be, makes of a session.
ToldBy(r, s) ==
    IF r.pc \in {"check", "append"} /\ r.s = s THEN log[s] \o r.pending ELSE log[s]
ShownBy(r, s) ==
    IF r.pc \in {"check", "append", "write"} /\ r.s = s /\ (r.pc # "write" => r.write)
    THEN r.next ELSE state[s]

OthersIdle(w) == \A v \in Workers \ {w} : At(v, "idle")

\* RequestsFit and SessionsFit when r is the only request there may be.
RequestKept(r) == r.pc # "idle" => r.s \in live /\ RequestFits(r, state[r.s], log[r.s])
SessionKept(r, s) ==
    /\ Ordered(log[s])
    /\ s \notin live => log[s] = <<>> /\ state[s] = Fresh
    /\ (r.pc # "idle" /\ r.s = s => r.pc \in {"commit", "save"}) => state[s] = Replay(log[s])
Kept(r) == RequestKept(r) /\ \A s \in Sessions : SessionKept(r, s)

\* What is told and shown when w is the only worker with a request.
Sole(w) ==
    OthersIdle(w) =>
        /\ \A s \in Sessions : Told(s) = ToldBy(req[w], s) /\ Shown(s) = ShownBy(req[w], s)
        /\ OneRequest
        /\ RequestsFit /\ SessionsFit <=> Kept(req[w])

LEMMA SoleRequest == \A w \in Workers : Sole(w)
<1>. SUFFICES ASSUME NEW w \in Workers, OthersIdle(w)
              PROVE  /\ \A s \in Sessions : /\ Told(s) = ToldBy(req[w], s)
                                            /\ Shown(s) = ShownBy(req[w], s)
                     /\ OneRequest
                     /\ RequestsFit /\ SessionsFit <=> Kept(req[w])
  BY DEF Sole
<1>1. Busy = IF req[w].pc = "idle" THEN {} ELSE {w}
  BY DEF Busy, OthersIdle, At
<1>2. OneRequest
  BY <1>1 DEF OneRequest
<1>3. ASSUME NEW s \in Sessions
      PROVE  Told(s) = ToldBy(req[w], s)
  <2>1. Telling(s) = IF req[w].pc \in {"check", "append"} /\ req[w].s = s THEN {w} ELSE {}
    BY <1>1 DEF Telling
  <2>2. (CHOOSE v \in {w} : TRUE) = w
    OBVIOUS
  <2>. QED
    BY <2>1, <2>2 DEF Told, ToldBy
<1>4. ASSUME NEW s \in Sessions
      PROVE  Shown(s) = ShownBy(req[w], s)
  <2>1. Showing(s) = IF /\ req[w].pc \in {"check", "append", "write"} /\ req[w].s = s
                        /\ req[w].pc # "write" => req[w].write
                     THEN {w} ELSE {}
    BY <1>1 DEF Showing
  <2>2. (CHOOSE v \in {w} : TRUE) = w
    OBVIOUS
  <2>. QED
    BY <2>1, <2>2 DEF Shown, ShownBy
<1>5. RequestsFit <=> RequestKept(req[w])
  BY <1>1 DEF RequestsFit, RequestKept
<1>6. SessionsFit <=> \A s \in Sessions : SessionKept(req[w], s)
  <2>1. ASSUME NEW s \in Sessions
        PROVE  Settled(s) <=> (req[w].pc # "idle" /\ req[w].s = s => req[w].pc \in {"commit", "save"})
    BY <1>1 DEF Settled
  <2>. QED
    BY <2>1 DEF SessionsFit, SessionKept
<1>. QED
  BY <1>2, <1>3, <1>4, <1>5, <1>6 DEF Kept

LEMMA SoleRequestNext == \A w \in Workers : Sole(w)'
<1>1. (\A w \in Workers : Sole(w))'
  BY SoleRequest, PTL
<1>. QED
  BY <1>1

\* What the only request's step shows: its session's book before and after.
LEMMA Moves ==
    ASSUME TypeOK, AloneInv, NEW w \in Workers, OthersIdle(w),
           NEW q, q = req[w], NEW r, req' = [req EXCEPT ![w] = r],
           Kept(q) => Kept(r)'
    PROVE  /\ OneRequest' /\ RequestsFit' /\ SessionsFit'
           /\ \A s \in Sessions : /\ Told(s) = ToldBy(q, s) /\ Shown(s) = ShownBy(q, s)
                                  /\ Told(s)' = ToldBy(r, s)' /\ Shown(s)' = ShownBy(r, s)'
<1>1. req'[w] = r /\ OthersIdle(w)'
  BY DEF TypeOK, OthersIdle, At
<1>2. Kept(q)
  BY SoleRequest DEF AloneInv, Sole
<1>3. Kept(req[w])' <=> Kept(r)'
  BY <1>1 DEF Kept, RequestKept, SessionKept
<1>4. ASSUME NEW s \in Sessions
      PROVE  ToldBy(req[w], s)' = ToldBy(r, s)' /\ ShownBy(req[w], s)' = ShownBy(r, s)'
  BY <1>1 DEF ToldBy, ShownBy
<1>5. \A s \in Sessions : Told(s) = ToldBy(q, s) /\ Shown(s) = ShownBy(q, s)
  BY SoleRequest DEF Sole
<1>6. \A s \in Sessions : Told(s)' = ToldBy(req[w], s)' /\ Shown(s)' = ShownBy(req[w], s)'
  BY <1>1, SoleRequestNext DEF Sole
<1>7. OneRequest' /\ (RequestsFit' /\ SessionsFit' <=> Kept(req[w])')
  BY <1>1, SoleRequestNext DEF Sole
<1>. QED
  BY <1>2, <1>3, <1>4, <1>5, <1>6, <1>7

\* What a step tells of the dialogues: nothing, or one event that fits their status.
TalkTold(p) ==
    \/ \A k \in DOMAIN p : p[k].kind \in StepKinds \cup {"noop"}
    \/ \E e \in Event :
          /\ p = <<e>> /\ e.talk \in Talks
          /\ \/ e.kind = "start" /\ talks[e.talk].status = "none" /\ talks'[e.talk].status # "none"
             \/ e.kind = "talk" /\ talks[e.talk].status = "active"
             \/ e.kind = "end" /\ talks'[e.talk].status = "ended"

\* The book's steps, told with the session's own variables.
SameBook(s) == Told(s)' = Told(s) /\ Shown(s)' = Shown(s)
Same == /\ UNCHANGED <<live, saved>>
        /\ \A s \in Sessions : SameBook(s)
Starts(s) == /\ s \notin live /\ live' = live \cup {s} /\ UNCHANGED saved
             /\ \A u \in Sessions : SameBook(u)
Tells(s) == /\ s \in live /\ UNCHANGED <<live, saved>>
            /\ \E p \in Seq(Event) : Told(s)' = Told(s) \o p /\ TalkTold(p)
            /\ Book!Continues(Told(s), Told(s)') /\ Shown(s)' = Replay(Told(s)')
            /\ \A u \in Sessions \ {s} : SameBook(u)
Keeps(s) == /\ s \in live /\ UNCHANGED live
            /\ saved' = [state |-> Shown(s), log |-> Told(s)]
            /\ \A u \in Sessions : SameBook(u)
TakesUp(s) == /\ s \notin live /\ saved # NoSave
              /\ live' = live \cup {s} /\ UNCHANGED saved
              /\ Told(s)' = saved.log /\ Shown(s)' = saved.state
              /\ \A u \in Sessions \ {s} : SameBook(u)
BookStep == Same \/ \E s \in Sessions : Starts(s) \/ Tells(s) \/ Keeps(s) \/ TakesUp(s)

LEMMA BookContinues ==
    ASSUME NEW l \in Seq(Event), Ordered(l), NEW p \in Seq(Event), p # <<>>, NEW t \in Nat,
           \A k \in DOMAIN p : p[k].turn = t, LastTurn(l) <= t, t <= LastTurn(l) + 1, Len(p) <= 3
    PROVE  Book!Continues(l, l \o p)
<1>. DEFINE m == l \o p
<1>1. /\ LastTurn(m) = t /\ Len(m) = Len(l) + Len(p)
      /\ \A k \in Len(l) + 1 .. Len(l) + Len(p) : m[k].turn = t
      /\ SubSeq(m, 1, Len(l)) = l
  BY Extended
<1>2. Len(l) \in Nat /\ Len(p) \in Nat \ {0}
  BY EmptySeq, LenProperties
<1>3. LastTurn(l) \in Nat
  <2>1. l # <<>> => l[Len(l)] \in Event
    BY <1>2
  <2>. QED
    BY <2>1 DEF LastTurn, Event
<1>4. Book!LastTurn(l) = LastTurn(l) /\ Book!LastTurn(m) = LastTurn(m)
  BY DEF Book!LastTurn, LastTurn
<1>. HIDE DEF m
<1>5. Book!Continues(l, m)
  BY <1>1, <1>2, <1>3, <1>4 DEF Book!Continues
<1>. QED
  BY <1>5 DEF m

\* A request begins: its session is settled.
LEMMA Begins ==
    ASSUME TypeOK, AloneInv, NEW w \in Workers, OthersIdle(w), At(w, "idle"),
           NEW r \in Pending, r.pc \in {"commit", "check", "save"}, r.s \in live,
           req' = [req EXCEPT ![w] = r],
           UNCHANGED <<live, state, log, saved>>,
           RequestFits(r, state[r.s], log[r.s]),
           r.pc = "check" => r.next.turn <= LastTurn(log[r.s]) + 1 /\ Len(r.pending) <= 3,
           r.pc = "check" => TalkTold(r.pending)
    PROVE  /\ OneRequest' /\ RequestsFit' /\ SessionsFit' /\ SavedFits'
           /\ BookStep
<1>. DEFINE q == req[w]
            s == r.s
<1>1. q.pc = "idle" /\ s \in Sessions
  BY DEF At, TypeOK
<1>2. Kept(q) => Kept(r)'
  <2>1. RequestKept(r)'
    BY DEF RequestKept
  <2>2. ASSUME NEW u \in Sessions, SessionKept(q, u)
        PROVE  SessionKept(r, u)'
    BY <1>1, <2>2 DEF SessionKept
  <2>. QED
    BY <2>1, <2>2 DEF Kept
<1>3. /\ OneRequest' /\ RequestsFit' /\ SessionsFit'
      /\ \A u \in Sessions : /\ Told(u) = ToldBy(q, u) /\ Shown(u) = ShownBy(q, u)
                             /\ Told(u)' = ToldBy(r, u)' /\ Shown(u)' = ShownBy(r, u)'
  <2>. HIDE DEF q
  <2>1. q = req[w]
    BY DEF q
  <2>. QED
    BY <1>2, <2>1, Moves
<1>4. \A u \in Sessions : Told(u) = log[u] /\ Shown(u) = state[u]
  BY <1>1, <1>3 DEF ToldBy, ShownBy
<1>5. ASSUME r.pc = "check"
      PROVE  BookStep
  <2>1. /\ Continuing(r, log[s]) /\ (r.write \/ state[s] = r.next)
    BY <1>5 DEF RequestFits
  <2>2. Told(s)' = log[s] \o r.pending /\ Shown(s)' = r.next
    BY <1>1, <1>3, <1>5, <2>1 DEF ToldBy, ShownBy
  <2>3. Shown(s)' = Replay(Told(s)')
    BY <2>1, <2>2 DEF Continuing
  <2>4. Book!Continues(log[s], log[s] \o r.pending)
    <3>1. /\ log[s] \in Seq(Event) /\ r.pending \in Seq(Event) /\ r.pending # <<>>
          /\ r.next.turn \in Nat
      BY <1>1, <1>5 DEF TypeOK, Pending, State
    <3>2. Ordered(log[s])
      BY <1>1 DEF AloneInv, SessionsFit
    <3>. QED
      BY <1>5, <2>1, <3>1, <3>2, BookContinues DEF Continuing
  <2>5. \A u \in Sessions \ {s} : SameBook(u)
    BY <1>3, <1>4 DEF ToldBy, ShownBy, SameBook
  <2>6. \E p \in Seq(Event) : Told(s)' = Told(s) \o p /\ TalkTold(p)
    <3>1. PICK p : p = r.pending
      OBVIOUS
    <3>2. p \in Seq(Event) /\ TalkTold(p)
      BY <1>5, <3>1 DEF Pending
    <3>3. Told(s)' = Told(s) \o p
      BY <1>1, <1>4, <2>2, <3>1, Zenon
    <3>. QED
      BY <3>2, <3>3
  <2>7. Tells(s)
    BY <1>1, <1>4, <2>2, <2>3, <2>4, <2>5, <2>6 DEF Tells
  <2>. QED
    BY <1>1, <2>7 DEF BookStep
<1>6. ASSUME r.pc # "check"
      PROVE  BookStep
  <2>1. \A u \in Sessions : SameBook(u)
    BY <1>3, <1>4, <1>6 DEF ToldBy, ShownBy, SameBook
  <2>. QED
    BY <2>1 DEF BookStep, Same
<1>. QED
  BY <1>3, <1>5, <1>6 DEF AloneInv, SavedFits

\* self.state = next_state
LEMMA Commits ==
    ASSUME TypeOK, AloneInv, NEW w \in Workers, OthersIdle(w), Commit(w)
    PROVE  /\ OneRequest' /\ RequestsFit' /\ SessionsFit' /\ SavedFits'
           /\ BookStep
<1>1. PICK q : q = req[w]
  OBVIOUS
<1>. DEFINE s == q.s
<1>2. /\ q.pc = "commit" /\ q \in Pending /\ s \in Sessions /\ s \in live
      /\ RequestFits(q, state[s], log[s])
  <2>1. q.pc = "commit" /\ w \in Busy
    BY <1>1 DEF Commit, At, Busy
  <2>2. q \in {Idle} \cup Pending
    BY <1>1 DEF TypeOK
  <2>3. q # Idle
    BY <2>1 DEF Idle
  <2>. QED
    BY <1>1, <2>1, <2>2, <2>3 DEF AloneInv, RequestsFit, TypeOK
<1>3. /\ Continuing(q, log[s])
      /\ q.next.turn <= LastTurn(log[s]) + 1 /\ Len(q.pending) <= 3
  BY <1>2 DEF RequestFits
<1>4. /\ q.next \in State /\ q.pending \in Seq(Event) /\ q.pending # <<>> /\ q.next.turn \in Nat
  BY <1>2 DEF Pending, State
<1>5. PICK r : /\ req' = [req EXCEPT ![w] = r]
               /\ r = [pc |-> "check", s |-> s, pending |-> q.pending, next |-> q.next, write |-> FALSE]
  BY <1>1 DEF Commit, Appending, Goto
<1>6. /\ r.pc = "check" /\ r.s = s /\ r.pending = q.pending /\ r.next = q.next /\ ~r.write
  BY <1>5
<1>7. /\ state'[s] = q.next /\ \A u \in Sessions \ {s} : state'[u] = state[u]
      /\ UNCHANGED <<live, log, saved>>
  BY <1>1, <1>2 DEF TypeOK, Commit
<1>8. Kept(q) => Kept(r)'
  <2>1. RequestKept(r)'
    <3>1. Continuing(r, log[s]) /\ state'[s] = r.next
      BY <1>3, <1>6, <1>7 DEF Continuing
    <3>. QED
      BY <1>2, <1>6, <1>7, <3>1 DEF RequestKept, RequestFits
  <2>2. ASSUME NEW u \in Sessions, SessionKept(q, u)
        PROVE  SessionKept(r, u)'
    BY <1>2, <1>6, <1>7, <2>2 DEF SessionKept
  <2>. QED
    BY <2>1, <2>2 DEF Kept
<1>9. /\ OneRequest' /\ RequestsFit' /\ SessionsFit'
      /\ \A u \in Sessions : /\ Told(u) = ToldBy(q, u) /\ Shown(u) = ShownBy(q, u)
                             /\ Told(u)' = ToldBy(r, u)' /\ Shown(u)' = ShownBy(r, u)'
  BY <1>1, <1>5, <1>8, Moves
<1>10. ASSUME NEW u \in Sessions
       PROVE  /\ Told(u) = log[u] /\ Shown(u) = state[u] /\ Shown(u)' = state'[u]
              /\ Told(u)' = IF u = s THEN log[u] \o q.pending ELSE log[u]
  BY <1>2, <1>6, <1>7, <1>9 DEF ToldBy, ShownBy
<1>11. Book!Continues(log[s], log[s] \o q.pending)
  <2>1. log[s] \in Seq(Event) /\ Ordered(log[s])
    BY <1>2 DEF TypeOK, AloneInv, SessionsFit
  <2>. QED
    BY <1>3, <1>4, <2>1, BookContinues DEF Continuing
<1>12. Shown(s)' = Replay(Told(s)')
  BY <1>2, <1>3, <1>7, <1>10 DEF Continuing
<1>13. Tells(s)
  <2>1. Told(s) = log[s] /\ Told(s)' = log[s] \o q.pending
    BY <1>2, <1>10
  <2>2. Book!Continues(Told(s), Told(s)')
    BY <1>11, <2>1
  <2>4. \E p \in Seq(Event) : Told(s)' = Told(s) \o p /\ TalkTold(p)
    <3>1. PICK p \in Seq(Event) : p = q.pending
      BY <1>4
    <3>2. TalkTold(p)
      BY <1>2, <3>1 DEF RequestFits, TalkTold
    <3>3. Told(s)' = Told(s) \o p
      BY <2>1, <3>1, Zenon
    <3>. QED
      BY <3>2, <3>3
  <2>3. \A u \in Sessions \ {s} : SameBook(u)
    BY <1>7, <1>10 DEF SameBook
  <2>. QED
    BY <1>2, <1>7, <1>12, <2>2, <2>3, <2>4 DEF Tells
<1>. QED
  BY <1>2, <1>7, <1>9, <1>13 DEF BookStep, AloneInv, SavedFits

LEMMA Current ==
    ASSUME TypeOK, AloneInv, NEW w \in Workers, NEW q, q = req[w], q.pc # "idle"
    PROVE  /\ q \in Pending /\ q.s \in Sessions /\ q.s \in live
           /\ RequestFits(q, state[q.s], log[q.s])
           /\ log[q.s] \in Seq(Event) /\ Ordered(log[q.s])
           /\ q.next.turn \in Nat
           /\ q.pc \notin {"write", "save"} => q.pending \in Seq(Event) /\ q.pending # <<>>
<1>1. w \in Busy
  BY DEF Busy, At
<1>2. q \in Pending
  BY DEF TypeOK, Idle
<1>3. q.s \in Sessions /\ q.next \in State
  BY <1>2 DEF Pending
<1>4. q.pc \notin {"write", "save"} => q.pending \in Seq(Event) /\ q.pending # <<>>
  BY <1>2 DEF Pending
<1>. QED
  BY <1>1, <1>2, <1>3, <1>4 DEF AloneInv, RequestsFit, SessionsFit, TypeOK, State

\* The test of the latest turn never refuses.
LEMMA Tests ==
    ASSUME TypeOK, AloneInv, NEW w \in Workers, OthersIdle(w), AppendTest(w)
    PROVE  /\ OneRequest' /\ RequestsFit' /\ SessionsFit' /\ SavedFits'
           /\ BookStep
<1>1. PICK q : q = req[w]
  OBVIOUS
<1>. DEFINE s == q.s
<1>2. q.pc = "check"
  BY <1>1 DEF AppendTest, At
<1>3. /\ s \in Sessions /\ s \in live /\ RequestFits(q, state[s], log[s])
      /\ log[s] \in Seq(Event) /\ Ordered(log[s]) /\ q.next.turn \in Nat
      /\ q.pending \in Seq(Event) /\ q.pending # <<>>
  BY <1>1, <1>2, Current
<1>4. Continuing(q, log[s]) /\ (q.write \/ state[s] = q.next)
  BY <1>2, <1>3 DEF RequestFits
<1>5. ~Backwards(log[s], q.pending[1])
  <2>1. PICK l \in Seq(Event) : l = log[s]
    BY <1>3
  <2>2. PICK p \in Seq(Event) : p = q.pending
    BY <1>3
  <2>3. ~Backwards(l, p[1])
    BY <1>3, <1>4, <2>1, <2>2, Extended DEF Continuing
  <2>. QED
    BY <2>1, <2>2, <2>3
<1>6. PICK r : /\ req' = [req EXCEPT ![w] = r]
               /\ r = [pc |-> "append", s |-> s, pending |-> q.pending, next |-> q.next,
                       write |-> q.write]
  BY <1>1, <1>5 DEF AppendTest, Goto
<1>7. /\ r.pc = "append" /\ r.s = s /\ r.pending = q.pending /\ r.next = q.next
      /\ r.write = q.write
  BY <1>6
<1>8. UNCHANGED <<live, state, log, saved>>
  BY DEF AppendTest
<1>9. Kept(q) => Kept(r)'
  <2>1. RequestKept(r)'
    <3>1. Continuing(r, log[s]) /\ (r.write \/ state[s] = r.next)
      BY <1>4, <1>7 DEF Continuing
    <3>. QED
      BY <1>3, <1>7, <1>8, <3>1 DEF RequestKept, RequestFits
  <2>2. ASSUME NEW u \in Sessions, SessionKept(q, u)
        PROVE  SessionKept(r, u)'
    BY <1>2, <1>7, <1>8, <2>2 DEF SessionKept
  <2>. QED
    BY <2>1, <2>2 DEF Kept
<1>10. /\ OneRequest' /\ RequestsFit' /\ SessionsFit'
       /\ \A u \in Sessions : /\ Told(u) = ToldBy(q, u) /\ Shown(u) = ShownBy(q, u)
                              /\ Told(u)' = ToldBy(r, u)' /\ Shown(u)' = ShownBy(r, u)'
  <2>1. req' = [req EXCEPT ![w] = r]
    BY <1>6
  <2>. QED
    BY <1>1, <1>9, <2>1, Moves
<1>11. \A u \in Sessions : SameBook(u)
  BY <1>2, <1>7, <1>8, <1>10 DEF ToldBy, ShownBy, SameBook
<1>12. BookStep
  BY <1>8, <1>11 DEF BookStep, Same
<1>. QED
  BY <1>8, <1>10, <1>12 DEF AloneInv, SavedFits

\* game_loop.state = result.state
LEMMA Writes ==
    ASSUME TypeOK, AloneInv, NEW w \in Workers, OthersIdle(w), WriteState(w)
    PROVE  /\ OneRequest' /\ RequestsFit' /\ SessionsFit' /\ SavedFits'
           /\ BookStep
<1>1. PICK q : q = req[w]
  OBVIOUS
<1>. DEFINE s == q.s
<1>2. q.pc = "write"
  BY <1>1 DEF WriteState, At
<1>3. s \in Sessions /\ s \in live /\ RequestFits(q, state[s], log[s])
  BY <1>1, <1>2, Current
<1>4. q.next = Replay(log[s])
  BY <1>2, <1>3 DEF RequestFits
<1>5. req' = [req EXCEPT ![w] = Idle] /\ Idle.pc = "idle"
  BY DEF WriteState, Finish, Idle
<1>6. /\ state'[s] = q.next /\ \A u \in Sessions \ {s} : state'[u] = state[u]
      /\ UNCHANGED <<live, log, saved>>
  BY <1>1, <1>3 DEF TypeOK, WriteState
<1>7. Kept(q) => Kept(Idle)'
  <2>1. ASSUME NEW u \in Sessions, SessionKept(q, u)
        PROVE  SessionKept(Idle, u)'
    BY <1>2, <1>3, <1>4, <1>5, <1>6, <2>1 DEF SessionKept, Replay, LastTurn
  <2>. QED
    BY <1>5, <2>1 DEF Kept, RequestKept
<1>8. /\ OneRequest' /\ RequestsFit' /\ SessionsFit'
      /\ \A u \in Sessions : /\ Told(u) = ToldBy(q, u) /\ Shown(u) = ShownBy(q, u)
                             /\ Told(u)' = ToldBy(Idle, u)' /\ Shown(u)' = ShownBy(Idle, u)'
  BY <1>1, <1>5, <1>7, Moves
<1>9. \A u \in Sessions : SameBook(u)
  BY <1>2, <1>5, <1>6, <1>8 DEF ToldBy, ShownBy, SameBook
<1>. QED
  BY <1>6, <1>8, <1>9 DEF BookStep, Same, AloneInv, SavedFits

LEMMA Aborts ==
    ASSUME TypeOK, AloneInv, NEW w \in Workers, OthersIdle(w), Abort(w)
    PROVE  /\ OneRequest' /\ RequestsFit' /\ SessionsFit' /\ SavedFits'
           /\ BookStep
<1>1. PICK q : q = req[w]
  OBVIOUS
<1>2. q.pc = "commit"
  BY <1>1 DEF Abort, At
<1>3. req' = [req EXCEPT ![w] = Idle] /\ Idle.pc = "idle"
  BY DEF Abort, Finish, Idle
<1>4. UNCHANGED <<live, state, log, saved>>
  BY DEF Abort
<1>5. Kept(q) => Kept(Idle)'
  <2>1. ASSUME NEW u \in Sessions, SessionKept(q, u)
        PROVE  SessionKept(Idle, u)'
    BY <1>2, <1>3, <1>4, <2>1 DEF SessionKept
  <2>. QED
    BY <1>3, <2>1 DEF Kept, RequestKept
<1>6. /\ OneRequest' /\ RequestsFit' /\ SessionsFit'
      /\ \A u \in Sessions : /\ Told(u) = ToldBy(q, u) /\ Shown(u) = ShownBy(q, u)
                             /\ Told(u)' = ToldBy(Idle, u)' /\ Shown(u)' = ShownBy(Idle, u)'
  BY <1>1, <1>3, <1>5, Moves
<1>7. \A u \in Sessions : SameBook(u)
  BY <1>2, <1>3, <1>4, <1>6 DEF ToldBy, ShownBy, SameBook
<1>. QED
  BY <1>4, <1>6, <1>7 DEF BookStep, Same, AloneInv, SavedFits

\* save_game_loop has read the state; now it reads the log.
LEMMA KeepsStory ==
    ASSUME TypeOK, AloneInv, NEW w \in Workers, OthersIdle(w), ReadLog(w)
    PROVE  /\ OneRequest' /\ RequestsFit' /\ SessionsFit' /\ SavedFits'
           /\ BookStep
<1>1. PICK q : q = req[w]
  OBVIOUS
<1>. DEFINE s == q.s
<1>2. q.pc = "save"
  BY <1>1 DEF ReadLog, At
<1>3. s \in Sessions /\ s \in live /\ RequestFits(q, state[s], log[s]) /\ Ordered(log[s])
  BY <1>1, <1>2, Current
<1>4. q.next = Replay(log[s])
  BY <1>2, <1>3 DEF RequestFits
<1>5. req' = [req EXCEPT ![w] = Idle] /\ Idle.pc = "idle"
  BY DEF ReadLog, Finish, Idle
<1>6. /\ saved' = [state |-> q.next, log |-> log[s]]
      /\ UNCHANGED <<live, state, log>>
  BY <1>1 DEF ReadLog
<1>7. Kept(q) => Kept(Idle)'
  <2>1. ASSUME NEW u \in Sessions, SessionKept(q, u)
        PROVE  SessionKept(Idle, u)'
    BY <1>2, <1>5, <1>6, <2>1 DEF SessionKept
  <2>. QED
    BY <1>5, <2>1 DEF Kept, RequestKept
<1>8. /\ OneRequest' /\ RequestsFit' /\ SessionsFit'
      /\ \A u \in Sessions : /\ Told(u) = ToldBy(q, u) /\ Shown(u) = ShownBy(q, u)
                             /\ Told(u)' = ToldBy(Idle, u)' /\ Shown(u)' = ShownBy(Idle, u)'
  BY <1>1, <1>5, <1>7, Moves
<1>9. \A u \in Sessions : SameBook(u)
  BY <1>2, <1>5, <1>6, <1>8 DEF ToldBy, ShownBy, SameBook
<1>10. Told(s) = log[s] /\ Shown(s) = state[s]
  BY <1>2, <1>3, <1>8 DEF ToldBy, ShownBy
<1>11. state[s] = Replay(log[s])
  <2>1. Kept(q)
    BY <1>1, SoleRequest DEF AloneInv, Sole
  <2>. QED
    BY <1>2, <1>3, <2>1 DEF Kept, SessionKept
<1>12. Keeps(s)
  BY <1>3, <1>4, <1>6, <1>9, <1>10, <1>11 DEF Keeps
<1>. QED
  BY <1>3, <1>4, <1>6, <1>8, <1>12 DEF BookStep, SavedFits

LEMMA FirstAndRest ==
    ASSUME NEW p \in Seq(Event), p # <<>>
    PROVE  <<p[1]>> \o Tail(p) = p
<1>1. /\ Len(p) \in Nat \ {0} /\ p[1] \in Event /\ Tail(p) \in Seq(Event)
      /\ Len(Tail(p)) = Len(p) - 1
      /\ \A k \in 1..Len(p) - 1 : Tail(p)[k] = p[k + 1]
  BY HeadTailProperties, EmptySeq, LenProperties
<1>2. PICK c \in Seq(Event) : Len(c) = 1 /\ c[1] = p[1] /\ c = <<p[1]>>
  <2>1. <<p[1]>> \in Seq(Event) /\ Len(<<p[1]>>) = 1 /\ <<p[1]>>[1] = p[1]
    BY <1>1
  <2>. QED
    BY <2>1, Zenon
<1>3. PICK t \in Seq(Event) : t = Tail(p) /\ Len(t) = Len(p) - 1
  BY <1>1
<1>4. /\ c \o t \in Seq(Event) /\ Len(c \o t) = Len(c) + Len(t)
      /\ \A k \in 1..Len(c) + Len(t) : (c \o t)[k] = IF k <= Len(c) THEN c[k] ELSE t[k - Len(c)]
  BY ConcatProperties
<1>5. ASSUME NEW k \in 1..Len(p)
      PROVE  (c \o t)[k] = p[k]
  <2>1. k \in 1..Len(c) + Len(t)
    BY <1>1, <1>2, <1>3
  <2>2. CASE k = 1
    BY <1>2, <1>4, <2>1, <2>2
  <2>3. CASE k # 1
    <3>1. k - 1 \in 1..Len(p) - 1 /\ (k - 1) + 1 = k /\ ~(k <= 1)
      BY <1>1, <2>3
    <3>2. t[k - 1] = p[k]
      BY <1>1, <1>3, <3>1
    <3>. QED
      BY <1>2, <1>4, <2>1, <3>1, <3>2
  <2>. QED
    BY <2>2, <2>3
<1>6. Len(c \o t) = Len(p)
  BY <1>1, <1>2, <1>3, <1>4
<1>7. PICK m \in Seq(Event) : m = c \o t
  BY <1>4
<1>8. m = p
  BY <1>5, <1>6, <1>7, SeqEqual
<1>. QED
  BY <1>2, <1>3, <1>7, <1>8

LEMMA AppendFirst ==
    ASSUME NEW l \in Seq(Event), NEW p \in Seq(Event), p # <<>>
    PROVE  /\ p[1] \in Event /\ 1 \in DOMAIN p
           /\ Append(l, p[1]) \in Seq(Event) /\ Tail(p) \in Seq(Event)
           /\ Append(l, p[1]) \o Tail(p) = l \o p
           /\ \A k \in DOMAIN Tail(p) : k + 1 \in DOMAIN p /\ Tail(p)[k] = p[k + 1]
<1>1. /\ Len(p) \in Nat \ {0} /\ DOMAIN p = 1..Len(p)
      /\ p[1] \in Event /\ Tail(p) \in Seq(Event)
      /\ Len(Tail(p)) = Len(p) - 1 /\ DOMAIN Tail(p) = 1..Len(p) - 1
      /\ \A k \in 1..Len(p) - 1 : Tail(p)[k] = p[k + 1]
  BY HeadTailProperties, EmptySeq, LenProperties
<1>2. PICK e \in Event : e = p[1]
  BY <1>1
<1>3. PICK t \in Seq(Event) : t = Tail(p)
  BY <1>1
<1>4. <<e>> \o t = p
  BY <1>2, <1>3, FirstAndRest
<1>5. Append(l, e) = l \o <<e>> /\ <<e>> \in Seq(Event)
  BY AppendIsConcat
<1>6. (l \o <<e>>) \o t = l \o (<<e>> \o t)
  BY <1>5, ConcatAssociative
<1>7. Append(l, e) \o t = l \o p
  BY <1>4, <1>5, <1>6
<1>8. Append(l, e) \in Seq(Event)
  OBVIOUS
<1>9. \A k \in 1..Len(p) - 1 : k + 1 \in 1..Len(p)
  BY <1>1
<1>. QED
  BY <1>1, <1>2, <1>3, <1>7, <1>8, <1>9

\* EventLog.append
LEMMA Appends ==
    ASSUME TypeOK, AloneInv, NEW w \in Workers, OthersIdle(w), AppendEvent(w)
    PROVE  /\ OneRequest' /\ RequestsFit' /\ SessionsFit' /\ SavedFits'
           /\ BookStep
<1>1. PICK q : q = req[w]
  OBVIOUS
<1>. DEFINE s == q.s
            p == q.pending
<1>2. q.pc = "append"
  BY <1>1 DEF AppendEvent, At
<1>3. /\ s \in Sessions /\ s \in live /\ RequestFits(q, state[s], log[s])
      /\ log[s] \in Seq(Event) /\ Ordered(log[s]) /\ q.next.turn \in Nat
      /\ p \in Seq(Event) /\ p # <<>>
  BY <1>1, <1>2, Current
<1>. HIDE DEF p
<1>4. PICK l \in Seq(Event) : l = log[s]
  BY <1>3
<1>5. /\ \A k \in DOMAIN p : p[k].turn = q.next.turn
      /\ LastTurn(l) <= q.next.turn /\ q.next = Replay(l \o p)
      /\ q.write \/ state[s] = q.next
      /\ Ordered(l)
  BY <1>2, <1>3, <1>4 DEF RequestFits, Continuing, p
<1>6. PICK a \in Seq(Event), rest \in Seq(Event), e \in Event :
         a = Append(l, e) /\ rest = Tail(p) /\ e = p[1]
  BY <1>3, AppendFirst
<1>7. PICK m \in Seq(Event) : m = l \o p
  BY <1>3, Concat
<1>8. /\ a \o rest = m
      /\ \A k \in DOMAIN rest : rest[k].turn = q.next.turn
      /\ e.turn = q.next.turn
  <2>1. Append(l, p[1]) \o Tail(p) = l \o p
    BY <1>3, AppendFirst
  <2>2. /\ 1 \in DOMAIN p
        /\ \A k \in DOMAIN Tail(p) : k + 1 \in DOMAIN p /\ Tail(p)[k] = p[k + 1]
    BY <1>3, AppendFirst
  <2>3. a \o rest = m
    BY <1>6, <1>7, <2>1, Zenon
  <2>. QED
    BY <1>5, <1>6, <2>2, <2>3
<1>9. Ordered(a) /\ LastTurn(a) = q.next.turn
  <2>1. PICK c \in Seq(Event) : c = <<e>> /\ c # <<>> /\ \A k \in DOMAIN c : c[k] = e
    <3>1. <<e>> \in Seq(Event) /\ <<e>> # <<>> /\ \A k \in DOMAIN <<e>> : <<e>>[k] = e
      OBVIOUS
    <3>. QED
      BY <3>1, Zenon
  <2>2. a = l \o c
    BY <1>6, <2>1, AppendIsConcat
  <2>3. \A k \in DOMAIN c : c[k].turn = q.next.turn
    BY <1>8, <2>1
  <2>4. Ordered(l \o c) /\ LastTurn(l \o c) = q.next.turn
    <3>1. PICK t \in Nat : t = q.next.turn
      BY <1>3
    <3>2. Ordered(l) /\ c # <<>> /\ (\A k \in DOMAIN c : c[k].turn = t) /\ LastTurn(l) <= t
      BY <1>5, <2>1, <2>3, <3>1
    <3>3. Ordered(l \o c) /\ LastTurn(l \o c) = t
      BY <3>2, Extended
    <3>. QED
      BY <3>1, <3>3
  <2>. QED
    BY <2>2, <2>4
<1>10. q.next = Replay(m)
  BY <1>5, <1>7, Zenon
<1>11. PICK r : /\ req' = [req EXCEPT ![w] = r]
                /\ r = IF rest # <<>>
                       THEN [pc |-> "check", s |-> s, pending |-> rest, next |-> q.next,
                             write |-> q.write]
                       ELSE IF q.write THEN [pc |-> "write", s |-> s, next |-> q.next]
                       ELSE Idle
  BY <1>1, <1>6 DEF AppendEvent, Appending, Goto, Finish, p
<1>12. /\ rest # <<>> => /\ r.pc = "check" /\ r.s = s /\ r.pending = rest /\ r.next = q.next
                         /\ r.write = q.write
       /\ rest = <<>> /\ q.write => r.pc = "write" /\ r.s = s /\ r.next = q.next
       /\ rest = <<>> /\ ~q.write => r.pc = "idle"
       /\ req' = [req EXCEPT ![w] = r]
  BY <1>11 DEF Idle
<1>13. /\ log'[s] = a /\ \A u \in Sessions \ {s} : log'[u] = log[u]
       /\ UNCHANGED <<live, state, saved>>
  <2>1. log' = [log EXCEPT ![s] = Append(log[s], p[1])] /\ UNCHANGED <<live, state, saved>>
    BY <1>1 DEF AppendEvent, p
  <2>. QED
    BY <1>3, <1>4, <1>6, <2>1 DEF TypeOK
<1>14. rest = <<>> => a = m
  BY <1>8, ConcatEmptySeq
<1>15. Kept(q) => Kept(r)'
  <2>1. RequestKept(r)'
    <3>1. CASE rest # <<>>
      <4>1. Continuing(r, a) /\ (r.write \/ state[s] = r.next)
        <5>1. r.next = Replay(a \o r.pending)
          <6>1. r.next = q.next /\ r.pending = rest
            BY <1>12, <3>1
          <6>. QED
            BY <1>8, <1>10, <6>1, Zenon
        <5>2. /\ \A k \in DOMAIN r.pending : r.pending[k].turn = r.next.turn
              /\ r.write \/ state[s] = r.next
          BY <1>5, <1>8, <1>12, <3>1
        <5>3. LastTurn(a) <= r.next.turn
          BY <1>3, <1>9, <1>12, <3>1
        <5>. QED
          BY <5>1, <5>2, <5>3, Zenon DEF Continuing
      <4>. QED
        BY <1>3, <1>12, <1>13, <3>1, <4>1 DEF RequestKept, RequestFits
    <3>2. CASE rest = <<>> /\ q.write
      BY <1>3, <1>10, <1>12, <1>13, <1>14, <3>2 DEF RequestKept, RequestFits
    <3>3. CASE rest = <<>> /\ ~q.write
      BY <1>12, <3>3 DEF RequestKept
    <3>. QED
      BY <3>1, <3>2, <3>3
  <2>2. ASSUME NEW u \in Sessions \ {s}, SessionKept(q, u)
        PROVE  SessionKept(r, u)'
    BY <1>12, <1>13, <2>2 DEF SessionKept
  <2>3. SessionKept(r, s)'
    <3>1. rest = <<>> /\ ~q.write => state[s] = Replay(a)
      BY <1>5, <1>10, <1>14
    <3>. QED
      BY <1>3, <1>9, <1>12, <1>13, <3>1 DEF SessionKept
  <2>. QED
    BY <2>1, <2>2, <2>3 DEF Kept
<1>16. /\ OneRequest' /\ RequestsFit' /\ SessionsFit'
       /\ \A u \in Sessions : /\ Told(u) = ToldBy(q, u) /\ Shown(u) = ShownBy(q, u)
                              /\ Told(u)' = ToldBy(r, u)' /\ Shown(u)' = ShownBy(r, u)'
  <2>1. req' = [req EXCEPT ![w] = r]
    BY <1>12
  <2>. QED
    BY <1>1, <1>15, <2>1, Moves
<1>17. ASSUME NEW u \in Sessions \ {s}
       PROVE  SameBook(u)
  <2>1. r.pc # "idle" => r.s = s
    BY <1>12
  <2>2. /\ Told(u) = log[u] /\ Shown(u) = state[u]
        /\ Told(u)' = log'[u] /\ Shown(u)' = state'[u]
    BY <1>2, <1>16, <2>1 DEF ToldBy, ShownBy
  <2>. QED
    BY <1>13, <2>2 DEF SameBook
<1>18. Told(s)' = Told(s)
  <2>1. Told(s) = m
    <3>1. Told(s) = log[s] \o q.pending
      BY <1>2, <1>3, <1>16 DEF ToldBy
    <3>. QED
      BY <1>4, <1>7, <3>1, Zenon DEF p
  <2>2. Told(s)' = IF rest # <<>> THEN a \o rest ELSE a
    BY <1>3, <1>12, <1>13, <1>16 DEF ToldBy
  <2>. QED
    BY <1>8, <1>14, <2>1, <2>2
<1>19. Shown(s)' = Shown(s)
  <2>1. Shown(s) = IF q.write THEN q.next ELSE state[s]
    BY <1>2, <1>3, <1>16 DEF ShownBy
  <2>2. Shown(s)' = IF q.write THEN q.next ELSE state[s]
    BY <1>3, <1>12, <1>13, <1>16 DEF ShownBy
  <2>. QED
    BY <2>1, <2>2
<1>20. BookStep
  BY <1>13, <1>17, <1>18, <1>19 DEF BookStep, Same, SameBook
<1>. QED
  BY <1>13, <1>16, <1>20 DEF AloneInv, SavedFits

\* Between the requests every session is settled.
LEMMA Calm ==
    ASSUME TypeOK, AloneInv, NEW w \in Workers, OthersIdle(w), At(w, "idle"), NEW s \in Sessions
    PROVE  /\ log[s] \in Seq(Event) /\ Ordered(log[s])
           /\ state[s] \in State /\ state[s] = Replay(log[s])
           /\ state[s].turn = LastTurn(log[s]) /\ state[s].turn \in Nat
           /\ state[s].applied = ChangingIds(log[s]) /\ state[s].applied \in Seq(Nat)
<1>1. Kept(req[w])
  BY SoleRequest DEF AloneInv, Sole
<1>2. state[s] = Replay(log[s]) /\ Ordered(log[s])
  BY <1>1 DEF Kept, SessionKept, At
<1>3. log[s] \in Seq(Event) /\ state[s] \in State
  BY DEF TypeOK
<1>. QED
  BY <1>2, <1>3 DEF Replay, State

LEMMA OneReplay ==
    ASSUME NEW l \in Seq(Event), Ordered(l), NEW e \in Event, LastTurn(l) <= e.turn
    PROVE  Replay(l \o <<e>>) =
               [turn |-> e.turn,
                applied |-> IF e.changes THEN Append(ChangingIds(l), e.id) ELSE ChangingIds(l)]
<1>1. PICK p \in Seq(Event) : p = <<e>> /\ p # <<>> /\ \A k \in DOMAIN p : p[k] = e
  <2>1. <<e>> \in Seq(Event) /\ <<e>> # <<>> /\ \A k \in DOMAIN <<e>> : <<e>>[k] = e
    OBVIOUS
  <2>. QED
    BY <2>1, Zenon
<1>2. PICK t \in Nat : t = e.turn
  BY DEF Event
<1>3. LastTurn(l \o p) = t
  <2>1. (\A k \in DOMAIN p : p[k].turn = t) /\ LastTurn(l) <= t
    BY <1>1, <1>2
  <2>2. p # <<>>
    BY <1>1
  <2>. QED
    BY <2>1, <2>2, Extended
<1>4. l \o <<e>> = Append(l, e)
  BY AppendIsConcat
<1>5. ChangingIds(l \o p) = IF e.changes THEN Append(ChangingIds(l), e.id) ELSE ChangingIds(l)
  BY <1>1, <1>4, ChangesAppend
<1>. QED
  BY <1>1, <1>2, <1>3, <1>5 DEF Replay

\* A request of one event, of the turn of the state.
LEMMA BeginsOne ==
    ASSUME TypeOK, AloneInv, NEW w \in Workers, OthersIdle(w), At(w, "idle"),
           NEW s \in Sessions, s \in live, NEW e \in Event, e.turn = state[s].turn,
           NEW write \in BOOLEAN, write \/ ~e.changes,
           NEW next \in State, next.turn = state[s].turn,
           next.applied = IF e.changes THEN Append(state[s].applied, e.id) ELSE state[s].applied,
           Appending(w, s, <<e>>, next, write), TalkTold(<<e>>),
           UNCHANGED <<live, state, log, saved>>
    PROVE  /\ OneRequest' /\ RequestsFit' /\ SessionsFit' /\ SavedFits'
           /\ BookStep
<1>1. PICK l \in Seq(Event) : l = log[s] /\ Ordered(l)
  BY Calm
<1>2. /\ state[s] \in State /\ state[s].turn = LastTurn(l) /\ state[s].turn \in Nat
      /\ state[s].applied = ChangingIds(l)
  BY <1>1, Calm
<1>3. next = [turn |-> e.turn,
              applied |-> IF e.changes THEN Append(ChangingIds(l), e.id) ELSE ChangingIds(l)]
  BY <1>2 DEF State
<1>4. next = Replay(l \o <<e>>)
  <2>1. LastTurn(l) <= e.turn
    BY <1>2
  <2>2. Replay(l \o <<e>>) =
            [turn |-> e.turn,
             applied |-> IF e.changes THEN Append(ChangingIds(l), e.id) ELSE ChangingIds(l)]
    BY <1>1, <2>1, OneReplay
  <2>. QED
    BY <1>3, <2>2, Zenon
<1>5. PICK p \in Seq(Event) : /\ p = <<e>> /\ p # <<>> /\ Len(p) = 1
                              /\ \A k \in DOMAIN p : p[k] = e
  <2>1. <<e>> \in Seq(Event) /\ <<e>> # <<>> /\ Len(<<e>>) = 1
        /\ \A k \in DOMAIN <<e>> : <<e>>[k] = e
    OBVIOUS
  <2>. QED
    BY <2>1, Zenon
<1>6. PICK r : /\ req' = [req EXCEPT ![w] = r]
               /\ r = [pc |-> "check", s |-> s, pending |-> p, next |-> next, write |-> write]
  BY <1>5 DEF Appending, Goto
<1>7. /\ r \in Pending /\ r.pc = "check" /\ r.s = s /\ r.pending = p /\ r.next = next
      /\ r.write = write
  BY <1>5, <1>6 DEF Pending
<1>8. Continuing(r, l)
  <2>1. \A k \in DOMAIN r.pending : r.pending[k].turn = r.next.turn
    BY <1>5, <1>7
  <2>2. LastTurn(l) <= r.next.turn
    BY <1>2, <1>7
  <2>3. r.next = Replay(l \o r.pending)
    BY <1>4, <1>5, <1>7, Zenon
  <2>. QED
    BY <2>1, <2>2, <2>3, Zenon DEF Continuing
<1>9. r.write \/ state[s] = r.next
  <2>1. ASSUME ~e.changes
        PROVE  state[s] = next
    <3>1. state[s] = [turn |-> LastTurn(l), applied |-> ChangingIds(l)]
      BY <1>1, Calm DEF Replay
    <3>. QED
      BY <1>2, <1>3, <2>1, <3>1
  <2>. QED
    BY <1>7, <2>1
<1>10. RequestFits(r, state[r.s], log[r.s])
  BY <1>1, <1>7, <1>8, <1>9 DEF RequestFits
<1>11. r.next.turn <= LastTurn(log[r.s]) + 1 /\ Len(r.pending) <= 3
  BY <1>1, <1>2, <1>5, <1>7
<1>12. req' = [req EXCEPT ![w] = r] /\ TalkTold(r.pending)
  BY <1>5, <1>6, <1>7, Zenon
<1>. QED
  BY <1>7, <1>10, <1>11, <1>12, Begins

LEMMA BeginsNoop ==
    ASSUME TypeOK, AloneInv, NEW w \in Workers, OthersIdle(w), NEW s \in Sessions, Noop(w, s)
    PROVE  /\ OneRequest' /\ RequestsFit' /\ SessionsFit' /\ SavedFits'
           /\ BookStep
<1>1. At(w, "idle") /\ s \in live /\ UNCHANGED <<live, state, log, saved>>
  BY DEF Noop
<1>2. state[s] \in State /\ state[s].turn \in Nat
  BY <1>1, Calm
<1>3. PICK e \in Event : e = NewEvent(nextId, state[s].turn, "noop", FALSE)
  BY <1>2 DEF NewEvent, Event, Kinds, TypeOK
<1>4. e.turn = state[s].turn /\ ~e.changes
  BY <1>3 DEF NewEvent
<1>5. PICK n \in State : n = state[s]
  BY <1>2
<1>6. Appending(w, s, <<e>>, n, FALSE)
  BY <1>3, <1>5, Zenon DEF Noop
<1>7. TalkTold(<<e>>)
  BY <1>3 DEF TalkTold, NewEvent
<1>. QED
  BY <1>1, <1>4, <1>5, <1>6, <1>7, BeginsOne

LEMMA OneTalkEvent ==
    ASSUME TypeOK, NEW s \in Sessions, NEW t \in Talks, NEW kind \in {"start", "talk", "end"},
           NEW changes \in BOOLEAN
    PROVE  \E e \in Event : /\ TalkEvent(s, t, kind, changes) = <<e>>
                            /\ e.turn = state[s].turn /\ e.changes = changes /\ e.id = nextId
                            /\ e.kind = kind /\ e.talk = t
<1>1. PICK e : e = [id |-> nextId, turn |-> state[s].turn, kind |-> kind, changes |-> changes,
                    talk |-> t]
  OBVIOUS
<1>2. state[s].turn \in Nat /\ nextId \in Nat
  BY DEF TypeOK, State
<1>3. e \in Event
  BY <1>1, <1>2 DEF Event, Kinds
<1>4. TalkEvent(s, t, kind, changes) = <<e>>
  BY <1>1 DEF TalkEvent
<1>5. /\ e.turn = state[s].turn /\ e.changes = changes /\ e.id = nextId
      /\ e.kind = kind /\ e.talk = t
  BY <1>1
<1>. QED
  BY <1>3, <1>4, <1>5, Zenon

LEMMA BeginsTalk ==
    ASSUME TypeOK, AloneInv, NEW w \in Workers, OthersIdle(w),
           NEW s \in Sessions, NEW t \in Talks, NEW group \in BOOLEAN, StartTalk(w, s, t, group)
    PROVE  /\ OneRequest' /\ RequestsFit' /\ SessionsFit' /\ SavedFits'
           /\ BookStep
<1>1. At(w, "idle") /\ s \in live /\ UNCHANGED <<live, state, log, saved>>
  BY DEF StartTalk
<1>2. state[s] \in State /\ state[s].turn \in Nat
  BY <1>1, Calm
<1>3. PICK e \in Event : /\ TalkEvent(s, t, "start", FALSE) = <<e>>
                         /\ e.turn = state[s].turn /\ e.changes = FALSE /\ e.id = nextId
                         /\ e.kind = "start" /\ e.talk = t
  <2>1. PICK no \in BOOLEAN : no = FALSE
    OBVIOUS
  <2>2. \E e \in Event : /\ TalkEvent(s, t, "start", no) = <<e>>
                         /\ e.turn = state[s].turn /\ e.changes = no /\ e.id = nextId
                         /\ e.kind = "start" /\ e.talk = t
    BY OneTalkEvent
  <2>. QED
    BY <2>1, <2>2
<1>4. PICK n \in State : n = state[s]
  BY <1>2
<1>5. Appending(w, s, <<e>>, n, FALSE)
  BY <1>3, <1>4, Zenon DEF StartTalk
<1>6. TalkTold(<<e>>)
  <2>1. talks[t].status = "none" /\ talks'[t].status # "none"
    BY DEF StartTalk, TypeOK
  <2>. QED
    BY <1>3, <2>1, Zenon DEF TalkTold
<1>. QED
  BY <1>1, <1>3, <1>4, <1>5, <1>6, BeginsOne

\* LeaveTalk and EndTalk
LEMMA BeginsEnd ==
    ASSUME TypeOK, AloneInv, NEW w \in Workers, OthersIdle(w),
           NEW t \in Talks, LeaveTalk(w, t) \/ EndTalk(w, t)
    PROVE  /\ OneRequest' /\ RequestsFit' /\ SessionsFit' /\ SavedFits'
           /\ BookStep
<1>1. At(w, "idle") /\ talks[t].status # "none" /\ UNCHANGED <<live, state, log, saved>>
  BY DEF LeaveTalk, EndTalk, MayContinue
<1>2. PICK s \in Sessions : s = talks[t].s /\ s \in live
  BY <1>1 DEF AloneInv, TalksLive, TypeOK
<1>3. state[s] \in State /\ state[s].turn \in Nat
  BY <1>1, Calm
<1>4. PICK e \in Event : /\ TalkEvent(s, t, "end", FALSE) = <<e>>
                         /\ e.turn = state[s].turn /\ e.changes = FALSE /\ e.id = nextId
                         /\ e.kind = "end" /\ e.talk = t
  <2>1. PICK no \in BOOLEAN : no = FALSE
    OBVIOUS
  <2>2. \E e \in Event : /\ TalkEvent(s, t, "end", no) = <<e>>
                         /\ e.turn = state[s].turn /\ e.changes = no /\ e.id = nextId
                         /\ e.kind = "end" /\ e.talk = t
    BY OneTalkEvent
  <2>. QED
    BY <2>1, <2>2
<1>5. PICK n \in State : n = state[s]
  BY <1>3
<1>6. PICK write \in BOOLEAN : Appending(w, s, <<e>>, n, write)
  BY <1>2, <1>4, <1>5, Zenon DEF LeaveTalk, EndTalk
<1>7. TalkTold(<<e>>)
  <2>1. talks' = [talks EXCEPT ![t] = Ended(t)]
    BY DEF LeaveTalk, EndTalk
  <2>2. talks'[t].status = "ended"
    BY <2>1 DEF Ended, TypeOK
  <2>. QED
    BY <1>4, <2>2, Zenon DEF TalkTold
<1>. QED
  BY <1>1, <1>2, <1>4, <1>5, <1>6, <1>7, BeginsOne

LEMMA BeginsLine ==
    ASSUME TypeOK, AloneInv, NEW w \in Workers, OthersIdle(w),
           NEW t \in Talks, NEW changes \in BOOLEAN, ContinueTalk(w, t, changes)
    PROVE  /\ OneRequest' /\ RequestsFit' /\ SessionsFit' /\ SavedFits'
           /\ BookStep
<1>1. At(w, "idle") /\ talks[t].status = "active" /\ UNCHANGED <<live, state, log, saved>>
  BY DEF ContinueTalk, MayContinue
<1>2. PICK s \in Sessions : s = talks[t].s /\ s \in live
  BY <1>1 DEF AloneInv, TalksLive, TypeOK
<1>3. /\ state[s] \in State /\ state[s].turn \in Nat /\ state[s].applied \in Seq(Nat)
  BY <1>1, Calm
<1>4. PICK e \in Event : /\ TalkEvent(s, t, "talk", changes) = <<e>>
                         /\ e.turn = state[s].turn /\ e.changes = changes /\ e.id = nextId
                         /\ e.kind = "talk" /\ e.talk = t
  BY OneTalkEvent
<1>5. PICK n : n = [turn |-> state[s].turn,
                    applied |-> state[s].applied \o (IF changes THEN <<nextId>> ELSE <<>>)]
  OBVIOUS
<1>6. n.applied = IF changes THEN Append(state[s].applied, nextId) ELSE state[s].applied
  <2>1. nextId \in Nat
    BY DEF TypeOK
  <2>2. /\ state[s].applied \o <<nextId>> = Append(state[s].applied, nextId)
        /\ state[s].applied \o <<>> = state[s].applied
    BY <1>3, <2>1, AppendIsConcat, ConcatEmptySeq
  <2>. QED
    BY <1>5, <2>2
<1>7. n \in State /\ n.turn = state[s].turn
  <2>1. state[s].applied \in Seq(Nat) /\ nextId \in Nat
    BY <1>3 DEF TypeOK
  <2>2. n.applied \in Seq(Nat)
    BY <1>6, <2>1
  <2>. QED
    BY <1>3, <1>5, <2>2 DEF State
<1>8. talks[t].group \in BOOLEAN
  BY <1>1 DEF TypeOK, Talk
<1>9. PICK write \in BOOLEAN : write = ~talks[t].group /\ (write \/ ~changes)
  BY <1>8 DEF ContinueTalk
<1>10. Appending(w, s, <<e>>, n, write)
  BY <1>2, <1>4, <1>5, <1>9, Zenon DEF ContinueTalk
<1>11. TalkTold(<<e>>)
  BY <1>1, <1>4, Zenon DEF TalkTold
<1>. QED
  BY <1>1, <1>2, <1>4, <1>6, <1>7, <1>9, <1>10, <1>11, BeginsOne

\* GameLoop.step computes the next state.
LEMMA BeginsStep ==
    ASSUME TypeOK, AloneInv, NEW w \in Workers, OthersIdle(w), NEW s \in Sessions,
           NEW success \in BOOLEAN, NEW changed \in BOOLEAN, NEW tick \in BOOLEAN,
           NEW crime \in BOOLEAN, Resolve(w, s, success, changed, tick, crime)
    PROVE  /\ OneRequest' /\ RequestsFit' /\ SessionsFit' /\ SavedFits'
           /\ BookStep
<1>1. At(w, "idle") /\ s \in live /\ UNCHANGED <<live, state, log, saved>>
  BY DEF Resolve
<1>2. PICK l \in Seq(Event) : l = log[s] /\ Ordered(l)
  BY <1>1, Calm
<1>3. /\ state[s].turn = LastTurn(l) /\ state[s].turn \in Nat
      /\ state[s].applied = ChangingIds(l) /\ ChangingIds(l) \in Seq(Nat)
  BY <1>1, <1>2, Calm
<1>4. PICK t \in Nat : t = TurnAfter(state[s].turn, success)
  BY <1>3 DEF TurnAfter
<1>5. LastTurn(l) <= t /\ t <= LastTurn(l) + 1
  BY <1>3, <1>4 DEF TurnAfter
<1>6. PICK n \in Nat : n = nextId
  BY DEF TypeOK
<1>7. /\ StepEvents(n, t, changed, tick, crime) \in Seq(Event)
      /\ StepEvents(n, t, changed, tick, crime) # <<>>
      /\ \A k \in DOMAIN StepEvents(n, t, changed, tick, crime) :
            /\ StepEvents(n, t, changed, tick, crime)[k].turn = t
            /\ StepEvents(n, t, changed, tick, crime)[k].kind \in StepKinds
      /\ StepDeltas(n, changed, tick, crime) \in Seq(Nat)
  <2>. DEFINE evs == StepEvents(n, t, changed, tick, crime)
              ids == StepDeltas(n, changed, tick, crime)
  <2>1. /\ evs \in Seq(Event) /\ evs # <<>> /\ ids \in Seq(Nat)
    BY StepLogged
  <2>2. \A k \in DOMAIN evs : evs[k].turn = t /\ evs[k].kind \in StepKinds
    BY StepLogged
  <2>. QED
    BY <2>1, <2>2
<1>8. PICK p \in Seq(Event), d \in Seq(Nat) :
          /\ p = StepEvents(n, t, changed, tick, crime)
          /\ d = StepDeltas(n, changed, tick, crime)
          /\ ChangingIds(l \o p) = ChangingIds(l) \o d
          /\ Len(p) <= 3
  <2>1. EventsFitDeltas(l, n, t, changed, tick, crime)
    BY StepReplays
  <2>. QED
    BY <2>1, Zenon DEF EventsFitDeltas
<1>9. p = StepEvents(n, t, changed, tick, crime) /\ d = StepDeltas(n, changed, tick, crime)
  BY <1>8, Zenon
<1>10. /\ p # <<>> /\ \A k \in DOMAIN p : p[k].turn = t /\ p[k].kind \in StepKinds
  BY <1>7, <1>9
<1>11. ChangingIds(l \o p) = ChangingIds(l) \o d
  BY <1>8, Zenon
<1>12. Len(p) <= 3
  BY <1>8, Zenon
<1>13. LastTurn(l \o p) = t
  <2>1. Ordered(l) /\ p # <<>> /\ LastTurn(l) <= t /\ \A k \in DOMAIN p : p[k].turn = t
    BY <1>2, <1>5, <1>10
  <2>. QED
    BY <2>1, Extended
<1>14. PICK next : next = [turn |-> t, applied |-> ChangingIds(l) \o d]
  OBVIOUS
<1>15. next = Replay(l \o p)
  BY <1>11, <1>13, <1>14, Zenon DEF Replay
<1>16. next \in State /\ next.turn = t
  <2>1. PICK ids \in Seq(Nat) : ids = ChangingIds(l) \o d
    BY <1>3, Concat
  <2>. QED
    BY <1>14, <2>1 DEF State
<1>17. PICK r : /\ req' = [req EXCEPT ![w] = r]
                /\ r = [pc |-> "commit", s |-> s, next |-> next, pending |-> p]
  <2>1. req' = [req EXCEPT ![w] =
                   [pc |-> "commit", s |-> s,
                    next |-> [turn |-> t, applied |-> state[s].applied \o StepDeltas(nextId, changed, tick, crime)],
                    pending |-> StepEvents(nextId, EventTurn(state[s].turn, t), changed, tick, crime)]]
    BY <1>4, Zenon DEF Resolve, Goto
  <2>2. EventTurn(state[s].turn, t) = t
    BY DEF EventTurn
  <2>3. req' = [req EXCEPT ![w] = [pc |-> "commit", s |-> s, next |-> next, pending |-> p]]
    BY <1>3, <1>6, <1>9, <1>14, <2>1, <2>2, Zenon
  <2>. QED
    BY <2>3, Zenon
<1>18. /\ r \in Pending /\ r.pc = "commit" /\ r.s = s /\ r.pending = p /\ r.next = next
  BY <1>10, <1>16, <1>17 DEF Pending
<1>19. Continuing(r, l)
  <2>1. \A k \in DOMAIN r.pending : r.pending[k].turn = r.next.turn
    BY <1>10, <1>16, <1>18
  <2>2. LastTurn(l) <= r.next.turn
    BY <1>5, <1>16, <1>18
  <2>3. r.next = Replay(l \o r.pending)
    BY <1>15, <1>18, Zenon
  <2>. QED
    BY <2>1, <2>2, <2>3, Zenon DEF Continuing
<1>20. r.next.turn <= LastTurn(l) + 1 /\ Len(r.pending) <= 3
  <2>1. r.next.turn <= LastTurn(l) + 1
    BY <1>5, <1>16, <1>18
  <2>2. Len(r.pending) <= 3
    <3>1. Len(r.pending) = Len(p)
      BY <1>18, Zenon
    <3>2. Len(p) <= 3
      BY <1>12
    <3>. QED
      BY <3>1, <3>2
  <2>. QED
    BY <2>1, <2>2
<1>21. RequestFits(r, state[r.s], log[r.s])
  <2>1. \A k \in DOMAIN r.pending : r.pending[k].kind \in StepKinds
    BY <1>10, <1>18
  <2>. QED
    BY <1>2, <1>18, <1>19, <1>20, <2>1 DEF RequestFits
<1>22. req' = [req EXCEPT ![w] = r]
  BY <1>17
<1>. QED
  BY <1>1, <1>18, <1>21, <1>22, Begins

\* save_game_loop reads the state.
LEMMA BeginsSave ==
    ASSUME TypeOK, AloneInv, NEW w \in Workers, OthersIdle(w), NEW s \in Sessions, ReadState(w, s)
    PROVE  /\ OneRequest' /\ RequestsFit' /\ SessionsFit' /\ SavedFits'
           /\ BookStep
<1>1. At(w, "idle") /\ s \in live /\ UNCHANGED <<live, state, log, saved>>
  BY DEF ReadState
<1>2. state[s] \in State /\ state[s] = Replay(log[s])
  BY <1>1, Calm
<1>3. PICK r : /\ req' = [req EXCEPT ![w] = r]
               /\ r = [pc |-> "save", s |-> s, next |-> state[s]]
  BY DEF ReadState, Goto
<1>4. r \in Pending /\ r.pc = "save" /\ r.s = s /\ r.next = state[s]
  BY <1>2, <1>3 DEF Pending
<1>5. RequestFits(r, state[r.s], log[r.s])
  BY <1>2, <1>4 DEF RequestFits
<1>6. req' = [req EXCEPT ![w] = r]
  BY <1>3
<1>. QED
  BY <1>1, <1>4, <1>5, <1>6, Begins

\* Steps without a request: Told and Shown follow log and state.
LEMMA Untold ==
    ASSUME UNCHANGED req, NEW s \in Sessions, UNCHANGED <<log[s], state[s]>>
    PROVE  SameBook(s)
<1>1. Telling(s)' = Telling(s) /\ Showing(s)' = Showing(s)
  BY DEF Telling, Showing, Busy, At
<1>. QED
  BY <1>1 DEF SameBook, Told, Shown

LEMMA StartsStory ==
    ASSUME TypeOK, AloneInv, NEW s \in Sessions, StartGame(s)
    PROVE  /\ AloneInv' /\ BookStep
<1>1. /\ s \notin live /\ live' = live \cup {s}
      /\ UNCHANGED <<state, log, talks, saved, req>>
  BY DEF StartGame
<1>2. Busy' = Busy /\ OneRequest'
  BY <1>1 DEF Busy, At, AloneInv, OneRequest
<1>3. RequestsFit'
  BY <1>1, <1>2 DEF AloneInv, RequestsFit
<1>4. SessionsFit'
  <2>1. \A u \in Sessions : Settled(u)' <=> Settled(u)
    BY <1>1, <1>2 DEF Settled
  <2>. QED
    BY <1>1, <2>1 DEF AloneInv, SessionsFit
<1>5. TalksLive' /\ SavedFits'
  BY <1>1 DEF AloneInv, TalksLive, SavedFits
<1>6. \A u \in Sessions : SameBook(u)
  BY <1>1, Untold
<1>7. Starts(s)
  BY <1>1, <1>6 DEF Starts
<1>. QED
  BY <1>2, <1>3, <1>4, <1>5, <1>7 DEF AloneInv, BookStep

\* restore_session
LEMMA TakesUpStory ==
    ASSUME TypeOK, AloneInv, NEW s \in Sessions, Restore(s)
    PROVE  /\ AloneInv' /\ BookStep
<1>1. /\ s \notin live /\ saved # NoSave /\ Ordered(saved.log) /\ live' = live \cup {s}
      /\ UNCHANGED <<talks, saved, req>>
      /\ state' = [state EXCEPT ![s] = saved.state] /\ log' = [log EXCEPT ![s] = saved.log]
  BY DEF Restore
<1>2. /\ state'[s] = saved.state /\ log'[s] = saved.log
      /\ \A u \in Sessions \ {s} : state'[u] = state[u] /\ log'[u] = log[u]
  BY <1>1 DEF TypeOK
<1>3. Busy' = Busy /\ OneRequest'
  BY <1>1 DEF Busy, At, AloneInv, OneRequest
<1>4. \A w \in Busy : req[w].s \in live /\ req[w].s \in Sessions \ {s}
  BY <1>1 DEF AloneInv, RequestsFit, TypeOK
<1>5. RequestsFit'
  BY <1>1, <1>2, <1>3, <1>4 DEF AloneInv, RequestsFit
<1>6. SessionsFit'
  <2>1. \A u \in Sessions : Settled(u)' <=> Settled(u)
    BY <1>1, <1>3 DEF Settled
  <2>2. saved.state = Replay(saved.log)
    BY <1>1 DEF AloneInv, SavedFits
  <2>. QED
    BY <1>1, <1>2, <2>1, <2>2 DEF AloneInv, SessionsFit
<1>7. TalksLive' /\ SavedFits'
  BY <1>1 DEF AloneInv, TalksLive, SavedFits
<1>8. Told(s)' = saved.log /\ Shown(s)' = saved.state
  <2>1. Telling(s)' = {} /\ Showing(s)' = {}
    BY <1>1, <1>3, <1>4 DEF Telling, Showing
  <2>. QED
    BY <1>2, <2>1 DEF Told, Shown
<1>9. \A u \in Sessions \ {s} : SameBook(u)
  BY <1>1, <1>2, Untold
<1>10. TakesUp(s)
  BY <1>1, <1>8, <1>9 DEF TakesUp
<1>. QED
  BY <1>3, <1>5, <1>6, <1>7, <1>10 DEF AloneInv, BookStep

\* The requests, dialogues and stored snapshot after a step of worker w.
Goes == OneRequest' /\ RequestsFit' /\ SessionsFit' /\ SavedFits' /\ BookStep

LEMMA OnlyOne ==
    ASSUME AloneInv, OneAtATime, NEW w \in Workers, ~At(w, "idle") \/ req'[w] # req[w]
    PROVE  OthersIdle(w)
<1>1. CASE ~At(w, "idle")
  BY <1>1 DEF AloneInv, OneRequest, Busy, OthersIdle
<1>2. CASE At(w, "idle")
  <2>1. Busy = {}
    BY <1>2 DEF OneAtATime, Busy
  <2>. QED
    BY <2>1 DEF Busy, OthersIdle
<1>. QED
  BY <1>1, <1>2

LEMMA OnlyBeginner ==
    ASSUME TypeOK, AloneInv, OneAtATime, NEW w \in Workers, NEW r,
           At(w, "idle"), req' = [req EXCEPT ![w] = r], r.pc # "idle"
    PROVE  OthersIdle(w)
<1>1. req'[w] = r
  BY DEF TypeOK
<1>. QED
  BY <1>1, OnlyOne DEF At

LEMMA OnlyAppender ==
    ASSUME TypeOK, AloneInv, OneAtATime, NEW w \in Workers, At(w, "idle"),
           NEW s, NEW pending, NEW next, NEW write, Appending(w, s, pending, next, write)
    PROVE  OthersIdle(w)
<1>1. PICK r : r = [pc |-> "check", s |-> s, pending |-> pending, next |-> next, write |-> write]
  OBVIOUS
<1>2. r.pc # "idle"
  BY <1>1
<1>3. req' = [req EXCEPT ![w] = r]
  BY <1>1, Zenon DEF Appending, Goto
<1>. QED
  BY <1>2, <1>3, OnlyBeginner

LEMMA AppendStep ==
    ASSUME TypeOK, AloneInv, OneAtATime, NEW w \in Workers, AppendTest(w) \/ AppendEvent(w)
    PROVE  Goes /\ TalksLive'
<1>1. OthersIdle(w)
  BY OnlyOne DEF At, AppendTest, AppendEvent
<1>2. Goes
  BY <1>1, Tests, Appends DEF Goes
<1>3. UNCHANGED <<talks, live>>
  BY DEF AppendTest, AppendEvent
<1>. QED
  BY <1>2, <1>3 DEF AloneInv, TalksLive

LEMMA CommitStep ==
    ASSUME TypeOK, AloneInv, OneAtATime, NEW w \in Workers,
           Commit(w) \/ Abort(w) \/ WriteState(w) \/ ReadLog(w)
    PROVE  Goes /\ TalksLive'
<1>1. OthersIdle(w)
  BY OnlyOne DEF At, Commit, Abort, WriteState, ReadLog
<1>2. Goes
  BY <1>1, Commits, Aborts, Writes, KeepsStory DEF Goes
<1>3. UNCHANGED <<talks, live>>
  BY DEF Commit, Abort, WriteState, ReadLog
<1>. QED
  BY <1>2, <1>3 DEF AloneInv, TalksLive

LEMMA NoopStep ==
    ASSUME TypeOK, AloneInv, OneAtATime, NEW w \in Workers, NEW s \in Sessions,
           Noop(w, s) \/ ReadState(w, s)
    PROVE  Goes /\ TalksLive'
<1>1. OthersIdle(w)
  <2>1. CASE Noop(w, s)
    BY <2>1, OnlyAppender DEF Noop
  <2>2. CASE ReadState(w, s)
    <3>1. PICK r : r = [pc |-> "save", s |-> s, next |-> state[s]]
      OBVIOUS
    <3>2. r.pc # "idle"
      BY <3>1
    <3>3. req' = [req EXCEPT ![w] = r] /\ At(w, "idle")
      BY <2>2, <3>1, Zenon DEF ReadState, Goto
    <3>. QED
      BY <3>2, <3>3, OnlyBeginner
  <2>. QED
    BY <2>1, <2>2
<1>2. Goes
  BY <1>1, BeginsNoop, BeginsSave DEF Goes
<1>3. UNCHANGED <<talks, live>>
  BY DEF Noop, ReadState
<1>. QED
  BY <1>2, <1>3 DEF AloneInv, TalksLive

LEMMA ResolveStep ==
    ASSUME TypeOK, AloneInv, OneAtATime, NEW w \in Workers, NEW s \in Sessions,
           NEW success \in BOOLEAN, NEW changed \in BOOLEAN, NEW tick \in BOOLEAN,
           NEW crime \in BOOLEAN, Resolve(w, s, success, changed, tick, crime)
    PROVE  Goes /\ TalksLive'
<1>1. OthersIdle(w)
  <2>. DEFINE n == [turn |-> TurnAfter(state[s].turn, success),
                    applied |-> state[s].applied \o StepDeltas(nextId, changed, tick, crime)]
              p == StepEvents(nextId, EventTurn(state[s].turn, n.turn), changed, tick, crime)
  <2>0. PICK r : r = [pc |-> "commit", s |-> s, next |-> n, pending |-> p]
    OBVIOUS
  <2>1. req' = [req EXCEPT ![w] = r] /\ r.pc # "idle"
    <3>1. n.turn = TurnAfter(state[s].turn, success)
      OBVIOUS
    <3>2. req' = [req EXCEPT ![w] = r]
      BY <2>0, <3>1, Zenon DEF Resolve, Goto
    <3>. QED
      BY <2>0, <3>2
  <2>2. At(w, "idle")
    BY DEF Resolve
  <2>. QED
    BY <2>1, <2>2, OnlyBeginner
<1>2. Goes
  BY <1>1, BeginsStep DEF Goes
<1>3. UNCHANGED <<talks, live>>
  BY DEF Resolve
<1>. QED
  BY <1>2, <1>3 DEF AloneInv, TalksLive

LEMMA TalkStep ==
    ASSUME TypeOK, AloneInv, OneAtATime, NEW w \in Workers, NEW t \in Talks,
           \/ \E s \in Sessions, group \in BOOLEAN : StartTalk(w, s, t, group)
           \/ \E changes \in BOOLEAN : ContinueTalk(w, t, changes)
           \/ LeaveTalk(w, t) \/ EndTalk(w, t)
    PROVE  Goes /\ TalksLive'
<1>1. OthersIdle(w)
  <2>1. At(w, "idle")
    BY DEF StartTalk, ContinueTalk, LeaveTalk, EndTalk
  <2>2. \E s, pending, next, write : Appending(w, s, pending, next, write)
    BY Zenon DEF StartTalk, ContinueTalk, LeaveTalk, EndTalk
  <2>. QED
    BY <2>1, <2>2, OnlyAppender
<1>2. Goes
  BY <1>1, BeginsTalk, BeginsLine, BeginsEnd DEF Goes
<1>3. TalksLive'
  <2>1. CASE \E s \in Sessions, group \in BOOLEAN : StartTalk(w, s, t, group)
    <3>1. PICK s \in Sessions, group \in BOOLEAN : StartTalk(w, s, t, group)
      BY <2>1
    <3>2. /\ live' = live /\ s \in live
          /\ talks'[t].s = s
          /\ \A u \in Talks \ {t} : talks'[u] = talks[u]
      BY <3>1 DEF TypeOK, StartTalk
    <3>. QED
      BY <3>2 DEF AloneInv, TalksLive
  <2>2. CASE \E changes \in BOOLEAN : ContinueTalk(w, t, changes)
    BY <2>2 DEF AloneInv, TalksLive, ContinueTalk
  <2>3. CASE LeaveTalk(w, t) \/ EndTalk(w, t)
    <3>1. /\ live' = live /\ talks[t].status # "none"
          /\ talks' = [talks EXCEPT ![t] = Ended(t)]
      BY <2>3 DEF LeaveTalk, EndTalk, MayContinue
    <3>2. Ended(t).s = talks[t].s
      BY DEF Ended
    <3>3. talks'[t].s = talks[t].s /\ \A u \in Talks \ {t} : talks'[u] = talks[u]
      BY <3>1, <3>2 DEF TypeOK
    <3>. QED
      BY <3>1, <3>3 DEF AloneInv, TalksLive
  <2>. QED
    BY <2>1, <2>2, <2>3
<1>. QED
  BY <1>2, <1>3

LEMMA AloneStep ==
    ASSUME TypeOK, AloneInv, SavingNext, OneAtATime
    PROVE  AloneInv' /\ BookStep
<1>1. CASE \E w \in Workers : AppendTest(w) \/ AppendEvent(w)
  BY <1>1, AppendStep DEF Goes, AloneInv
<1>2. CASE \E s \in Sessions : StartGame(s)
  BY <1>2, StartsStory
<1>3. CASE \E w \in Workers : Commit(w) \/ Abort(w) \/ WriteState(w) \/ ReadLog(w)
  BY <1>3, CommitStep DEF Goes, AloneInv
<1>4. CASE \E w \in Workers, s \in Sessions : Noop(w, s) \/ ReadState(w, s)
  BY <1>4, NoopStep DEF Goes, AloneInv
<1>5. CASE \E w \in Workers, s \in Sessions : \E success, changed, tick, crime \in BOOLEAN :
              Resolve(w, s, success, changed, tick, crime)
  BY <1>5, ResolveStep DEF Goes, AloneInv
<1>6. CASE \E w \in Workers, t \in Talks :
              \/ \E s \in Sessions, group \in BOOLEAN : StartTalk(w, s, t, group)
              \/ \E changes \in BOOLEAN : ContinueTalk(w, t, changes)
              \/ LeaveTalk(w, t) \/ EndTalk(w, t)
  BY <1>6, TalkStep DEF Goes, AloneInv
<1>7. CASE \E s \in Sessions : Restore(s)
  BY <1>7, TakesUpStory
<1>. QED
  BY <1>1, <1>2, <1>3, <1>4, <1>5, <1>6, <1>7
     DEF SavingNext, Next, AppendNext, StepNext, TalkNext, SaveNext

LEMMA SameReplay == \A l : Book!Replay(l) = Replay(l)
  BY DEF Book!Replay, Replay, Book!LastTurn, LastTurn, Book!ChangingIds, ChangingIds,
         Book!ChangesUpTo, ChangesUpTo

LEMMA BookSteps ==
    ASSUME alone, UNCHANGED alone, BookStep
    PROVE  [Book!Next]_Book!vars
<1>1. /\ Opened = live /\ Opened' = live' /\ Stored = saved /\ Stored' = saved'
      /\ Stories = [s \in Sessions |-> Told(s)] /\ Worlds = [s \in Sessions |-> Shown(s)]
      /\ Stories' = [s \in Sessions |-> Told(s)'] /\ Worlds' = [s \in Sessions |-> Shown(s)']
  BY DEF Opened, Stored, Stories, Worlds
<1>2. CASE Same
  BY <1>1, <1>2 DEF Same, SameBook, Book!vars
<1>3. ASSUME NEW s \in Sessions, Starts(s)
      PROVE  Book!Start(s)
  BY <1>1, <1>3 DEF Starts, SameBook, Book!Start
<1>4. ASSUME NEW s \in Sessions, Tells(s)
      PROVE  Book!Tell(s)
  <2>1. /\ \A u \in Sessions \ {s} : Told(u)' = Told(u) /\ Shown(u)' = Shown(u)
        /\ Shown(s)' = Replay(Told(s)')
    BY <1>4 DEF Tells, SameBook
  <2>2. /\ Stories' = [Stories EXCEPT ![s] = Stories'[s]]
        /\ Worlds' = [Worlds EXCEPT ![s] = Replay(Stories'[s])]
    BY <1>1, <2>1
  <2>3. Book!Continues(Stories[s], Stories'[s])
    BY <1>1, <1>4 DEF Tells
  <2>. QED
    BY <1>1, <1>4, <2>2, <2>3, SameReplay DEF Tells, Book!Tell
<1>5. ASSUME NEW s \in Sessions, Keeps(s)
      PROVE  Book!Keep(s)
  BY <1>1, <1>5 DEF Keeps, SameBook, Book!Keep
<1>6. ASSUME NEW s \in Sessions, TakesUp(s)
      PROVE  Book!TakeUp(s)
  BY <1>1, <1>6 DEF TakesUp, SameBook, Book!TakeUp, Book!NoKept, NoSave
<1>. QED
  BY <1>2, <1>3, <1>4, <1>5, <1>6 DEF BookStep, Book!Next

LEMMA StoryBegins == StoryInit => StoryInv /\ Book!Init
<1>. SUFFICES ASSUME Init
              PROVE  TypeOK /\ AloneInv /\ Book!Init
  BY DEF StoryInit, StoryInv
<1>1. TypeOK
  BY InitTypes
<1>2. Busy = {}
  BY DEF Init, Busy, At, Idle
<1>3. /\ live = {} /\ saved = NoSave
      /\ \A s \in Sessions : log[s] = <<>> /\ state[s] = Fresh
      /\ \A t \in Talks : talks[t].status = "none"
  BY DEF Init
<1>4. Replay(<<>>) = Fresh /\ Ordered(<<>>)
  BY ChangesNone DEF Replay, LastTurn, Fresh, Ordered
<1>5. AloneInv
  BY <1>2, <1>3, <1>4
     DEF AloneInv, OneRequest, RequestsFit, SessionsFit, Settled, TalksLive, SavedFits
<1>6. ASSUME NEW s \in Sessions
      PROVE  Told(s) = <<>> /\ Shown(s) = Fresh
  <2>1. Telling(s) = {} /\ Showing(s) = {}
    BY <1>2 DEF Telling, Showing
  <2>. QED
    BY <1>3, <2>1 DEF Told, Shown
<1>7. /\ Opened = {} /\ Stored = NoSave
      /\ Stories = [s \in Sessions |-> <<>>] /\ Worlds = [s \in Sessions |-> Fresh]
  BY <1>3, <1>6 DEF Opened, Stored, Stories, Worlds
<1>8. Book!Replay(<<>>) = Fresh
  BY <1>4, SameReplay
<1>. QED
  BY <1>1, <1>5, <1>7, <1>8 DEF Book!Init, Book!NoKept, NoSave

LEMMA StoryGoesOn == StoryInv /\ [StoryNext]_storyVars => StoryInv' /\ [Book!Next]_Book!vars
<1>. SUFFICES ASSUME StoryInv, [StoryNext]_storyVars
              PROVE  StoryInv' /\ [Book!Next]_Book!vars
  OBVIOUS
<1>1. CASE alone /\ SavingNext /\ OneAtATime /\ UNCHANGED alone
  <2>1. TypeOK /\ AloneInv
    BY <1>1 DEF StoryInv
  <2>2. TypeOK'
    BY <1>1, <2>1, NextKeepsTypes, SavingKeepsTypes DEF SavingNext
  <2>3. AloneInv' /\ BookStep
    BY <1>1, <2>1, AloneStep
  <2>4. [Book!Next]_Book!vars
    BY <1>1, <2>3, BookSteps
  <2>. QED
    BY <2>2, <2>3, <2>4 DEF StoryInv
<1>2. CASE ~alone /\ Next /\ UNCHANGED alone
  <2>1. TypeOK'
    BY <1>2, NextKeepsTypes DEF StoryInv
  <2>2. UNCHANGED Book!vars
    BY <1>2 DEF Book!vars, Opened, Stored, Stories, Worlds
  <2>. QED
    BY <1>2, <2>1, <2>2 DEF StoryInv
<1>3. CASE UNCHANGED storyVars
  <2>1. UNCHANGED vars /\ UNCHANGED alone
    BY <1>3 DEF storyVars
  <2>2. TypeOK'
    BY <2>1, NextKeepsTypes DEF StoryInv
  <2>3. Busy' = Busy /\ \A s \in Sessions : Settled(s)' = Settled(s)
    BY <2>1 DEF vars, Busy, At, Settled
  <2>4. AloneInv => AloneInv'
    BY <2>1, <2>3 DEF vars, AloneInv, OneRequest, RequestsFit, SessionsFit, TalksLive, SavedFits
  <2>5. \A s \in Sessions : Told(s)' = Told(s) /\ Shown(s)' = Shown(s)
    BY <2>1, Untold DEF vars, SameBook
  <2>6. UNCHANGED Book!vars
    BY <2>1, <2>5 DEF Book!vars, Opened, Stored, Stories, Worlds, vars
  <2>. QED
    BY <2>1, <2>2, <2>4, <2>6 DEF StoryInv
<1>. QED
  BY <1>1, <1>2, <1>3 DEF StoryNext

\* The sessions of a client that waits for its answers are a story book: each
\* request of game_loop.py, dialogue.py, save_service.py and session_store.py
\* appends its events and shows the replay of the log, or does nothing.
THEOREM StoryBookKept == StorySpec => IsStoryBook
<1>1. StoryInv /\ [StoryNext]_storyVars => StoryInv'
  BY StoryGoesOn
<1>2. StoryInv /\ [StoryNext]_storyVars => [Book!Next]_Book!vars
  BY StoryGoesOn
<1>3. StoryInit => StoryInv /\ Book!Init
  BY StoryBegins
<1>. QED
  BY <1>1, <1>2, <1>3, PTL DEF StorySpec, IsStoryBook, Book!Spec

\* With one request at a time the log of a session is its state, whenever no
\* request is under way (save_service.py stores them as one).
THEOREM LogIsState == StorySpec => []AloneStateIsLog
<1>1. StoryInv => AloneStateIsLog
  <2>. SUFFICES ASSUME StoryInv, alone, Quiet, NEW s \in live
                PROVE  Whole(state[s], log[s])
    BY DEF AloneStateIsLog, StateIsLog
  <2>1. AloneInv /\ s \in Sessions
    BY DEF StoryInv, TypeOK
  <2>2. Settled(s)
    BY DEF Quiet, Settled, Busy
  <2>. QED
    BY <2>1, <2>2 DEF AloneInv, SessionsFit, Whole
<1>2. StoryInv /\ [StoryNext]_storyVars => StoryInv'
  BY StoryGoesOn
<1>3. StoryInit => StoryInv
  BY StoryBegins
<1>. QED
  BY <1>1, <1>2, <1>3, PTL DEF StorySpec

\* What a log may say of the dialogues: each has begun, those that have ended
\* are ended, and nothing follows an end.
TalkFits(l) ==
    /\ l \in Seq(Event)
    /\ \A k \in DOMAIN l : l[k].kind \in {"start", "talk", "end"} =>
           /\ l[k].talk \in Talks /\ talks[l[k].talk].status # "none"
           /\ l[k].kind = "end" => talks[l[k].talk].status = "ended"
    /\ \A a, b \in DOMAIN l :
           (a < b /\ l[a].kind = "end" /\ l[b].kind \in {"start", "talk"}) => l[a].talk # l[b].talk

TalkInv == /\ \A s \in Sessions : TalkFits(Told(s))
           /\ saved # NoSave => TalkFits(saved.log)

\* A dialogue never begins again.
TalksGoOn == \A t \in Talks :
    /\ talks[t].status # "none" => talks'[t].status # "none"
    /\ talks[t].status = "ended" => talks'[t].status = "ended"

LEMMA TalksNeverBack ==
    ASSUME TypeOK, SavingNext
    PROVE  TalksGoOn
<1>1. CASE UNCHANGED talks
  BY <1>1 DEF TalksGoOn
<1>2. ASSUME NEW w \in Workers, NEW s \in Sessions, NEW t \in Talks, NEW group \in BOOLEAN,
             StartTalk(w, s, t, group)
      PROVE  TalksGoOn
  <2>1. talks[t].status = "none" /\ \A u \in Talks \ {t} : talks'[u] = talks[u]
    BY <1>2 DEF StartTalk, TypeOK
  <2>. QED
    BY <2>1 DEF TalksGoOn
<1>3. ASSUME NEW w \in Workers, NEW t \in Talks, LeaveTalk(w, t) \/ EndTalk(w, t)
      PROVE  TalksGoOn
  <2>1. talks' = [talks EXCEPT ![t] = Ended(t)]
    BY <1>3 DEF LeaveTalk, EndTalk
  <2>2. talks'[t].status = "ended" /\ \A u \in Talks \ {t} : talks'[u] = talks[u]
    BY <2>1 DEF Ended, TypeOK
  <2>. QED
    BY <2>2 DEF TalksGoOn
<1>4. \/ UNCHANGED talks
      \/ \E w \in Workers, s \in Sessions, t \in Talks, group \in BOOLEAN :
            StartTalk(w, s, t, group)
      \/ \E w \in Workers, t \in Talks : LeaveTalk(w, t) \/ EndTalk(w, t)
  <2>1. CASE \E w \in Workers : AppendTest(w) \/ AppendEvent(w)
    BY <2>1 DEF AppendTest, AppendEvent
  <2>2. CASE StepNext
    <3>1. ASSUME NEW w \in Workers, NEW s \in Sessions,
                 NEW success \in BOOLEAN, NEW changed \in BOOLEAN, NEW tick \in BOOLEAN,
                 NEW crime \in BOOLEAN, Resolve(w, s, success, changed, tick, crime)
          PROVE  UNCHANGED talks
      BY <3>1 DEF Resolve
    <3>2. ASSUME NEW w \in Workers, NEW s \in Sessions,
                 StartGame(s) \/ Commit(w) \/ Abort(w) \/ Noop(w, s)
          PROVE  UNCHANGED talks
      BY <3>2 DEF StartGame, Commit, Abort, Noop
    <3>3. ASSUME NEW s \in Sessions, StartGame(s)
          PROVE  UNCHANGED talks
      BY <3>3 DEF StartGame
    <3>4. ASSUME NEW w \in Workers, Commit(w) \/ Abort(w)
          PROVE  UNCHANGED talks
      BY <3>4 DEF Commit, Abort
    <3>. QED
      BY <2>2, <3>1, <3>2, <3>3, <3>4 DEF StepNext
  <2>3. ASSUME NEW w \in Workers, WriteState(w) \/ ReadLog(w)
        PROVE  UNCHANGED talks
    BY <2>3 DEF WriteState, ReadLog
  <2>4. ASSUME NEW w \in Workers, NEW t \in Talks, NEW changes \in BOOLEAN,
               ContinueTalk(w, t, changes)
        PROVE  UNCHANGED talks
    BY <2>4 DEF ContinueTalk
  <2>5. ASSUME NEW w \in Workers, NEW s \in Sessions, ReadState(w, s) \/ Restore(s)
        PROVE  UNCHANGED talks
    BY <2>5 DEF ReadState, Restore
  <2>6. ASSUME NEW s \in Sessions, Restore(s)
        PROVE  UNCHANGED talks
    BY <2>6 DEF Restore
  <2>7. CASE TalkNext
    BY <2>3, <2>4, <2>7 DEF TalkNext
  <2>8. CASE SaveNext
    BY <2>3, <2>5, <2>6, <2>8 DEF SaveNext
  <2>. QED
    BY <2>1, <2>2, <2>7, <2>8 DEF SavingNext, Next, AppendNext
<1>. QED
  BY <1>1, <1>2, <1>3, <1>4

LEMMA StillFits ==
    ASSUME TalksGoOn, NEW l, TalkFits(l)
    PROVE  TalkFits(l)'
  BY DEF TalksGoOn, TalkFits

LEMMA FitsMore ==
    ASSUME TalksGoOn, NEW l, TalkFits(l), NEW p \in Seq(Event), TalkTold(p)
    PROVE  TalkFits(l \o p)'
<1>1. PICK m \in Seq(Event) :
          /\ m = l \o p /\ DOMAIN m = 1..Len(l) + Len(p)
          /\ \A k \in 1..Len(l) + Len(p) : m[k] = IF k <= Len(l) THEN l[k] ELSE p[k - Len(l)]
  <2>1. l \in Seq(Event)
    BY DEF TalkFits
  <2>2. /\ l \o p \in Seq(Event) /\ Len(l \o p) = Len(l) + Len(p)
        /\ \A k \in 1..Len(l) + Len(p) : (l \o p)[k] = IF k <= Len(l) THEN l[k] ELSE p[k - Len(l)]
    BY <2>1, ConcatProperties
  <2>3. DOMAIN (l \o p) = 1..Len(l \o p)
    BY <2>2, LenProperties
  <2>. QED
    BY <2>2, <2>3, Zenon
<1>2. /\ l \in Seq(Event) /\ Len(l) \in Nat /\ DOMAIN l = 1..Len(l)
      /\ Len(p) \in Nat /\ DOMAIN p = 1..Len(p)
  BY DEF TalkFits
<1>3. ASSUME NEW k \in DOMAIN m
      PROVE  \/ k \in DOMAIN l /\ m[k] = l[k]
             \/ k > Len(l) /\ k - Len(l) \in DOMAIN p /\ m[k] = p[k - Len(l)]
  BY <1>1, <1>2
<1>4. TalkFits(l)'
  BY StillFits
<1>5. CASE \A k \in DOMAIN p : p[k].kind \in StepKinds \cup {"noop"}
  <2>1. \A k \in DOMAIN p : p[k].kind \notin {"start", "talk", "end"}
    BY <1>5 DEF StepKinds
  <2>2. \A k \in DOMAIN m : m[k].kind \in {"start", "talk", "end"} => k \in DOMAIN l /\ m[k] = l[k]
    BY <1>3, <2>1
  <2>3. TalkFits(m)'
    BY <1>4, <2>2 DEF TalkFits
  <2>. QED
    BY <1>1, <2>3
<1>6. ASSUME NEW e \in Event, p = <<e>>, e.talk \in Talks,
             \/ e.kind = "start" /\ talks[e.talk].status = "none" /\ talks'[e.talk].status # "none"
             \/ e.kind = "talk" /\ talks[e.talk].status = "active"
             \/ e.kind = "end" /\ talks'[e.talk].status = "ended"
      PROVE  TalkFits(l \o p)'
  <2>1. Len(p) = 1 /\ p[1] = e
    BY <1>6
  <2>2. ASSUME NEW k \in DOMAIN m
        PROVE  \/ k \in DOMAIN l /\ m[k] = l[k]
               \/ k = Len(l) + 1 /\ m[k] = e
    <3>1. CASE k \in DOMAIN l /\ m[k] = l[k]
      BY <3>1
    <3>2. CASE k > Len(l) /\ k - Len(l) \in DOMAIN p /\ m[k] = p[k - Len(l)]
      <4>1. k \in Int /\ Len(l) \in Int
        BY <1>1, <1>2
      <4>2. PICK j \in DOMAIN p : j = k - Len(l)
        BY <3>2
      <4>3. j = 1
        BY <1>6, <4>2
      <4>. QED
        BY <2>1, <3>2, <4>1, <4>2, <4>3
    <3>. QED
      BY <1>3, <3>1, <3>2
  <2>3. /\ e.kind = "end" => talks'[e.talk].status = "ended"
        /\ talks'[e.talk].status # "none"
    BY <1>6 DEF TalksGoOn
  <2>4. e.kind \in {"start", "talk"} => \A k \in DOMAIN l : l[k].kind = "end" => l[k].talk # e.talk
    BY <1>6 DEF TalkFits
  <2>5. \A k \in DOMAIN m : m[k].kind \in {"start", "talk", "end"} =>
            /\ m[k].talk \in Talks /\ talks'[m[k].talk].status # "none"
            /\ m[k].kind = "end" => talks'[m[k].talk].status = "ended"
    BY <1>4, <1>6, <2>2, <2>3 DEF TalkFits
  <2>6. ASSUME NEW a \in DOMAIN m, NEW b \in DOMAIN m, a < b, m[a].kind = "end",
               m[b].kind \in {"start", "talk"}
        PROVE  m[a].talk # m[b].talk
    <3>1. a \in DOMAIN l /\ m[a] = l[a]
      BY <1>1, <1>2, <2>1, <2>2, <2>6
    <3>2. CASE b \in DOMAIN l /\ m[b] = l[b]
      BY <1>4, <2>6, <3>1, <3>2 DEF TalkFits
    <3>3. CASE m[b] = e
      BY <2>4, <2>6, <3>1, <3>3
    <3>. QED
      BY <2>2, <3>2, <3>3
  <2>7. TalkFits(m)'
    BY <2>5, <2>6 DEF TalkFits
  <2>. QED
    BY <1>1, <2>7
<1>. QED
  BY <1>5, <1>6 DEF TalkTold

LEMMA TalkStepFits ==
    ASSUME TalkInv, TalksGoOn, BookStep
    PROVE  TalkInv'
<1>1. ASSUME NEW s \in Sessions, SameBook(s)
      PROVE  TalkFits(Told(s))'
  <2>1. PICK l : l = Told(s)
    OBVIOUS
  <2>2. TalkFits(l)'
    BY <2>1, StillFits DEF TalkInv
  <2>3. Told(s)' = l
    BY <1>1, <2>1 DEF SameBook
  <2>. QED
    BY <2>2, <2>3 DEF TalkFits
<1>2. ASSUME saved # NoSave
      PROVE  TalkFits(saved.log)' \/ saved' # saved
  <2>1. PICK l : l = saved.log
    OBVIOUS
  <2>2. TalkFits(l)'
    BY <1>2, <2>1, StillFits DEF TalkInv
  <2>. QED
    BY <2>1, <2>2 DEF TalkFits
<1>3. CASE Same \/ \E s \in Sessions : Starts(s)
  BY <1>1, <1>2, <1>3 DEF Same, Starts, TalkInv
<1>4. ASSUME NEW s \in Sessions, Tells(s)
      PROVE  TalkInv'
  <2>1. PICK p \in Seq(Event) : Told(s)' = Told(s) \o p /\ TalkTold(p)
    BY <1>4 DEF Tells
  <2>2. PICK l : l = Told(s)
    OBVIOUS
  <2>3. TalkFits(l \o p)'
    BY <2>1, <2>2, FitsMore DEF TalkInv
  <2>4. TalkFits(Told(s))'
    <3>1. PICK m : m = l \o p
      OBVIOUS
    <3>2. TalkFits(m)'
      BY <2>3, <3>1
    <3>3. Told(s)' = m
      BY <2>1, <2>2, <3>1, Zenon
    <3>. QED
      BY <3>2, <3>3 DEF TalkFits
  <2>. QED
    BY <1>1, <1>2, <1>4, <2>4 DEF Tells, TalkInv
<1>5. ASSUME NEW s \in Sessions, Keeps(s)
      PROVE  TalkInv'
  <2>1. PICK l : l = Told(s)
    OBVIOUS
  <2>2. TalkFits(l)'
    BY <2>1, StillFits DEF TalkInv
  <2>3. saved'.log = l
    BY <1>5, <2>1 DEF Keeps
  <2>4. TalkFits(saved.log)'
    BY <2>2, <2>3 DEF TalkFits
  <2>. QED
    BY <1>1, <1>5, <2>4 DEF Keeps, TalkInv
<1>6. ASSUME NEW s \in Sessions, TakesUp(s)
      PROVE  TalkInv'
  <2>1. saved # NoSave /\ saved' = saved /\ Told(s)' = saved.log
    BY <1>6 DEF TakesUp
  <2>2. TalkFits(saved.log)'
    BY <1>2, <2>1
  <2>3. TalkFits(Told(s))'
    BY <2>1, <2>2 DEF TalkFits
  <2>. QED
    BY <1>1, <1>6, <2>2, <2>3 DEF TakesUp, TalkInv
<1>. QED
  BY <1>3, <1>4, <1>5, <1>6 DEF BookStep

\* The invariant with the dialogues.
ClosedInv == StoryInv /\ (alone => TalkInv)

LEMMA ClosedBegins == StoryInit => ClosedInv
<1>. SUFFICES ASSUME StoryInit
              PROVE  TalkInv
  BY StoryBegins DEF ClosedInv
<1>1. \A s \in Sessions : Told(s) = <<>>
  <2>1. Init
    BY DEF StoryInit
  <2>2. Busy = {}
    BY <2>1 DEF Init, Busy, At, Idle
  <2>3. \A s \in Sessions : Telling(s) = {} /\ log[s] = <<>>
    BY <2>1, <2>2 DEF Init, Telling
  <2>. QED
    BY <2>3 DEF Told
<1>2. TalkFits(<<>>)
  BY DEF TalkFits
<1>. QED
  BY <1>1, <1>2 DEF TalkInv, StoryInit, Init

LEMMA ClosedGoesOn == ClosedInv /\ [StoryNext]_storyVars => ClosedInv'
<1>. SUFFICES ASSUME ClosedInv, [StoryNext]_storyVars
              PROVE  ClosedInv'
  OBVIOUS
<1>1. StoryInv'
  BY StoryGoesOn DEF ClosedInv
<1>2. CASE alone /\ SavingNext /\ OneAtATime /\ UNCHANGED alone
  <2>1. TypeOK /\ AloneInv /\ TalkInv
    BY <1>2 DEF ClosedInv, StoryInv
  <2>2. BookStep /\ TalksGoOn
    BY <1>2, <2>1, AloneStep, TalksNeverBack
  <2>. QED
    BY <1>1, <2>1, <2>2, TalkStepFits DEF ClosedInv
<1>3. CASE ~alone /\ UNCHANGED alone
  BY <1>1, <1>3 DEF ClosedInv
<1>4. CASE UNCHANGED storyVars
  <2>1. UNCHANGED vars /\ UNCHANGED alone
    BY <1>4 DEF storyVars
  <2>2. \A s \in Sessions : SameBook(s)
    BY <2>1, Untold DEF vars
  <2>3. BookStep /\ TalksGoOn
    BY <2>1, <2>2 DEF BookStep, Same, TalksGoOn, vars
  <2>. QED
    BY <1>1, <2>1, <2>3, TalkStepFits DEF ClosedInv
<1>. QED
  BY <1>2, <1>3, <1>4 DEF StoryNext

\* With one request at a time nothing is said in a dialogue or group scene
\* after its end, over saves and restored sessions (dialogue.py and main.py).
THEOREM TalksStayClosed == StorySpec => []AloneTalkClosed
<1>1. ClosedInv => AloneTalkClosed
  <2>. SUFFICES ASSUME ClosedInv, alone, NEW s \in Sessions,
                       NEW a \in DOMAIN log[s], NEW b \in DOMAIN log[s],
                       a < b, log[s][a].kind = "end", log[s][b].kind \in {"start", "talk"}
                PROVE  log[s][a].talk # log[s][b].talk
    BY DEF AloneTalkClosed, TalkClosed
  <2>1. TypeOK /\ TalkFits(Told(s)) /\ log[s] \in Seq(Event)
    BY DEF ClosedInv, StoryInv, TypeOK, TalkInv
  <2>2. \A k \in DOMAIN log[s] : k \in DOMAIN Told(s) /\ Told(s)[k] = log[s][k]
    <3>1. CASE Telling(s) = {}
      BY <3>1 DEF Told
    <3>2. CASE Telling(s) # {}
      <4>1. PICK w \in Telling(s) : w = CHOOSE v \in Telling(s) : TRUE
        BY <3>2
      <4>2. req[w].pending \in Seq(Event)
        BY <2>1 DEF Telling, Busy, At, TypeOK, Pending, Idle
      <4>3. PICK l \in Seq(Event), p \in Seq(Event) : l = log[s] /\ p = req[w].pending
        BY <2>1, <4>2
      <4>4. Told(s) = l \o p
        BY <3>2, <4>1, <4>3, Zenon DEF Told
      <4>5. PICK m \in Seq(Event) :
                m = l \o p /\ \A k \in DOMAIN l : k \in DOMAIN m /\ m[k] = l[k]
        <5>1. /\ l \o p \in Seq(Event) /\ Len(l \o p) = Len(l) + Len(p)
              /\ \A k \in 1..Len(l) + Len(p) :
                    (l \o p)[k] = IF k <= Len(l) THEN l[k] ELSE p[k - Len(l)]
          BY ConcatProperties
        <5>2. Len(l) \in Nat /\ DOMAIN l = 1..Len(l) /\ Len(p) \in Nat
          OBVIOUS
        <5>3. DOMAIN (l \o p) = 1..Len(l) + Len(p)
          BY <5>1, LenProperties
        <5>4. \A k \in DOMAIN l : k \in DOMAIN (l \o p) /\ (l \o p)[k] = l[k]
          BY <5>1, <5>2, <5>3
        <5>. QED
          BY <5>1, <5>4, Zenon
      <4>. QED
        BY <4>3, <4>4, <4>5, Zenon
    <3>. QED
      BY <3>1, <3>2
  <2>. QED
    BY <2>1, <2>2 DEF TalkFits
<1>2. ClosedInv /\ [StoryNext]_storyVars => ClosedInv'
  BY ClosedGoesOn
<1>3. StoryInit => ClosedInv
  BY ClosedBegins
<1>. QED
  BY <1>1, <1>2, <1>3, PTL DEF StorySpec
=============================================================================
