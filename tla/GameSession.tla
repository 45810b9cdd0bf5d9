------------------------------ MODULE GameSession ------------------------------
(***************************************************************************)
(* A game session in memory (backend/app/core/game_loop.py, event_log.py,  *)
(* roleplay/dialogue.py, session_store.py and their endpoints in main.py). *)
(* GameLoop.state and GameLoop.event_log are shared by every request of    *)
(* the session; the endpoints run on a thread pool and nothing locks, so a *)
(* request is one action for each read or write of the two that another    *)
(* thread can come between.                                                *)
(*                                                                         *)
(* A state is abstracted to its turn and to the events whose deltas have   *)
(* been applied to it, in the order of application: two states made of     *)
(* different deltas, or of the same in another order, are different.       *)
(***************************************************************************)
EXTENDS Integers, Sequences, Logs

CONSTANTS
    Workers,    \* threads of the request pool
    Sessions,   \* slots for sessions in the store
    Talks,      \* slots for dialogue sessions and group scenes
    MaxTurn,    \* bound on the turn of a state
    MaxEvents   \* bound on the events created

ASSUME BoundAssumption == MaxTurn \in Nat /\ MaxEvents \in Nat

VARIABLES
    live,     \* the sessions the store holds
    state,    \* GameLoop.state of each session
    log,      \* GameLoop.event_log of each session
    talks,    \* the dialogue managers' sessions and scenes
    nextId,   \* next event; ids grow in the order of created_at
    refused,  \* events EventLog.append refused, and those due after them
    saved,    \* the last stored snapshot of a session
    req       \* the request each worker is in the middle of

vars == <<live, state, log, talks, nextId, refused, saved, req>>

State == [turn : Nat, applied : Seq(Nat)]
Kinds == {"noop", "player", "tick", "crime", "start", "talk", "end"}
\* changes: the event has deltas.  talk: its dialogue, or NoTalk.
Event == [id : Nat, turn : Nat, kind : Kinds, changes : BOOLEAN, talk : Talks \cup {"none"}]

Fresh == [turn |-> 0, applied |-> <<>>]
Idle == [pc |-> "idle"]
NoSave == [none |-> TRUE]

At(w, pc) == req[w].pc = pc
Goto(w, r) == req' = [req EXCEPT ![w] = r]
Finish(w) == req' = [req EXCEPT ![w] = Idle]

IdsOf(events) == {events[k].id : k \in DOMAIN events}

Init ==
    /\ live = {}
    /\ state = [s \in Sessions |-> Fresh]
    /\ log = [s \in Sessions |-> <<>>]
    /\ talks = [t \in Talks |-> [status |-> "none"]]
    /\ nextId = 1 /\ refused = {} /\ saved = NoSave
    /\ req = [w \in Workers |-> Idle]

\* POST /game/start
StartGame(s) ==
    /\ s \notin live
    /\ live' = live \cup {s}
    /\ UNCHANGED <<state, log, talks, nextId, refused, saved, req>>

\* The request still has to append pending, then to assign next if write.
Appending(w, s, pending, next, write) ==
    Goto(w, [pc |-> "check", s |-> s, pending |-> pending, next |-> next, write |-> write])

-----------------------------------------------------------------------------
(* GameLoop.step *)

NewEvent(n, turn, kind, changes) ==
    [id |-> n, turn |-> turn, kind |-> kind, changes |-> changes, talk |-> "none"]

\* A clarification or an unknown action: an event without deltas.
Noop(w, s) ==
    /\ At(w, "idle") /\ s \in live /\ nextId <= MaxEvents
    /\ nextId' = nextId + 1
    /\ Appending(w, s, <<NewEvent(nextId, state[s].turn, "noop", FALSE)>>, state[s], FALSE)
    /\ UNCHANGED <<live, state, log, talks, refused, saved>>

\* Mutants: a failed action takes a turn back; the events carry the turn from
\* before the step.
TurnUndone(turn, success) == IF success THEN turn + 1 ELSE turn - 1
EventTurnBefore(before, after) == before

TurnAfter(turn, success) == IF success THEN turn + 1 ELSE turn
EventTurn(before, after) == after

\* Mutants: the crime's deltas applied but its event not logged; the events in
\* the order they are created.
StepEventsWithoutCrime(n, turn, changed, tick, crime) ==
    LET p == IF tick THEN n + 1 ELSE n
    IN  <<NewEvent(p, turn, "player", changed)>>
        \o (IF tick THEN <<NewEvent(n, turn, "tick", TRUE)>> ELSE <<>>)
StepEventsAsCreated(n, turn, changed, tick, crime) ==
    LET p == IF tick THEN n + 1 ELSE n
    IN  (IF tick THEN <<NewEvent(n, turn, "tick", TRUE)>> ELSE <<>>)
        \o <<NewEvent(p, turn, "player", changed)>>
        \o (IF crime THEN <<NewEvent(p + 1, turn, "crime", TRUE)>> ELSE <<>>)

\* The events of a step in the order they are logged.  run_world_tick builds
\* its event before the step builds the player's.
StepEvents(n, turn, changed, tick, crime) ==
    LET p == IF tick THEN n + 1 ELSE n
    IN  <<NewEvent(p, turn, "player", changed)>>
        \o (IF tick THEN <<NewEvent(n, turn, "tick", TRUE)>> ELSE <<>>)
        \o (IF crime THEN <<NewEvent(p + 1, turn, "crime", TRUE)>> ELSE <<>>)

\* The order in which a step applies deltas: action, quests and turn; tick; crime.
StepDeltas(n, changed, tick, crime) ==
    LET p == IF tick THEN n + 1 ELSE n
    IN  (IF changed THEN <<p>> ELSE <<>>)
        \o (IF tick THEN <<n>> ELSE <<>>)
        \o (IF crime THEN <<p + 1>> ELSE <<>>)

\* Reading self.state and computing the next one.  A successful action always
\* has the turn delta and runs the world tick; a crime needs no success.
Resolve(w, s, success, changed, tick, crime) ==
    LET p == IF tick THEN nextId + 1 ELSE nextId
        last == IF crime THEN p + 1 ELSE p
        turn == TurnAfter(state[s].turn, success)
    IN  /\ At(w, "idle") /\ s \in live /\ last <= MaxEvents
        /\ success => changed /\ state[s].turn < MaxTurn
        /\ tick => success
        /\ nextId' = last + 1
        /\ Goto(w, [pc |-> "commit", s |-> s,
                    next |-> [turn |-> turn,
                              applied |-> state[s].applied
                                  \o StepDeltas(nextId, changed, tick, crime)],
                    pending |-> StepEvents(nextId, EventTurn(state[s].turn, turn),
                                           changed, tick, crime)])
        /\ UNCHANGED <<live, state, log, talks, refused, saved>>

\* The provider, a rule or a delta raises before self.state is assigned.
Abort(w) ==
    /\ At(w, "commit")
    /\ Finish(w)
    /\ UNCHANGED <<live, state, log, talks, nextId, refused, saved>>

\* self.state = next_state
Commit(w) ==
    /\ At(w, "commit")
    /\ state' = [state EXCEPT ![req[w].s] = req[w].next]
    /\ Appending(w, req[w].s, req[w].pending, req[w].next, FALSE)
    /\ UNCHANGED <<live, log, talks, nextId, refused, saved>>

-----------------------------------------------------------------------------
(* EventLog.append: the test of the latest turn, then the list's append.    *)

Backwards(l, e) == l # <<>> /\ e.turn < l[Len(l)].turn

AppendTest(w) ==
    /\ At(w, "check")
    /\ IF Backwards(log[req[w].s], req[w].pending[1])
       THEN /\ refused' = refused \cup IdsOf(req[w].pending)
            /\ Finish(w)
       ELSE /\ Goto(w, [pc |-> "append", s |-> req[w].s, pending |-> req[w].pending,
                        next |-> req[w].next, write |-> req[w].write])
            /\ UNCHANGED refused
    /\ UNCHANGED <<live, state, log, talks, nextId, saved>>

AppendEvent(w) ==
    LET rest == Tail(req[w].pending)
    IN  /\ At(w, "append")
        /\ log' = [log EXCEPT ![req[w].s] = Append(@, req[w].pending[1])]
        /\ IF rest # <<>>
           THEN Appending(w, req[w].s, rest, req[w].next, req[w].write)
           ELSE IF req[w].write
           THEN Goto(w, [pc |-> "write", s |-> req[w].s, next |-> req[w].next])
           ELSE Finish(w)
        /\ UNCHANGED <<live, state, talks, nextId, refused, saved>>

\* game_loop.state = result.state, after a dialogue line
WriteState(w) ==
    /\ At(w, "write")
    /\ state' = [state EXCEPT ![req[w].s] = req[w].next]
    /\ Finish(w)
    /\ UNCHANGED <<live, log, talks, nextId, refused, saved>>

-----------------------------------------------------------------------------
(* Dialogues and group scenes: their own status, their events in the log.   *)

TalkEvent(s, t, kind, changes) ==
    <<[id |-> nextId, turn |-> state[s].turn, kind |-> kind, changes |-> changes, talk |-> t]>>

\* start_dialogue and start_group_scene
StartTalk(w, s, t, group) ==
    /\ At(w, "idle") /\ s \in live /\ talks[t].status = "none" /\ nextId <= MaxEvents
    /\ talks' = [talks EXCEPT ![t] = [status |-> "active", s |-> s, group |-> group]]
    /\ nextId' = nextId + 1
    /\ Appending(w, s, TalkEvent(s, t, "start", FALSE), state[s], FALSE)
    /\ UNCHANGED <<live, state, log, refused, saved>>

\* Mutant: the status of the dialogue not looked at.
MayContinueStarted(t) == talks[t].status # "none"

MayContinue(t) == talks[t].status = "active"

\* continue_dialogue with a line that may have rule deltas, and
\* select_next_speaker, which has none and does not assign the state.
ContinueTalk(w, t, changes) ==
    LET s == talks[t].s
    IN  /\ At(w, "idle") /\ MayContinue(t) /\ nextId <= MaxEvents
        /\ talks[t].group => ~changes
        /\ nextId' = nextId + 1
        /\ Appending(w, s, TalkEvent(s, t, "talk", changes),
                     [turn |-> state[s].turn,
                      applied |-> state[s].applied \o (IF changes THEN <<nextId>> ELSE <<>>)],
                     ~talks[t].group)
        /\ UNCHANGED <<live, state, log, talks, refused, saved>>

Ended(t) == [status |-> "ended", s |-> talks[t].s, group |-> talks[t].group]

\* continue_dialogue with a line that asks to end
LeaveTalk(w, t) ==
    LET s == talks[t].s
    IN  /\ At(w, "idle") /\ MayContinue(t) /\ ~talks[t].group /\ nextId <= MaxEvents
        /\ talks' = [talks EXCEPT ![t] = Ended(t)]
        /\ nextId' = nextId + 1
        /\ Appending(w, s, TalkEvent(s, t, "end", FALSE), state[s], TRUE)
        /\ UNCHANGED <<live, state, log, refused, saved>>

\* end_dialogue and end_group_scene: neither asks whether it has ended.
EndTalk(w, t) ==
    LET s == talks[t].s
    IN  /\ At(w, "idle") /\ talks[t].status # "none" /\ nextId <= MaxEvents
        /\ talks' = [talks EXCEPT ![t] = Ended(t)]
        /\ nextId' = nextId + 1
        /\ Appending(w, s, TalkEvent(s, t, "end", FALSE), state[s], FALSE)
        /\ UNCHANGED <<live, state, log, refused, saved>>

-----------------------------------------------------------------------------
(* save_game_loop reads the state, then the list of events; SaveStore has   *)
(* the rest of a save and of a load.                                        *)

ReadState(w, s) ==
    /\ At(w, "idle") /\ s \in live
    /\ Goto(w, [pc |-> "save", s |-> s, next |-> state[s]])
    /\ UNCHANGED <<live, state, log, talks, nextId, refused, saved>>

ReadLog(w) ==
    /\ At(w, "save")
    /\ saved' = [state |-> req[w].next, log |-> log[req[w].s]]
    /\ Finish(w)
    /\ UNCHANGED <<live, state, log, talks, nextId, refused>>

Ordered(l) == \A k \in 1..Len(l) - 1 : l[k].turn <= l[k + 1].turn

\* restore_session: EventLog takes the events one by one.
Restore(s) ==
    /\ s \notin live /\ saved # NoSave /\ Ordered(saved.log)
    /\ live' = live \cup {s}
    /\ state' = [state EXCEPT ![s] = saved.state]
    /\ log' = [log EXCEPT ![s] = saved.log]
    /\ UNCHANGED <<talks, nextId, refused, saved, req>>

-----------------------------------------------------------------------------
AppendNext == \E w \in Workers : AppendTest(w) \/ AppendEvent(w)

StepNext ==
    \/ \E s \in Sessions : StartGame(s)
    \/ \E w \in Workers : Commit(w) \/ Abort(w)
    \/ \E w \in Workers, s \in Sessions :
          \/ Noop(w, s)
          \/ \E success, changed, tick, crime \in BOOLEAN :
                Resolve(w, s, success, changed, tick, crime)

TalkNext ==
    \E w \in Workers :
        \/ WriteState(w)
        \/ \E t \in Talks :
              \/ \E s \in Sessions, group \in BOOLEAN : StartTalk(w, s, t, group)
              \/ \E changes \in BOOLEAN : ContinueTalk(w, t, changes)
              \/ LeaveTalk(w, t)
              \/ EndTalk(w, t)

SaveNext ==
    \/ \E w \in Workers : ReadLog(w) \/ \E s \in Sessions : ReadState(w, s)
    \/ \E s \in Sessions : Restore(s)

Next == AppendNext \/ StepNext \/ TalkNext
Spec == Init /\ [][Next]_vars

\* With saves and restored sessions.
SavingNext == Next \/ SaveNext
SavingSpec == Init /\ [][SavingNext]_vars

-----------------------------------------------------------------------------
(* Properties *)

Pending ==
    [pc : {"commit"}, s : Sessions, next : State, pending : Seq(Event) \ {<<>>}]
    \cup [pc : {"check", "append"}, s : Sessions, next : State,
          pending : Seq(Event) \ {<<>>}, write : BOOLEAN]
    \cup [pc : {"write", "save"}, s : Sessions, next : State]

Talk == [status : {"none"}]
        \cup [status : {"active", "ended"}, s : Sessions, group : BOOLEAN]

\* Type invariant: turns never negative, requests only at the places above.
TypeOK ==
    /\ live \subseteq Sessions
    /\ state \in [Sessions -> State]
    /\ log \in [Sessions -> Seq(Event)]
    /\ talks \in [Talks -> Talk]
    /\ nextId \in Nat /\ refused \subseteq Nat
    /\ saved = NoSave \/ saved \in [state : State, log : Seq(Event)]
    /\ req \in [Workers -> {Idle} \cup Pending]

Quiet == \A w \in Workers : At(w, "idle")

\* Whatever the requests of a session do to each other, once they have all
\* ended some logged event is at least as late as the state: the turn a
\* session shows is never one of which the log knows nothing (game_loop.py
\* step commits first and logs after; dialogue.py may put an older state back).
StateTurnLogged ==
    Quiet => \A s \in live :
        \/ state[s].turn = 0
        \/ \E k \in DOMAIN log[s] : log[s][k].turn >= state[s].turn

PendingIds(w) == IF req[w].pc \in {"check", "append"}
                 THEN IdsOf(req[w].pending) ELSE {}

\* Every delta in a state has a trace: its event is logged, about to be, or was
\* refused with an EventLogError to the caller (README: runtime changes flow
\* through StateDelta and EventLog).
EffectsAccounted ==
    \A s \in Sessions : \A k \in DOMAIN state[s].applied :
        \/ state[s].applied[k] \in IdsOf(log[s]) \cup refused
        \/ \E w \in Workers : state[s].applied[k] \in PendingIds(w)

Whole(st, l) ==
    /\ Ordered(l)
    /\ st = Replay(l)

\* With one request at a time the log is the state: applying the deltas of the
\* logged events in log order gives the state, through aborted steps, crimes of
\* failed actions, dialogues, saves and loads.  SaveStore builds on it.
StateIsLog == Quiet => \A s \in live : Whole(state[s], log[s])

\* Nothing is said in a dialogue after it was ended (one request at a time).
TalkClosed ==
    \A s \in Sessions : \A a, b \in DOMAIN log[s] :
        (a < b /\ log[s][a].kind = "end" /\ log[s][b].kind \in {"start", "talk"})
            => log[s][a].talk # log[s][b].talk

-----------------------------------------------------------------------------
(* Claims of the documentation that the code does not keep *)

\* What the log says was changed is changed in the state.
NoLostUpdate ==
    Quiet => \A s \in live : \A k \in DOMAIN log[s] :
        log[s][k].changes =>
            \E j \in DOMAIN state[s].applied : state[s].applied[j] = log[s][k].id

\* replay_dry_run sorts by turn, then created_at: the order of the log.
ReplayInLogOrder ==
    \A s \in live : \A a, b \in DOMAIN log[s] :
        (a < b /\ log[s][a].changes /\ log[s][b].changes)
            => \/ log[s][a].turn < log[s][b].turn
               \/ log[s][a].turn = log[s][b].turn /\ log[s][a].id < log[s][b].id
=============================================================================
