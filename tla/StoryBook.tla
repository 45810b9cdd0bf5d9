------------------------------- MODULE StoryBook -------------------------------
(***************************************************************************)
(* What a game session promises (docs/EVENTLOG_CONTRACT.md): a session is  *)
(* a story, told by appending events, and the world is what replaying the  *)
(* story gives.  A request is one step: it appends all of its events and   *)
(* shows the world after them, or nothing happens.  A kept story can be    *)
(* taken up again under another session.                                   *)
(***************************************************************************)
EXTENDS Integers, Sequences, Logs

CONSTANTS Sessions

VARIABLES
    open,   \* the sessions there are
    story,  \* the events of each, in order
    world,  \* the state of each
    kept    \* the last stored story and its world, or NoKept

vars == <<open, story, world, kept>>

NoKept == [none |-> TRUE]

Init ==
    /\ open = {}
    /\ story = [s \in Sessions |-> <<>>]
    /\ world = [s \in Sessions |-> Replay(<<>>)]
    /\ kept = NoKept

Start(s) ==
    /\ s \notin open
    /\ open' = open \cup {s}
    /\ UNCHANGED <<story, world, kept>>

\* One to three events of one turn: the world's, or the next one.
Continues(before, after) ==
    /\ Len(after) \in Len(before) + 1 .. Len(before) + 3
    /\ SubSeq(after, 1, Len(before)) = before
    /\ \A k \in Len(before) + 1 .. Len(after) :
          after[k].turn \in LastTurn(before) .. LastTurn(before) + 1
    /\ \A k \in Len(before) + 1 .. Len(after) : after[k].turn = LastTurn(after)

Tell(s) ==
    /\ s \in open
    /\ Continues(story[s], story'[s])
    /\ story' = [story EXCEPT ![s] = story'[s]]
    /\ world' = [world EXCEPT ![s] = Replay(story'[s])]
    /\ UNCHANGED <<open, kept>>

Keep(s) ==
    /\ s \in open
    /\ kept' = [state |-> world[s], log |-> story[s]]
    /\ UNCHANGED <<open, story, world>>

TakeUp(s) ==
    /\ s \notin open /\ kept # NoKept
    /\ open' = open \cup {s}
    /\ story' = [story EXCEPT ![s] = kept.log]
    /\ world' = [world EXCEPT ![s] = kept.state]
    /\ UNCHANGED kept

Next == \E s \in Sessions : Start(s) \/ Tell(s) \/ Keep(s) \/ TakeUp(s)

Spec == Init /\ [][Next]_vars
=============================================================================
