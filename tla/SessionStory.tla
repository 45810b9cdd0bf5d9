----------------------------- MODULE SessionStory -----------------------------
(***************************************************************************)
(* Clients of GameSession: one that waits for the answer to a request      *)
(* before it sends the next (alone), as the frontend does, or several at   *)
(* once.  The sessions of the first implement StoryBook.                   *)
(***************************************************************************)
EXTENDS GameSession

VARIABLE alone

storyVars == <<vars, alone>>

Busy == {w \in Workers : ~At(w, "idle")}

\* While one request is under way no other begins.
OneAtATime == Busy # {} => \A w \in Workers \ Busy : req'[w] = req[w]

StoryInit == Init /\ alone \in BOOLEAN

StoryNext ==
    /\ \/ alone /\ SavingNext /\ OneAtATime
       \/ ~alone /\ Next
    /\ UNCHANGED alone

StorySpec == StoryInit /\ [][StoryNext]_storyVars

-----------------------------------------------------------------------------
(* The story a session will have told, and the world it will show, when the *)
(* request that is under way has ended: a step counts from its assignment   *)
(* of self.state, a line of dialogue from its beginning.                    *)

Telling(s) == {w \in Busy : /\ req[w].pc \in {"check", "append"}
                            /\ req[w].s = s}
Showing(s) == {w \in Busy : /\ req[w].pc \in {"check", "append", "write"}
                            /\ req[w].s = s
                            /\ req[w].pc # "write" => req[w].write}

Told(s) ==
    IF Telling(s) = {} THEN log[s]
    ELSE log[s] \o req[CHOOSE w \in Telling(s) : TRUE].pending

Shown(s) ==
    IF Showing(s) = {} THEN state[s]
    ELSE req[CHOOSE w \in Showing(s) : TRUE].next

\* Several clients at once promise nothing: their book stays closed.
Opened == IF alone THEN live ELSE {}
Stories == [s \in Sessions |-> IF alone THEN Told(s) ELSE <<>>]
Worlds == [s \in Sessions |-> IF alone THEN Shown(s) ELSE Fresh]
Stored == IF alone THEN saved ELSE NoSave

Book == INSTANCE StoryBook WITH
    open <- Opened, story <- Stories, world <- Worlds, kept <- Stored

-----------------------------------------------------------------------------
(* Properties *)

\* The sessions of a client that waits for its answers are a story book: each
\* request appends its events to the log and shows the replay of the log as the
\* state in one step or not at all, whatever crime events, dialogue lines,
\* errors, saves and loads come between (game_loop.py step, dialogue.py,
\* save_service.py, session_store.py restore_session).
IsStoryBook == Book!Spec

\* With one request at a time the log is the state.
AloneStateIsLog == alone => StateIsLog

\* With one request at a time nothing is said in a dialogue after its end.
AloneTalkClosed == alone => TalkClosed
=============================================================================
