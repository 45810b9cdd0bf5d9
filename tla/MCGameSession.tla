---------------------------- MODULE MCGameSession ----------------------------
(* Instances of SessionStory for TLC. *)
EXTENDS SessionStory, FiniteSets, TLC

\* Requests are alike for every worker, dialogues and sessions for every slot.
Symmetry == Permutations(Workers) \cup Permutations(Talks) \cup Permutations(Sessions)

\* Several clients at once get one session: what races is what they share.
MCSpec ==
    StoryInit /\ [][StoryNext /\ (alone \/ Cardinality(live') <= 1)]_storyVars

\* Steps of the game loop and saves, without dialogues.
PlayNext == AppendNext \/ StepNext
PlaySpec == StoryInit /\ [][PlayNext /\ UNCHANGED alone]_storyVars
=============================================================================
