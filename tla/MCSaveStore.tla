----------------------------- MODULE MCSaveStore -----------------------------
(***************************************************************************)
(* Instances of SaveStore for TLC.  A behaviour has one kind of client     *)
(* (SaveClients), with bounds of its own.                                  *)
(***************************************************************************)
EXTENDS SaveClients, TLC

MCVersions == {"legacy", "0.5", "9.9", "0.6"}
MCMigratable == {"legacy", "0.5"}

EventAt(n) == [id |-> n, turn |-> n]
RowAt(turn, schema) == [turn |-> turn, schema |-> schema, hist |-> <<>>]
StoredAt(i, n) ==
    [key |-> RawKey(EventAt(n)), save |-> i, ev |-> EventAt(n), seq |-> n - 1]

WorkerSymmetry == Permutations(Workers)

\* No save yet.
NoOldSaves == << >>
NoOldEvents == {}
NoMemories == {}

\* A save of one turn written by an older release, and one of a release the
\* program does not know.
MCOldSaves == (<<1>> :> RowAt(1, "0.5")) @@ (<<2>> :> RowAt(0, "9.9"))
MCOldEvents == {StoredAt(<<1>>, 1)}

\* One save of an older release, with a memory.
OneOldSave == <<1>> :> RowAt(1, "legacy")
OneOldEvents == {StoredAt(<<1>>, 1)}
OneOldMemory == {[save |-> <<1>>, id |-> CHOOSE m \in MemoryIds : TRUE]}

-----------------------------------------------------------------------------
\* How far a behaviour goes: saves that are no backups, turns, event ids,
\* ".backup" suffixes, recorded failures and process deaths.  Of the saves of
\* anyone and their backups two are stored at a time.
Reach ==
    [anyone   |-> [saves |-> 2, turn |-> 1, event |-> 2, len |-> 2, failures |-> 0, crashes |-> 0],
     player   |-> [saves |-> 2, turn |-> 2, event |-> 3, len |-> 2, failures |-> 1, crashes |-> 1],
     caller   |-> [saves |-> 3, turn |-> 3, event |-> 4, len |-> 2, failures |-> 1, crashes |-> 2],
     keeper   |-> [saves |-> 1, turn |-> 1, event |-> 1, len |-> 3, failures |-> 2, crashes |-> 1],
     migrator |-> [saves |-> 1, turn |-> 1, event |-> 2, len |-> 2, failures |-> 1, crashes |-> 0]
    ][client]

\* Fresh save ids are handed out in order: which of them comes first is alike.
Within ==
    /\ \A n \in BaseIds : n + 1 \in used => n \in used
    /\ Cardinality(used) <= Reach.saves
    /\ client = "anyone" => Cardinality(DOMAIN saves) <= 2
    /\ \A s \in SessionIds : sessions[s].turn <= Reach.turn
    /\ nextEvent <= Reach.event + 1
    /\ \A i \in DOMAIN saves : Len(i) <= Reach.len
    /\ Len(failures) <= Reach.failures /\ crashes <= Reach.crashes

MCNext == ClientNext /\ Within'
MCSpec == ClientInit /\ [][MCNext]_clientVars

-----------------------------------------------------------------------------
\* Saving one session, nothing else.
SaveTwiceInit == Init /\ client = "player"
SaveTwiceNext == (SessionNext \/ PlayNext \/ SaveNext) /\ UNCHANGED client
SaveTwiceSpec == SaveTwiceInit /\ [][SaveTwiceNext]_clientVars

\* Migrating and restoring, nothing else.
KeepInit == Init /\ client = "keeper"
KeepSpec == KeepInit /\ [][KeepNext /\ UNCHANGED client]_clientVars
=============================================================================
