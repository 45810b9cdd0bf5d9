----------------------------- MODULE MCAuthoring -----------------------------
(* Instances of WorldContent and WorldPack for TLC.  The two look at the same   *)
(* saves, one at the files being written, the other at what they say: a        *)
(* behaviour is one or the other, and leaves the state of the other alone.     *)
EXTENDS WorldContent, WorldPack, TLC

VARIABLE view

-----------------------------------------------------------------------------
(* The files *)

Draft(fact, rumor) == [f \in Files |-> IF f = "facts" THEN fact ELSE rumor]
MCOldWorlds == {Draft("open", "vague")}
\* A valid one, one that gives a secret away, one whose rumor is about nothing.
MCProposals == {Draft("secret", "vague"), Draft("secret", "telling"), Draft("none", "vague")}

BranchSymmetry == Permutations(Branches)

-----------------------------------------------------------------------------
(* What they say *)

Link(slot, to) == [slot |-> slot, to |-> to]
Plain(refs, marks) == [refs |-> refs, marks |-> marks]
Objective(text, hidden) == [id |-> "o", text |-> text, hidden |-> hidden]
Visit(of, action, objective, stage) ==
    [kind |-> "visit", of |-> of, action |-> action, objective |-> objective, stage |-> stage]
Quest(marks, objective, triggers) ==
    [refs |-> {}, marks |-> marks, first |-> "s1", stages |-> {"s1", "s2"},
     paths |-> {[path |-> "next", to |-> "s2"]}, objectives |-> {objective}, triggers |-> triggers]

\* The cave hides or not, and both ways may lead into it.
Inn == Plain({Link("exit", "cave")}, {})
Caves == {Plain({Link("exit", "inn")}, {}), Plain({Link("exit", "inn")}, {"hidden"})}
Ann == Plain({Link("stands", "inn"), Link("planned", "cave"), Link("member", "guard"), Link("sample", "chat")}, {})
Key == Plain({Link("held", "ann")}, {})
Murder == Plain({Link("knows", "ann"), Link("knows", Player)}, {})
Chat == Plain({Link("speaker", "ann"), Link("mentions", "murder")}, {"promptsafe"})
Rumor == Plain({Link("about", "murder"), Link("heard", "ann"), Link("tells", "murder")}, {})
Bond == Plain({Link("source", "ann"), Link("target", Player)}, {})
Quests1 ==
    {Quest({}, Objective("o", FALSE), <<Visit("cave", "complete", "o", "s2")>>),
     Quest({"public"}, Objective("find", FALSE), <<Visit("cave", "complete", "o", NoTarget), Visit("inn", "advance", NoTarget, "s2")>>),
     Quest({"public"}, Objective("find", TRUE), <<Visit("cave", "complete", "o", "s2")>>),
     Quest({"public"}, Objective("find", FALSE), <<Visit("cave", "advance", NoTarget, NoTarget)>>),
     Quest({"public"}, Objective("find", FALSE), <<[Visit("ann", "advance", NoTarget, "s3") EXCEPT !.kind = "talk"]>>),
     Quest({"public"}, Objective("find", FALSE), <<[Visit("ann", "activate", NoTarget, NoTarget) EXCEPT !.kind = "talk"]>>)}

MCDefs ==
    ("inn" :> {Inn, Plain({Link("exit", "cave")}, {"hidden"})}) @@
    ("cave" :> Caves \cup {Absent}) @@
    ("ann" :> {Ann, Plain({Link("stands", "inn"), Link("goal", "murder")}, {}), Absent}) @@
    ("key" :> {Key, Plain({Link("lies", "cave")}, {}), Plain({Link("inside", "key")}, {})}) @@
    ("murder" :> {Murder, Plain({}, {"hidden"}), Plain({}, {"public"}), Absent}) @@
    ("guard" :> {Plain({}, {}), Absent}) @@
    ("rumor" :> {Rumor, Plain({Link("heard", "guard")}, {}), Absent}) @@
    ("bond" :> {Bond, Absent}) @@
    ("quest" :> Quests1) @@
    ("chat" :> {Chat, Plain({Link("speaker", "ann")}, {}), Absent})

\* One with a reference of every kind, and one without the talk.
RichPack ==
    [start |-> "inn",
     def |-> ("inn" :> Inn) @@ ("cave" :> Plain({Link("exit", "inn")}, {})) @@ ("ann" :> Ann) @@ ("key" :> Key) @@
             ("murder" :> Murder) @@ ("guard" :> Plain({}, {})) @@ ("rumor" :> Rumor) @@ ("bond" :> Bond) @@
             ("chat" :> Chat) @@
             ("quest" :> Quest({"public"}, Objective("o", FALSE), <<Visit("cave", "complete", "o", "s2")>>))]
LeanPack ==
    [start |-> "inn",
     def |-> [RichPack.def EXCEPT !["murder"] = Absent, !["rumor"] = Absent, !["bond"] = Absent,
                                  !["key"] = Plain({Link("lies", "cave")}, {}),
                                  !["chat"] = Plain({Link("speaker", "ann")}, {})]]
MCOldPacks == {RichPack, LeanPack}

-----------------------------------------------------------------------------
MCInit ==
    /\ Init /\ PackInit
    /\ \/ view = "files" /\ pack = RichPack
       \/ view = "meaning" /\ made = {}
MCNext ==
    /\ UNCHANGED view
    /\ \/ view = "files" /\ Next /\ UNCHANGED packVars
       \/ view = "meaning" /\ PackNext /\ UNCHANGED vars
MCSpec == MCInit /\ [][MCNext]_<<vars, packVars, view>>
=============================================================================
