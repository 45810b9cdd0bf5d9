---------------------------- MODULE WorldContent ----------------------------
(***************************************************************************)
(* World packs on disk and their authoring operations                      *)
(* (backend/app/engine/content: authoring_service.py, validation_gate.py,  *)
(* scenario_templates.py, import_export.py, world_branching.py,            *)
(* world_merge.py).  A pack is a directory of YAML files.  No operation    *)
(* locks it and none replaces it as a whole: files are read, written and   *)
(* removed one at a time, so each of these is an action.                   *)
(*                                                                         *)
(* Two files stand for the pack: facts.yaml with one fact, and rumors.yaml *)
(* with one rumor about it.  They hold all that the gate tells apart: a    *)
(* reference from one file to another, and a text that gives away what     *)
(* the other file hides.                                                   *)
(***************************************************************************)
EXTENDS Integers, Sequences, FiniteSets

CONSTANTS
    Workers,      \* threads of the request pool
    Branches,     \* names of branches of the world
    OldWorlds,    \* what the world may hold when the process starts
    Proposals,    \* packs that requests bring
    MaxOps,       \* bound on requests and edits by hand
    MaxFailures,  \* bound on files that cannot be written
    MaxCrashes    \* bound on deaths of the process

ASSUME BoundAssumption == MaxOps \in Nat /\ MaxFailures \in Nat /\ MaxCrashes \in Nat

VARIABLES
    made,      \* the directories that exist
    disk,      \* the files of each directory
    listed,    \* branches that have their metadata file
    req,       \* the request each worker is in the middle of
    reply,     \* how the last request ended
    accepted,  \* the world as the last accepted write left it
    ungated,   \* a template was applied, which asks no gate
    ops, failures, crashes

vars == <<made, disk, listed, req, reply, accepted, ungated, ops, failures, crashes>>
counters == <<failures, crashes>>

World == "world"
Dirs == Branches \cup {World}

\* Branches are kept in a directory of their own (world_branching.py).
ASSUME BranchAssumption == World \notin Branches

Files == {"facts", "rumors"}
\* The order of ALLOWED_AUTHORING_FILES.
InOrder(S) == (IF "facts" \in S THEN <<"facts">> ELSE <<>>)
              \o (IF "rumors" \in S THEN <<"rumors">> ELSE <<>>)
FileOrder == InOrder(Files)

\* What a file says of its entity; "none" if it does not list it.  "secret" is a
\* hidden fact, "revised" a public one with another text; "telling" is a rumor
\* whose text for the player holds the text of the fact.
Contents == [facts |-> {"none", "open", "revised", "secret"},
             rumors |-> {"none", "vague", "telling"}]
Gone == "gone"
Held(f) == Contents[f] \cup {Gone}
Packs == {p \in [Files -> UNION {Held(f) : f \in Files}] : \A f \in Files : p[f] \in Held(f)}
Empty == [f \in Files |-> Gone]
Drafts == {p \in Packs : \A f \in Files : p[f] # Gone}

\* Files of a pack are present when it is stored or sent.
ASSUME PackAssumption == OldWorlds \subseteq Drafts /\ Proposals \subseteq Drafts

\* _read_yaml_mapping and _items_by_id: a missing file lists nothing.
Entity(p, f) == IF p[f] = Gone THEN "none" ELSE p[f]

Idle == [pc |-> "idle"]
At(w, pc) == req[w].pc = pc
Goto(w, r) == req' = [req EXCEPT ![w] = r]
Finish(w, how) == Goto(w, Idle) /\ reply' = how
AtRest == \A w \in Workers : At(w, "idle")

-----------------------------------------------------------------------------
(* validate_world_pack and the gate *)

\* No error: every file is there and the rumor is about a fact that exists.
Valid(p) ==
    /\ \A f \in Files : p[f] # Gone
    /\ Entity(p, "rumors") # "none" => Entity(p, "facts") # "none"

\* rumor_reveals_hidden_fact
Leaks(p) == p["facts"] = "secret" /\ p["rumors"] = "telling"

\* Mutant: a leak is only a warning, which a confirmation silences.
GateOnErrors(p, warned, confirm) == Valid(p) /\ (warned \/ Leaks(p) => confirm)

\* AuthoringValidationGate.evaluate: errors and leaks block, other warnings ask
\* for a confirmation.
Gate(p, warned, confirm) == Valid(p) /\ ~Leaks(p) /\ (warned => confirm)

Overlay(p, new) == [f \in Files |-> IF f \in DOMAIN new THEN new[f] ELSE p[f]]

\* The process finds no world, or a valid one, with no branches or with
\* all of them copied from it and edited since.
Init ==
    /\ made \in {{}, {World}, Dirs}
    /\ disk \in [Dirs -> {Empty} \cup Drafts]
    /\ \A d \in Dirs : d \in made <=> disk[d] # Empty
    /\ World \in made => disk[World] \in OldWorlds
    /\ listed = made \cap Branches
    /\ req = [w \in Workers |-> Idle]
    /\ reply = "none" /\ accepted = disk[World] /\ ungated = FALSE
    /\ ops = 0 /\ failures = 0 /\ crashes = 0

Begin(w) == At(w, "idle") /\ ops < MaxOps /\ ops' = ops + 1

\* The request will write new, one file of todo after the other, and then go on
\* as next says.
Writing(kind, todo, new, next) ==
    [pc |-> "write", kind |-> kind, todo |-> todo, new |-> new, next |-> next, back |-> <<>>]

-----------------------------------------------------------------------------
(* Saves: write_file for one file, write_files for several *)

\* The draft is validated on a copy and passed by the gate.
Submit(w, kind, todo, new, warned, confirm) ==
    IF Gate(Overlay(disk[World], new), warned, confirm)
    THEN /\ Goto(w, [Writing(kind, todo, new, "check") EXCEPT !.pc = "backup"])
         /\ UNCHANGED reply
    ELSE Finish(w, "refused")

WriteFile(w, f, c) ==
    /\ Begin(w) /\ World \in made
    /\ Submit(w, "file", <<f>>, [g \in {f} |-> c], FALSE, FALSE)
    /\ UNCHANGED <<made, disk, listed, accepted, ungated, counters>>

\* The request names its files in any order.
WriteFiles(w, p, todo) ==
    /\ Begin(w) /\ World \in made
    /\ Submit(w, "files", todo, p, FALSE, FALSE)
    /\ UNCHANGED <<made, disk, listed, accepted, ungated, counters>>

\* Reading what the files hold, after the gate.
Backup(w) ==
    /\ At(w, "backup")
    /\ Goto(w, [Writing(req[w].kind, req[w].todo, req[w].new, "check")
                   EXCEPT !.back = [f \in DOMAIN req[w].new |-> disk[World][f]]])
    /\ UNCHANGED <<made, disk, listed, reply, accepted, ungated, ops, counters>>

\* The next file of any request that writes to the world.
WriteNext(w) ==
    /\ At(w, "write") /\ req[w].todo # <<>>
    /\ LET f == Head(req[w].todo)
       IN  disk' = [disk EXCEPT ![World][f] = req[w].new[f]]
    /\ Goto(w, [req[w] EXCEPT !.todo = Tail(@)])
    /\ UNCHANGED <<made, listed, reply, accepted, ungated, ops, counters>>

\* All files are written: what was asked for goes on to its check, what was put
\* back ends the request.
Written(w) ==
    /\ At(w, "write") /\ req[w].todo = <<>>
    /\ IF req[w].next = "check"
       THEN Goto(w, [req[w] EXCEPT !.pc = "check"]) /\ UNCHANGED <<reply, accepted>>
       ELSE /\ Finish(w, req[w].next)
            /\ accepted' = IF req[w].next = "saved" THEN disk[World] ELSE accepted
    /\ UNCHANGED <<made, disk, listed, ungated, ops, counters>>

\* Mutant: only the files that were still to be written are put back.
UndoRest(r) == [r EXCEPT !.pc = "undo"]

\* The files a failed request puts back.
UndoAll(r) == [r EXCEPT !.pc = "undo",
                        !.todo = InOrder(DOMAIN r.new)]

\* A template's backup comes back through a removal of the whole directory.
Revert(r) == IF r.kind = "template"
             THEN [r EXCEPT !.pc = "clear", !.todo = FileOrder, !.new = r.back, !.next = "refused"]
             ELSE UndoAll(r)

\* validate_world after the write.
Check(w) ==
    /\ At(w, "check")
    /\ IF Valid(disk[World])
       THEN Finish(w, "saved") /\ accepted' = disk[World]
       ELSE Goto(w, Revert(req[w])) /\ UNCHANGED <<reply, accepted>>
    /\ UNCHANGED <<made, disk, listed, ungated, ops, counters>>

\* A file cannot be written, or put back.  write_files and apply_template catch
\* the error of a write, write_file and the import do not.
FailWrite(w) ==
    /\ At(w, "write") \/ At(w, "undo")
    /\ req[w].todo # <<>> /\ failures < MaxFailures
    /\ failures' = failures + 1
    /\ IF At(w, "write") /\ req[w].next = "check" /\ req[w].kind # "file"
       THEN Goto(w, Revert(req[w])) /\ UNCHANGED <<reply, accepted>>
       ELSE Finish(w, "failed") /\ accepted' = disk[World]
    /\ UNCHANGED <<made, disk, listed, ungated, ops, crashes>>

\* One file is put back, or removed if there was none.
Undo(w) ==
    /\ At(w, "undo") /\ req[w].todo # <<>>
    /\ LET f == Head(req[w].todo)
       IN  disk' = [disk EXCEPT ![World][f] = req[w].back[f]]
    /\ Goto(w, [req[w] EXCEPT !.todo = Tail(@)])
    /\ UNCHANGED <<made, listed, reply, accepted, ungated, ops, counters>>

Undone(w) ==
    /\ At(w, "undo") /\ req[w].todo = <<>>
    /\ Finish(w, "refused")
    /\ UNCHANGED <<made, disk, listed, accepted, ungated, ops, counters>>

-----------------------------------------------------------------------------
(* New worlds, imports and templates *)

\* create_world: a new directory with the initial files, which list no fact and
\* no rumor; the report of the validation after it changes nothing.
CreateWorld(w) ==
    /\ Begin(w) /\ World \notin made
    /\ made' = made \cup {World}
    /\ Goto(w, Writing("create", FileOrder, [f \in Files |-> "none"], "saved"))
    /\ UNCHANGED <<disk, listed, reply, accepted, ungated, counters>>

\* import_world: the archive passes the gate; an existing world is emptied first
\* if the request says so.
ImportWorld(w, p, overwrite) ==
    /\ Begin(w)
    /\ IF (World \in made /\ ~overwrite) \/ ~Gate(p, FALSE, TRUE)
       THEN Finish(w, "refused")
       ELSE /\ Goto(w, [Writing("import", FileOrder, p, "saved")
                           EXCEPT !.pc = IF World \in made THEN "clear" ELSE "write"])
            /\ UNCHANGED reply
    /\ made' = IF req'[w].pc = "write" THEN made \cup {World} ELSE made
    /\ UNCHANGED <<disk, listed, accepted, ungated, counters>>

\* _clear_directory and rmtree
Clear(w) ==
    /\ At(w, "clear")
    /\ \E f \in Files : /\ disk[World][f] # Gone
                        /\ disk' = [disk EXCEPT ![World][f] = Gone]
    /\ UNCHANGED <<made, listed, req, reply, accepted, ungated, ops, counters>>

Cleared(w) ==
    /\ At(w, "clear") /\ disk[World] = Empty
    /\ Goto(w, [req[w] EXCEPT !.pc = "write",
                              !.todo = InOrder({f \in Files : req[w].new[f] # Gone})])
    /\ UNCHANGED <<made, disk, listed, reply, accepted, ungated, ops, counters>>

\* apply_template with the file of a template that is not a whole world: errors
\* stop it, the gate is not asked, and a copy of the directory is kept.
ApplyTemplate(w, f, c) ==
    /\ Begin(w) /\ World \in made
    /\ IF Valid(Overlay(disk[World], [g \in {f} |-> c]))
       THEN /\ Goto(w, [Writing("template", <<f>>, [g \in {f} |-> c], "check")
                           EXCEPT !.back = disk[World]])
            /\ ungated' = TRUE /\ UNCHANGED reply
       ELSE Finish(w, "refused") /\ UNCHANGED ungated
    /\ UNCHANGED <<made, disk, listed, accepted, counters>>

-----------------------------------------------------------------------------
(* Branches and merges *)

CreateBranch(w, b) ==
    /\ Begin(w) /\ World \in made
    /\ IF b \in made
       THEN Finish(w, "refused") /\ UNCHANGED made
       ELSE /\ made' = made \cup {b}
            /\ Goto(w, [pc |-> "copy", branch |-> b, todo |-> FileOrder])
            /\ UNCHANGED reply
    /\ UNCHANGED <<disk, listed, accepted, ungated, counters>>

CopyFile(w) ==
    /\ At(w, "copy") /\ req[w].todo # <<>>
    /\ LET b == req[w].branch
           f == Head(req[w].todo)
       IN  disk' = [disk EXCEPT ![b][f] = disk[World][f]]
    /\ Goto(w, [req[w] EXCEPT !.todo = Tail(@)])
    /\ UNCHANGED <<made, listed, reply, accepted, ungated, ops, counters>>

WriteMetadata(w) ==
    /\ At(w, "copy") /\ req[w].todo = <<>>
    /\ listed' = listed \cup {req[w].branch}
    /\ Finish(w, "copied")
    /\ UNCHANGED <<made, disk, accepted, ungated, ops, counters>>

\* The program has no editor for branches: their files are changed by hand.
EditBranch(b, f, c) ==
    /\ b \in listed /\ c # disk[b][f] /\ ops < MaxOps
    /\ ops' = ops + 1
    /\ disk' = [disk EXCEPT ![b][f] = c]
    /\ UNCHANGED <<made, listed, req, reply, accepted, ungated, counters>>

Visibility(e) == CASE e = "none" -> "deleted" [] e = "secret" -> "hidden" [] OTHER -> "public"

\* _detect_conflict
Conflict(b, o, t) ==
    \/ b = "none" /\ o # "none" /\ t # "none" /\ o # t
    \/ /\ b # o /\ b # t
       /\ \/ (o = "none") # (t = "none")
          \/ Cardinality({Visibility(e) : e \in {b, o, t}}) > 1
          \/ o # t

\* Mutant: the second side wins whenever it has the entity.
AutoMergeTheirs(b, o, t) == IF t # "none" THEN t ELSE o

\* _auto_merge_entity
AutoMerge(b, o, t) ==
    CASE b # o /\ b = t -> o
      [] b = o /\ b # t -> t
      [] OTHER -> IF t # "none" THEN t ELSE o

\* Mutant: nothing chosen is taken for a custom resolution.
ResolveUnchosen(choice, s) ==
    CASE choice = "base" -> s.base
      [] choice = "ours" -> s.ours
      [] choice = "theirs" -> s.theirs
      [] OTHER -> choice

\* _resolve_conflict: nothing chosen means the base; a custom resolution brings
\* its own entity.
Resolve(choice, s) ==
    CASE choice \in {"unresolved", "base"} -> s.base
      [] choice = "ours" -> s.ours
      [] choice = "theirs" -> s.theirs
      [] OTHER -> choice

\* The three versions of a file as preview_merge reads them.
Sides(f, ours, theirs) ==
    [base |-> Entity(disk[World], f), ours |-> Entity(disk[ours], f), theirs |-> Entity(disk[theirs], f)]

InConflict(s) == Conflict(s.base, s.ours, s.theirs)
Choices(f, s) == IF InConflict(s)
                 THEN {"unresolved", "base", "ours", "theirs"} \cup Contents[f]
                 ELSE {"unresolved"}
Merged(s, choice) == IF InConflict(s) THEN Resolve(choice, s)
                                      ELSE AutoMerge(s.base, s.ours, s.theirs)

\* save_merge begins with a preview: the facts of both sides, a branch each or
\* the world itself.  A directory will do; its metadata are not read.
Merge(w, ours, theirs) ==
    /\ Begin(w) /\ World \in made /\ ours \in made /\ theirs \in made
    /\ Goto(w, [pc |-> "merge", ours |-> ours, theirs |-> theirs,
                facts |-> Sides("facts", ours, theirs)])
    /\ UNCHANGED <<made, disk, listed, reply, accepted, ungated, counters>>

\* The rumors, the resolutions the request brings, and the gates of the merge
\* and of write_files.
MergeRest(w, confirm) ==
    /\ At(w, "merge")
    /\ LET sides == [f \in Files |-> IF f = "facts" THEN req[w].facts
                                     ELSE Sides(f, req[w].ours, req[w].theirs)]
       IN  \E fact \in Choices("facts", sides["facts"]), rumor \in Choices("rumors", sides["rumors"]) :
             LET choice == [f \in Files |-> IF f = "facts" THEN fact ELSE rumor]
                 new == [f \in Files |-> Merged(sides[f], choice[f])]
                 left == {f \in Files : InConflict(sides[f]) /\ choice[f] = "unresolved"}
             IN  IF Gate(new, left # {}, confirm)
                 THEN /\ Goto(w, [pc |-> "backup", kind |-> "merge", todo |-> FileOrder, new |-> new,
                                  next |-> "check", back |-> <<>>, sides |-> sides, left |-> left,
                                  ours |-> req[w].ours, theirs |-> req[w].theirs])
                      /\ UNCHANGED reply
                 ELSE Finish(w, "refused")
    /\ UNCHANGED <<made, disk, listed, accepted, ungated, ops, counters>>

-----------------------------------------------------------------------------
Crash ==
    /\ crashes < MaxCrashes /\ crashes' = crashes + 1
    /\ req' = [w \in Workers |-> Idle]
    /\ reply' = "died" /\ accepted' = disk[World]
    /\ UNCHANGED <<made, disk, listed, ungated, ops, failures>>

SaveNext == \E w \in Workers :
    \/ \E f \in Files : \E c \in Contents[f] : WriteFile(w, f, c)
    \/ \E p \in Proposals, todo \in {FileOrder, <<"rumors", "facts">>} : WriteFiles(w, p, todo)
    \/ Backup(w) \/ WriteNext(w) \/ Written(w) \/ Check(w)
    \/ FailWrite(w) \/ Undo(w) \/ Undone(w)

WorldNext == \E w \in Workers :
    \/ CreateWorld(w)
    \/ \E p \in Proposals, overwrite \in BOOLEAN : ImportWorld(w, p, overwrite)
    \/ Clear(w) \/ Cleared(w)
    \/ \E f \in Files : \E c \in Contents[f] : ApplyTemplate(w, f, c)

BranchNext ==
    \/ \E b \in Branches, f \in Files : \E c \in Contents[f] : EditBranch(b, f, c)
    \/ \E w \in Workers :
          \/ \E b \in Branches : CreateBranch(w, b)
          \/ CopyFile(w) \/ WriteMetadata(w)
          \/ \E ours, theirs \in Dirs : Merge(w, ours, theirs)
          \/ \E confirm \in BOOLEAN : MergeRest(w, confirm)

Next == SaveNext \/ WorldNext \/ BranchNext \/ Crash
Spec == Init /\ [][Next]_vars

-----------------------------------------------------------------------------
(* Properties *)

\* Files hold what files can hold, and a merge proposes whole files.
TypeOK ==
    /\ made \subseteq Dirs /\ listed \subseteq made \cap Branches
    /\ disk \in [Dirs -> Packs] /\ accepted \in Packs
    /\ reply \in {"none", "saved", "copied", "refused", "failed", "died"}
    /\ ungated \in BOOLEAN
    /\ \A w \in Workers :
          /\ req[w].pc \in {"idle", "backup", "write", "check", "undo", "clear", "copy", "merge"}
          /\ At(w, "backup") /\ req[w].kind = "merge" => req[w].new \in Drafts

\* A request that reports success leaves a world the validator accepts,
\* and one that gives nothing hidden away unless a template wrote it: the gate judged the files that
\* are on disk in the end, whatever failed or died before.
SavedIsClean ==
    AtRest /\ reply = "saved" =>
        Valid(disk[World]) /\ (Leaks(disk[World]) => ungated)

\* "A blocked save writes nothing": after a refusal the world is what the last
\* accepted write left, also when the refused request had written some files.
RefusedWritesNothing == AtRest /\ reply = "refused" => disk[World] = accepted

\* What a merge is about to save: an entity changed on one side is taken from
\* that side, one both changed alike is taken unless that counts as a conflict, and
\* one in conflict without a resolution stays as the world had it when it was read.
MergeTakesOneSided ==
    \A w \in Workers : At(w, "backup") /\ req[w].kind = "merge" =>
        \A f \in Files :
            LET s == req[w].sides[f]
                new == req[w].new[f]
            IN  /\ s.ours = s.base => new = s.theirs
                /\ s.theirs = s.base => new = s.ours
                /\ s.ours = s.theirs /\ ~InConflict(s) => new = s.ours
                /\ f \in req[w].left => new = s.base
=============================================================================
