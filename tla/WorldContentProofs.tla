-------------------------- MODULE WorldContentProofs --------------------------
(* Proofs for WorldContent: what a merge proposes and what files hold, for    *)
(* any number of branches and of workers, that may save and merge at the same *)
(* time; and what saves and refusals leave on disk, for one request at a time. *)
EXTENDS WorldContent, SequenceTheorems, TLAPS

\* What the preview promises of one file.
TakesOneSided(s, left, new) ==
    /\ s.ours = s.base => new = s.theirs
    /\ s.theirs = s.base => new = s.ours
    /\ s.ours = s.theirs /\ ~InConflict(s) => new = s.ours
    /\ left => new = s.base

Proposed(r) == \A f \in Files : TakesOneSided(r.sides[f], f \in r.left, r.new[f])

\* The inductive invariant: a request that is a merge got its files from a preview.
Previewed ==
    /\ DOMAIN req = Workers
    /\ \A w \in Workers : req[w].pc = "backup" /\ req[w].kind = "merge" => Proposed(req[w])

\* An entity that only one side changed is never in conflict, so the automatic
\* merge decides.
LEMMA MergedTakesOneSided ==
    ASSUME NEW s, NEW choice
    PROVE  TakesOneSided(s, InConflict(s) /\ choice = "unresolved", Merged(s, choice))
<1>1. CASE s.ours = s.base
  <2>1. ~InConflict(s)
    BY <1>1 DEF InConflict, Conflict
  <2>2. Merged(s, choice) = s.theirs
    BY <1>1, <2>1 DEF Merged, AutoMerge
  <2>. QED
    BY <1>1, <2>1, <2>2 DEF TakesOneSided
<1>2. CASE s.theirs = s.base
  <2>1. ~InConflict(s)
    BY <1>2 DEF InConflict, Conflict
  <2>2. Merged(s, choice) = s.ours
    BY <1>2, <2>1 DEF Merged, AutoMerge
  <2>. QED
    BY <1>2, <2>1, <2>2 DEF TakesOneSided
<1>3. CASE s.ours # s.base /\ s.theirs # s.base
  <2>1. CASE InConflict(s)
    BY <1>3, <2>1 DEF TakesOneSided, Merged, Resolve
  <2>2. CASE ~InConflict(s)
    <3>1. s.ours = s.theirs => Merged(s, choice) = s.ours
      BY <1>3, <2>2 DEF Merged, AutoMerge
    <3>. QED
      BY <1>3, <2>2, <3>1 DEF TakesOneSided
  <2>. QED
    BY <2>1, <2>2
<1>. QED
  BY <1>1, <1>2, <1>3

-----------------------------------------------------------------------------
(* The steps *)

LEMMA GotoPreviewed ==
    ASSUME Previewed, NEW w \in Workers, NEW r, Goto(w, r),
           r.pc = "backup" /\ r.kind = "merge" => Proposed(r)
    PROVE  Previewed'
<1>1. DOMAIN req' = Workers
  BY DEF Previewed, Goto
<1>2. ASSUME NEW v \in Workers, req'[v].pc = "backup" /\ req'[v].kind = "merge"
      PROVE  Proposed(req'[v])
  <2>1. CASE v = w
    BY <1>2, <2>1 DEF Previewed, Goto
  <2>2. CASE v # w
    <3>1. req'[v] = req[v]
      BY <2>2 DEF Previewed, Goto
    <3>. QED
      BY <1>2, <3>1 DEF Previewed
  <2>. QED
    BY <2>1, <2>2
<1>. QED
  BY <1>1, <1>2 DEF Previewed

LEMMA IdlePreviewed ==
    ASSUME Previewed, NEW w \in Workers, Goto(w, Idle)
    PROVE  Previewed'
  BY GotoPreviewed DEF Idle

LEMMA UntouchedPreviewed ==
    ASSUME Previewed, UNCHANGED req
    PROVE  Previewed'
  BY DEF Previewed

LEMMA SubmitPreviewed ==
    ASSUME Previewed, NEW w \in Workers, NEW kind, kind # "merge", NEW todo, NEW new,
           Submit(w, kind, todo, new, FALSE, FALSE)
    PROVE  Previewed'
<1>. DEFINE next == [Writing(kind, todo, new, "check") EXCEPT !.pc = "backup"]
<1>1. next.kind = kind
  BY DEF Writing
<1>2. Goto(w, next) \/ Goto(w, Idle)
  BY DEF Submit, Finish
<1>. HIDE DEF next
<1>. QED
  BY <1>1, <1>2, GotoPreviewed, IdlePreviewed

LEMMA MergeRestPreviewed ==
    ASSUME Previewed, NEW w \in Workers, NEW confirm, MergeRest(w, confirm)
    PROVE  Previewed'
<1>. DEFINE sides == [f \in Files |-> IF f = "facts" THEN req[w].facts
                                      ELSE Sides(f, req[w].ours, req[w].theirs)]
            choices(fact, rumor) == [f \in Files |-> IF f = "facts" THEN fact ELSE rumor]
            new(choice) == [f \in Files |-> Merged(sides[f], choice[f])]
            left(choice) == {f \in Files : InConflict(sides[f]) /\ choice[f] = "unresolved"}
            next(choice) == [pc |-> "backup", kind |-> "merge", todo |-> FileOrder, new |-> new(choice),
                             next |-> "check", back |-> <<>>, sides |-> sides, left |-> left(choice),
                             ours |-> req[w].ours, theirs |-> req[w].theirs]
<1>0. PICK fact \in Choices("facts", sides["facts"]), rumor \in Choices("rumors", sides["rumors"]) :
          IF Gate(new(choices(fact, rumor)), left(choices(fact, rumor)) # {}, confirm)
          THEN Goto(w, next(choices(fact, rumor))) /\ UNCHANGED reply
          ELSE Finish(w, "refused")
  BY Zenon DEF MergeRest
<1>1. Goto(w, next(choices(fact, rumor))) \/ Goto(w, Idle)
  BY <1>0 DEF Finish
<1>. DEFINE choice == choices(fact, rumor)
<1>2. ASSUME NEW f \in Files
      PROVE  TakesOneSided(sides[f], f \in left(choice), new(choice)[f])
  <2>1. TakesOneSided(sides[f], InConflict(sides[f]) /\ choice[f] = "unresolved", Merged(sides[f], choice[f]))
    BY MergedTakesOneSided
  <2>2. new(choice)[f] = Merged(sides[f], choice[f])
    OBVIOUS
  <2>3. f \in left(choice) <=> InConflict(sides[f]) /\ choice[f] = "unresolved"
    OBVIOUS
  <2>. QED
    BY <2>1, <2>2, <2>3 DEF TakesOneSided
<1>3. Proposed(next(choice))
  BY <1>2 DEF Proposed
<1>. HIDE DEF next
<1>. QED
  BY <1>1, <1>3, GotoPreviewed, IdlePreviewed

\* What leaves no new request at its backup.
LEMMA WritePreviewed ==
    ASSUME Previewed, NEW w \in Workers,
           \/ Backup(w) \/ WriteNext(w) \/ Written(w) \/ Check(w)
           \/ FailWrite(w) \/ Undo(w) \/ Undone(w) \/ Cleared(w)
    PROVE  Previewed'
<1>1. ASSUME NEW r, Goto(w, r), r.pc # "backup"
      PROVE  Previewed'
  BY <1>1, GotoPreviewed
<1>2. ASSUME NEW r
      PROVE  Revert(r).pc # "backup"
  BY DEF Revert, UndoAll
<1>3. CASE Backup(w)
  <2>. DEFINE next == [Writing(req[w].kind, req[w].todo, req[w].new, "check")
                          EXCEPT !.back = [f \in DOMAIN req[w].new |-> disk[World][f]]]
  <2>1. next.pc = "write"
    BY DEF Writing
  <2>2. Goto(w, next)
    BY <1>3 DEF Backup
  <2>. QED
    BY <1>1, <2>1, <2>2
<1>4. CASE WriteNext(w) \/ Undo(w)
  <2>1. req[w].pc \in {"write", "undo"} /\ Goto(w, [req[w] EXCEPT !.todo = Tail(@)])
    BY <1>4 DEF WriteNext, Undo, At
  <2>2. [req[w] EXCEPT !.todo = Tail(@)].pc = req[w].pc
    OBVIOUS
  <2>. QED
    BY <1>1, <2>1, <2>2
<1>5. CASE Written(w)
  <2>1. CASE req[w].next = "check"
    <3>1. Goto(w, [req[w] EXCEPT !.pc = "check"])
      BY <1>5, <2>1 DEF Written
    <3>2. req[w].pc = "write"
      BY <1>5 DEF Written, At
    <3>3. [req[w] EXCEPT !.pc = "check"].pc # "backup"
      BY <3>2
    <3>. QED
      BY <1>1, <3>1, <3>3
  <2>2. CASE req[w].next # "check"
    <3>1. Goto(w, Idle)
      BY <1>5, <2>2 DEF Written, Finish
    <3>. QED
      BY <3>1, IdlePreviewed
  <2>. QED
    BY <2>1, <2>2
<1>6. CASE Check(w) \/ FailWrite(w)
  <2>1. Goto(w, Idle) \/ Goto(w, Revert(req[w]))
    BY <1>6 DEF Check, FailWrite, Finish
  <2>. QED
    BY <1>1, <1>2, <2>1, IdlePreviewed
<1>7. CASE Undone(w)
  BY <1>7, IdlePreviewed DEF Undone, Finish
<1>8. CASE Cleared(w)
  <2>. DEFINE moved == [req[w] EXCEPT !.pc = "write"]
              todo == InOrder({f \in Files : req[w].new[f] # Gone})
              next == [moved EXCEPT !.todo = todo]
  <2>1. Goto(w, [req[w] EXCEPT !.pc = "write", !.todo = todo])
    BY <1>8 DEF Cleared
  <2>2. [req[w] EXCEPT !.pc = "write", !.todo = todo] = next
    OBVIOUS
  <2>3. next.pc = moved.pc
    OBVIOUS
  <2>4. req[w].pc = "clear"
    BY <1>8 DEF Cleared, At
  <2>5. moved.pc # "backup"
    BY <2>4
  <2>. HIDE DEF next, moved
  <2>. QED
    BY <1>1, <2>1, <2>2, <2>3, <2>5
<1>. QED
  BY <1>3, <1>4, <1>5, <1>6, <1>7, <1>8

\* Requests that begin with something else than a save.
LEMMA OthersPreviewed ==
    ASSUME Previewed, NEW w \in Workers,
           \/ CreateWorld(w) \/ CopyFile(w) \/ WriteMetadata(w)
           \/ \E p, overwrite : ImportWorld(w, p, overwrite)
           \/ \E f, c : ApplyTemplate(w, f, c)
           \/ \E b : CreateBranch(w, b)
           \/ \E ours, theirs : Merge(w, ours, theirs)
    PROVE  Previewed'
<1>1. ASSUME NEW r, Goto(w, r), r.pc # "backup"
      PROVE  Previewed'
  BY <1>1, GotoPreviewed
<1>2. ASSUME NEW kind, NEW todo, NEW new, NEW next
      PROVE  Writing(kind, todo, new, next).pc = "write"
  BY DEF Writing
<1>3. CASE CreateWorld(w)
  BY <1>1, <1>2, <1>3 DEF CreateWorld
<1>4. CASE WriteMetadata(w)
  BY <1>4, IdlePreviewed DEF WriteMetadata, Finish
<1>5. CASE CopyFile(w)
  <2>1. req[w].pc = "copy" /\ Goto(w, [req[w] EXCEPT !.todo = Tail(@)])
    BY <1>5 DEF CopyFile, At
  <2>2. [req[w] EXCEPT !.todo = Tail(@)].pc = req[w].pc
    OBVIOUS
  <2>. QED
    BY <1>1, <2>1, <2>2
<1>6. ASSUME NEW p, NEW overwrite, ImportWorld(w, p, overwrite)
      PROVE  Previewed'
  <2>. DEFINE first == IF World \in made THEN "clear" ELSE "write"
              next == [Writing("import", FileOrder, p, "saved") EXCEPT !.pc = first]
  <2>1. next.pc = first
    BY DEF Writing
  <2>2. Goto(w, next) \/ Goto(w, Idle)
    BY <1>6 DEF ImportWorld, Finish
  <2>. HIDE DEF next
  <2>. QED
    BY <1>1, <2>1, <2>2, IdlePreviewed
<1>7. ASSUME NEW f, NEW c, ApplyTemplate(w, f, c)
      PROVE  Previewed'
  <2>. DEFINE next == [Writing("template", <<f>>, [g \in {f} |-> c], "check") EXCEPT !.back = disk[World]]
  <2>1. next.pc = "write"
    BY DEF Writing
  <2>2. Goto(w, next) \/ Goto(w, Idle)
    BY <1>7 DEF ApplyTemplate, Finish
  <2>. HIDE DEF next
  <2>. QED
    BY <1>1, <2>1, <2>2, IdlePreviewed
<1>8. ASSUME NEW b, CreateBranch(w, b)
      PROVE  Previewed'
  <2>1. Goto(w, [pc |-> "copy", branch |-> b, todo |-> FileOrder]) \/ Goto(w, Idle)
    BY <1>8 DEF CreateBranch, Finish
  <2>. QED
    BY <1>1, <2>1, IdlePreviewed
<1>9. ASSUME NEW ours, NEW theirs, Merge(w, ours, theirs)
      PROVE  Previewed'
  BY <1>1, <1>9 DEF Merge
<1>. QED
  BY <1>3, <1>4, <1>5, <1>6, <1>7, <1>8, <1>9

LEMMA InitPreviewed == Init => Previewed
  BY DEF Init, Previewed, Idle

LEMMA NextPreviewed == Previewed /\ [Next]_vars => Previewed'
<1>. SUFFICES ASSUME Previewed, [Next]_vars
              PROVE  Previewed'
  OBVIOUS
<1>1. CASE UNCHANGED vars
  BY <1>1, UntouchedPreviewed DEF vars
<1>2. CASE Crash
  BY <1>2 DEF Crash, Previewed, Idle
<1>3. CASE SaveNext
  <2>1. ASSUME NEW w \in Workers, NEW f, NEW c, WriteFile(w, f, c)
        PROVE  Previewed'
    BY <2>1, SubmitPreviewed DEF WriteFile
  <2>2. ASSUME NEW w \in Workers, NEW p, NEW todo, WriteFiles(w, p, todo)
        PROVE  Previewed'
    BY <2>2, SubmitPreviewed DEF WriteFiles
  <2>. QED
    BY <1>3, <2>1, <2>2, WritePreviewed DEF SaveNext
<1>4. CASE WorldNext
  <2>1. ASSUME NEW w \in Workers, Clear(w)
        PROVE  Previewed'
    BY <2>1, UntouchedPreviewed DEF Clear
  <2>. QED
    BY <1>4, <2>1, WritePreviewed, OthersPreviewed DEF WorldNext
<1>5. CASE BranchNext
  <2>1. ASSUME NEW b, NEW f, NEW c, EditBranch(b, f, c)
        PROVE  Previewed'
    BY <2>1, UntouchedPreviewed DEF EditBranch
  <2>. QED
    BY <1>5, <2>1, OthersPreviewed, MergeRestPreviewed DEF BranchNext
<1>. QED
  BY <1>1, <1>2, <1>3, <1>4, <1>5 DEF Next

\* However many branches there are, and whatever other requests write meanwhile:
\* a merge takes from each side what that side alone has changed, and guesses
\* nothing about a conflict (world_merge.py _auto_merge_entity, _resolve_conflict).
THEOREM MergesTakeOneSided == Spec => []MergeTakesOneSided
<1>1. Previewed => MergeTakesOneSided
  <2>. SUFFICES ASSUME Previewed, NEW w \in Workers, At(w, "backup"), req[w].kind = "merge",
                       NEW f \in Files
                PROVE  LET s == req[w].sides[f]
                           new == req[w].new[f]
                       IN  /\ s.ours = s.base => new = s.theirs
                           /\ s.theirs = s.base => new = s.ours
                           /\ s.ours = s.theirs /\ ~InConflict(s) => new = s.ours
                           /\ f \in req[w].left => new = s.base
    BY DEF MergeTakesOneSided
  <2>1. TakesOneSided(req[w].sides[f], f \in req[w].left, req[w].new[f])
    BY DEF Previewed, Proposed, At
  <2>. QED
    BY <2>1 DEF TakesOneSided
<1>. QED
  BY InitPreviewed, NextPreviewed, <1>1, PTL DEF Spec

-----------------------------------------------------------------------------
(***************************************************************************)
(* Types.  What a file may hold after a step depends on what the requests  *)
(* carry, so the invariant speaks of every request: the files it will      *)
(* write are among those it brings, and those it may put back are the ones *)
(* it has read.                                                            *)
(***************************************************************************)

\* Some files of a pack.
Parts == {p \in UNION {[F -> UNION {Held(g) : g \in Files}] : F \in SUBSET Files} :
             \A f \in DOMAIN p : p[f] \in Held(f)}

LEMMA PartsAre ==
    \A p : p \in Parts <=> /\ p = [f \in DOMAIN p |-> p[f]]
                           /\ DOMAIN p \subseteq Files /\ \A f \in DOMAIN p : p[f] \in Held(f)
<1>1. ASSUME NEW p \in Parts
      PROVE  /\ p = [f \in DOMAIN p |-> p[f]]
             /\ DOMAIN p \subseteq Files /\ \A f \in DOMAIN p : p[f] \in Held(f)
  BY DEF Parts
<1>2. ASSUME NEW p, p = [f \in DOMAIN p |-> p[f]], DOMAIN p \subseteq Files,
             \A f \in DOMAIN p : p[f] \in Held(f)
      PROVE  p \in Parts
  <2>1. \A f \in DOMAIN p : p[f] \in UNION {Held(g) : g \in Files}
    BY <1>2
  <2>2. p \in [DOMAIN p -> UNION {Held(g) : g \in Files}]
    BY <1>2, <2>1
  <2>. QED
    BY <1>2, <2>2 DEF Parts
<1>. QED
  BY <1>1, <1>2

LEMMA PacksAre ==
    \A p : p \in Packs <=> p \in Parts /\ DOMAIN p = Files
<1>1. \A p \in Packs : p \in Parts /\ DOMAIN p = Files
  <2>1. \A p \in Packs : /\ p = [f \in DOMAIN p |-> p[f]] /\ DOMAIN p = Files
                         /\ \A f \in Files : p[f] \in Held(f)
    BY DEF Packs
  <2>. QED
    BY <2>1, PartsAre
<1>2. \A p \in Parts : DOMAIN p = Files => p \in Packs
  <2>. SUFFICES ASSUME NEW p \in Parts, DOMAIN p = Files
                PROVE  p \in Packs
    OBVIOUS
  <2>1. p = [f \in Files |-> p[f]] /\ \A f \in Files : p[f] \in Held(f)
    BY PartsAre
  <2>2. p \in [Files -> UNION {Held(f) : f \in Files}]
    <3>1. \A f \in Files : p[f] \in UNION {Held(g) : g \in Files}
      BY <2>1
    <3>. QED
      BY <2>1, <3>1
  <2>. QED
    BY <2>1, <2>2 DEF Packs
<1>. QED
  BY <1>1, <1>2

LEMMA OnePart ==
    ASSUME NEW f \in Files, NEW c \in Contents[f]
    PROVE  [g \in {f} |-> c] \in Parts
<1>. DEFINE p == [g \in {f} |-> c]
<1>1. p = [g \in DOMAIN p |-> p[g]] /\ DOMAIN p = {f} /\ \A g \in DOMAIN p : p[g] = c
  OBVIOUS
<1>2. c \in Held(f)
  BY DEF Held
<1>. HIDE DEF p
<1>. QED
  BY <1>1, <1>2, PartsAre

LEMMA EmptyIsPack == Empty \in Packs /\ [f \in Files |-> "none"] \in Packs
  BY DEF Packs, Empty, Held, Files, Contents

LEMMA NoPart == << >> \in Parts
<1>1. DOMAIN << >> = {} /\ << >> = [f \in {} |-> << >>[f]]
  OBVIOUS
<1>. QED
  BY <1>1, PartsAre

\* What a pack holds of some files.
LEMMA PartOfPack ==
    ASSUME NEW p \in Packs, NEW F \in SUBSET Files
    PROVE  [f \in F |-> p[f]] \in Parts
<1>. DEFINE q == [f \in F |-> p[f]]
<1>1. \A f \in F : p[f] \in Held(f)
  BY PacksAre, PartsAre
<1>2. q = [f \in DOMAIN q |-> q[f]] /\ DOMAIN q = F /\ \A f \in F : q[f] = p[f]
  OBVIOUS
<1>. HIDE DEF q
<1>. QED
  BY <1>1, <1>2, PartsAre

\* One file of a pack is replaced.
LEMMA ReplaceFile ==
    ASSUME NEW p \in Packs, NEW f \in Files, NEW c \in Held(f)
    PROVE  [p EXCEPT ![f] = c] \in Packs
<1>. DEFINE q == [p EXCEPT ![f] = c]
<1>1. DOMAIN p = Files /\ \A g \in Files : p[g] \in Held(g)
  BY PacksAre, PartsAre
<1>2. /\ DOMAIN q = Files /\ q = [g \in DOMAIN q |-> q[g]]
      /\ \A g \in Files : q[g] = IF g = f THEN c ELSE p[g]
  BY <1>1
<1>. HIDE DEF q
<1>3. \A g \in Files : q[g] \in Held(g)
  BY <1>1, <1>2
<1>. QED
  BY <1>2, <1>3, PartsAre, PacksAre

LEMMA InOrderType ==
    ASSUME NEW S \in SUBSET Files
    PROVE  InOrder(S) \in Seq(S) /\ \A f \in S : \E i \in DOMAIN InOrder(S) : InOrder(S)[i] = f
<1>1. CASE "facts" \in S /\ "rumors" \in S
  <2>. DEFINE a == <<"facts">>
              b == <<"rumors">>
              q == a \o b
  <2>1. InOrder(S) = q
    BY <1>1, Zenon DEF InOrder
  <2>2. a \in Seq(S) /\ b \in Seq(S) /\ Len(a) = 1 /\ Len(b) = 1 /\ a[1] = "facts" /\ b[1] = "rumors"
    BY <1>1
  <2>. HIDE DEF a, b
  <2>3. q \in Seq(S) /\ Len(q) = 2 /\ q[1] = "facts" /\ q[2] = "rumors"
    <3>1. /\ q \in Seq(S) /\ Len(q) = Len(a) + Len(b)
          /\ \A i \in 1..Len(a) + Len(b) : q[i] = IF i <= Len(a) THEN a[i] ELSE b[i - Len(a)]
      BY <2>2, ConcatProperties
    <3>2. 1 \in 1..Len(a) + Len(b) /\ 2 \in 1..Len(a) + Len(b) /\ 2 - Len(a) = 1
      BY <2>2
    <3>. HIDE DEF q
    <3>. QED
      BY <2>2, <3>1, <3>2
  <2>. HIDE DEF q
  <2>4. DOMAIN q = 1..2
    BY <2>3
  <2>. QED
    BY <2>1, <2>3, <2>4 DEF Files
<1>2. CASE "facts" \in S /\ "rumors" \notin S
  <2>1. InOrder(S) = <<"facts">>
    BY <1>2 DEF InOrder
  <2>2. S = {"facts"}
    BY <1>2 DEF Files
  <2>. QED
    BY <1>2, <2>1, <2>2
<1>3. CASE "facts" \notin S /\ "rumors" \in S
  <2>1. InOrder(S) = <<"rumors">>
    BY <1>3 DEF InOrder
  <2>2. S = {"rumors"}
    BY <1>3 DEF Files
  <2>. QED
    BY <1>3, <2>1, <2>2
<1>4. CASE S = {}
  <2>1. InOrder(S) = <<>>
    BY <1>4 DEF InOrder
  <2>2. <<>> \in Seq(S)
    OBVIOUS
  <2>. QED
    BY <1>4, <2>1, <2>2
<1>. QED
  BY <1>1, <1>2, <1>3, <1>4 DEF Files

LEMMA FileOrderType ==
    FileOrder \in Seq(Files) /\ \A f \in Files : \E i \in DOMAIN FileOrder : FileOrder[i] = f
  BY InOrderType DEF FileOrder

-----------------------------------------------------------------------------
(* The requests *)

Saves == {"file", "files", "merge"}
WriteRecords ==
    [pc : {"write", "check", "undo", "clear"},
     kind : Saves \cup {"create", "import", "template"}, todo : Seq(Files), new : Parts,
     next : {"check", "saved", "refused"}, back : Parts]
SideSet(f) == [base : Contents[f], ours : Contents[f], theirs : Contents[f]]

\* What is still to be done is known.
Ready(r) ==
    /\ r.pc = "undo" => r.todo \in Seq(DOMAIN r.new) /\ DOMAIN r.new \subseteq DOMAIN r.back
    /\ r.pc = "write" => r.todo \in Seq(DOMAIN r.new)
    /\ r.pc \in {"write", "check"} /\ r.next = "check" =>
          IF r.kind \in Saves THEN DOMAIN r.new \subseteq DOMAIN r.back
                              ELSE r.kind = "template" /\ DOMAIN r.back = Files
    /\ r.pc = "check" => r.next = "check"
    /\ r.pc = "clear" => DOMAIN r.new = Files /\ r.next \in {"saved", "refused"}

GoodBackup(r) ==
    /\ r.pc = "backup" /\ r.kind \in Saves /\ r.new \in Parts /\ r.todo \in Seq(DOMAIN r.new)
    /\ r.kind = "merge" => r.new \in Drafts
GoodWrite(r) == r \in WriteRecords /\ Ready(r)
GoodCopy(r, dirs) == r \in [pc : {"copy"}, branch : Branches \cap dirs, todo : Seq(Files)]
GoodMerge(r) == r \in [pc : {"merge"}, ours : Dirs, theirs : Dirs, facts : SideSet("facts")]

GoodRequest(r, dirs) ==
    r = Idle \/ GoodBackup(r) \/ GoodWrite(r) \/ GoodCopy(r, dirs) \/ GoodMerge(r)

Requests == DOMAIN req = Workers /\ \A w \in Workers : GoodRequest(req[w], made)

Stored ==
    /\ made \subseteq Dirs /\ listed \subseteq made \cap Branches
    /\ disk \in [Dirs -> Packs] /\ accepted \in Packs
    /\ reply \in {"none", "saved", "copied", "refused", "failed", "died"}
    /\ ungated \in BOOLEAN

TypeInv == Stored /\ Requests

LEMMA StoredIsTypeOK == TypeInv => TypeOK
<1>. SUFFICES ASSUME TypeInv
              PROVE  TypeOK
  OBVIOUS
<1>1. ASSUME NEW w \in Workers
      PROVE  /\ req[w].pc \in {"idle", "backup", "write", "check", "undo", "clear", "copy", "merge"}
             /\ At(w, "backup") /\ req[w].kind = "merge" => req[w].new \in Drafts
  <2>1. GoodRequest(req[w], made)
    BY DEF TypeInv, Requests
  <2>2. CASE req[w] = Idle
    BY <2>2 DEF Idle, At
  <2>3. CASE GoodBackup(req[w])
    BY <2>3 DEF GoodBackup
  <2>4. CASE GoodWrite(req[w])
    BY <2>4 DEF GoodWrite, WriteRecords, At
  <2>5. CASE GoodCopy(req[w], made) \/ GoodMerge(req[w])
    BY <2>5 DEF GoodCopy, GoodMerge, At
  <2>. QED
    BY <2>1, <2>2, <2>3, <2>4, <2>5 DEF GoodRequest
<1>. QED
  BY <1>1 DEF TypeOK, TypeInv, Stored

\* Which kind of request a program counter tells.
LEMMA RequestAt ==
    ASSUME Requests, NEW w \in Workers
    PROVE  /\ req[w].pc \in {"write", "check", "undo", "clear"} => GoodWrite(req[w])
           /\ req[w].pc = "backup" => GoodBackup(req[w])
           /\ req[w].pc = "copy" => GoodCopy(req[w], made)
           /\ req[w].pc = "merge" => GoodMerge(req[w])
<1>1. GoodRequest(req[w], made)
  BY DEF Requests
<1>2. Idle.pc = "idle"
  BY DEF Idle
<1>3. GoodWrite(req[w]) => req[w].pc \in {"write", "check", "undo", "clear"}
  BY DEF GoodWrite, WriteRecords
<1>4. GoodBackup(req[w]) => req[w].pc = "backup"
  BY DEF GoodBackup
<1>5. (GoodCopy(req[w], made) => req[w].pc = "copy") /\ (GoodMerge(req[w]) => req[w].pc = "merge")
  BY DEF GoodCopy, GoodMerge
<1>. QED
  BY <1>1, <1>2, <1>3, <1>4, <1>5 DEF GoodRequest

\* Directories are not removed, so a copy goes on into one that exists.
LEMMA GotoGood ==
    ASSUME Requests, made \subseteq made', NEW w \in Workers, NEW r, Goto(w, r),
           GoodRequest(r, made')
    PROVE  Requests'
<1>1. \A v \in Workers : req'[v] = IF v = w THEN r ELSE req[v]
  BY DEF Requests, Goto
<1>2. ASSUME NEW v \in Workers
      PROVE  GoodRequest(req'[v], made')
  <2>1. CASE v = w
    BY <1>1, <2>1
  <2>2. CASE v # w
    <3>1. GoodRequest(req[v], made)
      BY DEF Requests
    <3>2. GoodCopy(req[v], made) => GoodCopy(req[v], made')
      BY DEF GoodCopy
    <3>. QED
      BY <1>1, <2>2, <3>1, <3>2 DEF GoodRequest
  <2>. QED
    BY <2>1, <2>2
<1>3. DOMAIN req' = Workers
  BY DEF Requests, Goto
<1>. QED
  BY <1>2, <1>3 DEF Requests

LEMMA SameGood == ASSUME Requests, UNCHANGED <<req, made>> PROVE Requests'
  BY DEF Requests

Kinds == Saves \cup {"create", "import", "template"}

LEMMA WritingType ==
    ASSUME NEW kind \in Kinds, NEW new \in Parts, NEW todo \in Seq(DOMAIN new),
           NEW next \in {"check", "saved", "refused"}, NEW back \in Parts,
           NEW pc \in {"write", "clear"}
    PROVE  /\ Writing(kind, todo, new, next) \in WriteRecords
           /\ [Writing(kind, todo, new, next) EXCEPT !.back = back] \in WriteRecords
           /\ [Writing(kind, todo, new, next) EXCEPT !.pc = pc] \in WriteRecords
<1>1. todo \in Seq(Files)
  BY PartsAre
<1>. QED
  BY <1>1, NoPart DEF Writing, WriteRecords, Kinds

\* A file of a save, of a template, of an import or of a new world.
LEMMA BackupOfWriting ==
    ASSUME NEW kind \in {"file", "files"}, NEW new \in Parts, NEW todo \in Seq(DOMAIN new)
    PROVE  GoodBackup([Writing(kind, todo, new, "check") EXCEPT !.pc = "backup"])
  BY DEF GoodBackup, Writing, Saves

LEMMA BackedWriting ==
    ASSUME NEW kind \in Saves, NEW new \in Parts, NEW todo \in Seq(DOMAIN new),
           NEW back \in Parts, DOMAIN back = DOMAIN new
    PROVE  GoodWrite([Writing(kind, todo, new, "check") EXCEPT !.back = back])
<1>. DEFINE r == [Writing(kind, todo, new, "check") EXCEPT !.back = back]
<1>1. r \in WriteRecords
  BY WritingType DEF Kinds
<1>2. /\ r.pc = "write" /\ r.kind = kind /\ r.todo = todo /\ r.new = new
      /\ r.next = "check" /\ r.back = back
  BY DEF Writing
<1>. HIDE DEF r
<1>3. Ready(r)
  BY <1>2 DEF Ready
<1>. QED
  BY <1>1, <1>3 DEF GoodWrite, r

LEMMA TemplateWriting ==
    ASSUME NEW new \in Parts, NEW todo \in Seq(DOMAIN new), NEW back \in Packs
    PROVE  GoodWrite([Writing("template", todo, new, "check") EXCEPT !.back = back])
<1>. DEFINE r == [Writing("template", todo, new, "check") EXCEPT !.back = back]
<1>1. back \in Parts /\ DOMAIN back = Files
  BY PacksAre
<1>2. r \in WriteRecords
  BY <1>1, WritingType DEF Kinds
<1>3. /\ r.pc = "write" /\ r.kind = "template" /\ r.todo = todo /\ r.new = new
      /\ r.next = "check" /\ r.back = back
  BY DEF Writing
<1>. HIDE DEF r
<1>4. Ready(r)
  BY <1>1, <1>3 DEF Ready, Saves
<1>. QED
  BY <1>2, <1>4 DEF GoodWrite, r

LEMMA WholeWriting ==
    ASSUME NEW kind \in {"create", "import"}, NEW new \in Packs, NEW pc \in {"write", "clear"}
    PROVE  GoodWrite([Writing(kind, FileOrder, new, "saved") EXCEPT !.pc = pc])
<1>. DEFINE r == [Writing(kind, FileOrder, new, "saved") EXCEPT !.pc = pc]
<1>1. new \in Parts /\ DOMAIN new = Files /\ FileOrder \in Seq(Files)
  BY PacksAre, FileOrderType
<1>2. r \in WriteRecords
  BY <1>1, WritingType DEF Kinds
<1>3. r.pc = pc /\ r.kind = kind /\ r.todo = FileOrder /\ r.new = new /\ r.next = "saved"
  BY DEF Writing
<1>. HIDE DEF r
<1>4. Ready(r)
  BY <1>1, <1>3 DEF Ready, Saves
<1>. QED
  BY <1>2, <1>4 DEF GoodWrite, r

LEMMA NextFileGood ==
    ASSUME NEW r, GoodWrite(r), r.pc \in {"write", "undo"}, r.todo # <<>>
    PROVE  /\ GoodWrite([r EXCEPT !.todo = Tail(@)])
           /\ Head(r.todo) \in DOMAIN r.new
           /\ r.new[Head(r.todo)] \in Held(Head(r.todo))
           /\ r.pc = "undo" => r.back[Head(r.todo)] \in Held(Head(r.todo))
<1>. DEFINE t == [r EXCEPT !.todo = Tail(r.todo)]
            D == DOMAIN r.new
<1>1. r.todo \in Seq(D) /\ r.new \in Parts /\ r.back \in Parts
  BY DEF GoodWrite, Ready, WriteRecords
<1>2. D \subseteq Files
  BY <1>1, PartsAre
<1>3. Head(r.todo) \in D /\ Tail(r.todo) \in Seq(D) /\ Tail(r.todo) \in Seq(Files)
  <2>1. PICK q \in Seq(D) : q = r.todo
    BY <1>1
  <2>2. q # <<>>
    BY <2>1
  <2>. HIDE DEF D
  <2>3. Head(q) \in D /\ Tail(q) \in Seq(D)
    BY <2>2
  <2>4. Tail(q) \in Seq(Files)
    BY <1>2, <2>3
  <2>. QED
    BY <2>1, <2>3, <2>4
<1>4. t \in WriteRecords
  BY <1>3 DEF GoodWrite, WriteRecords
<1>5. /\ t.pc = r.pc /\ t.kind = r.kind /\ t.new = r.new /\ t.next = r.next /\ t.back = r.back
      /\ t.todo = Tail(r.todo)
  BY DEF GoodWrite, WriteRecords
<1>. HIDE DEF t
<1>6. Ready(t)
  BY <1>3, <1>5 DEF GoodWrite, Ready
<1>7. GoodWrite(t)
  BY <1>4, <1>6 DEF GoodWrite
<1>8. r.new[Head(r.todo)] \in Held(Head(r.todo))
  BY <1>1, <1>3, PartsAre
<1>9. r.pc = "undo" => r.back[Head(r.todo)] \in Held(Head(r.todo))
  BY <1>1, <1>3, PartsAre DEF GoodWrite, Ready
<1>. QED
  BY <1>3, <1>7, <1>8, <1>9 DEF t

LEMMA CheckGood ==
    ASSUME NEW r, GoodWrite(r), r.pc = "write", r.next = "check"
    PROVE  GoodWrite([r EXCEPT !.pc = "check"])
<1>. DEFINE t == [r EXCEPT !.pc = "check"]
<1>1. t \in WriteRecords
  BY DEF GoodWrite, WriteRecords
<1>2. t.pc = "check" /\ t.kind = r.kind /\ t.new = r.new /\ t.next = r.next /\ t.back = r.back
  BY DEF GoodWrite, WriteRecords
<1>. HIDE DEF t
<1>3. Ready(t)
  BY <1>2 DEF GoodWrite, Ready
<1>. QED
  BY <1>1, <1>3 DEF GoodWrite, t

LEMMA RevertGood ==
    ASSUME NEW r, GoodWrite(r), r.pc \in {"write", "check"}, r.next = "check"
    PROVE  GoodWrite(Revert(r))
<1>1. r \in WriteRecords /\ r.new \in Parts /\ r.back \in Parts
  BY DEF GoodWrite, WriteRecords
<1>2. CASE r.kind = "template"
  <2>. DEFINE t1 == [r EXCEPT !.pc = "clear"]
              t2 == [t1 EXCEPT !.todo = FileOrder]
              t3 == [t2 EXCEPT !.new = r.back]
              t == [t3 EXCEPT !.next = "refused"]
  <2>1. DOMAIN r.back = Files
    BY <1>2 DEF GoodWrite, Ready, Saves
  <2>2. t1 \in WriteRecords /\ t1.pc = "clear"
    BY <1>1 DEF WriteRecords
  <2>3. t2 \in WriteRecords /\ t2.pc = "clear"
    <3>. HIDE DEF t1
    <3>. QED
      BY <2>2, FileOrderType DEF WriteRecords
  <2>4. t3 \in WriteRecords /\ t3.pc = "clear" /\ t3.new = r.back
    <3>. HIDE DEF t1, t2
    <3>. QED
      BY <1>1, <2>3 DEF WriteRecords
  <2>5. t \in WriteRecords /\ t.pc = "clear" /\ t.new = r.back /\ t.next = "refused"
    <3>. HIDE DEF t1, t2, t3
    <3>. QED
      BY <2>4 DEF WriteRecords
  <2>6. Revert(r) = t
    BY <1>2 DEF Revert
  <2>. HIDE DEF t
  <2>. QED
    BY <2>1, <2>5, <2>6 DEF GoodWrite, Ready
<1>3. CASE r.kind # "template"
  <2>. DEFINE todo == InOrder(DOMAIN r.new)
              t1 == [r EXCEPT !.pc = "undo"]
              t == [t1 EXCEPT !.todo = todo]
  <2>1. DOMAIN r.new \subseteq Files
    BY <1>1, PartsAre
  <2>2. todo \in Seq(DOMAIN r.new)
    BY <2>1, InOrderType
  <2>. HIDE DEF todo
  <2>3. DOMAIN r.new \subseteq DOMAIN r.back
    BY <1>3 DEF GoodWrite, Ready
  <2>4. t1 \in WriteRecords /\ t1.pc = "undo" /\ t1.new = r.new /\ t1.back = r.back
    BY <1>1 DEF WriteRecords
  <2>5. t \in WriteRecords /\ t.pc = "undo" /\ t.new = r.new /\ t.back = r.back /\ t.todo = todo
    <3>1. todo \in Seq(Files)
      BY <2>1, <2>2
    <3>. HIDE DEF t1
    <3>. QED
      BY <2>4, <3>1 DEF WriteRecords
  <2>6. Revert(r) = t
    BY <1>3 DEF Revert, UndoAll, todo
  <2>. HIDE DEF t
  <2>. QED
    BY <2>2, <2>3, <2>5, <2>6 DEF GoodWrite, Ready
<1>. QED
  BY <1>2, <1>3

LEMMA ClearedGood ==
    ASSUME NEW r, GoodWrite(r), r.pc = "clear"
    PROVE  GoodWrite([r EXCEPT !.pc = "write", !.todo = InOrder({f \in Files : r.new[f] # Gone})])
<1>. DEFINE S == {f \in Files : r.new[f] # Gone}
            todo == InOrder(S)
            t1 == [r EXCEPT !.pc = "write"]
            t == [t1 EXCEPT !.todo = todo]
<1>1. r \in WriteRecords /\ DOMAIN r.new = Files /\ r.next \in {"saved", "refused"}
  BY DEF GoodWrite, Ready
<1>2. todo \in Seq(Files)
  <2>1. todo \in Seq(S) /\ S \subseteq Files
    BY InOrderType
  <2>. HIDE DEF todo, S
  <2>. QED
    BY <2>1
<1>. HIDE DEF todo
<1>3. t1 \in WriteRecords /\ t1.pc = "write" /\ t1.new = r.new /\ t1.next = r.next
  BY <1>1 DEF WriteRecords
<1>4. t \in WriteRecords /\ t.pc = "write" /\ t.new = r.new /\ t.next = r.next /\ t.todo = todo
  <2>. HIDE DEF t1
  <2>. QED
    BY <1>2, <1>3 DEF WriteRecords
<1>5. [r EXCEPT !.pc = "write", !.todo = todo] = t
  OBVIOUS
<1>. HIDE DEF t
<1>. QED
  BY <1>1, <1>2, <1>4, <1>5 DEF GoodWrite, Ready, todo

-----------------------------------------------------------------------------
(* The steps keep the types *)

LEMMA FinishGood ==
    ASSUME Requests, made \subseteq made', NEW w \in Workers, NEW how, Finish(w, how)
    PROVE  Requests'
<1>1. GoodRequest(Idle, made')
  BY DEF GoodRequest
<1>. QED
  BY <1>1, GotoGood DEF Finish

\* One file of a directory is replaced.
LEMMA DiskType ==
    ASSUME disk \in [Dirs -> Packs], NEW d \in Dirs, NEW f \in Files, NEW c \in Held(f),
           disk' = [disk EXCEPT ![d][f] = c]
    PROVE  disk' \in [Dirs -> Packs]
<1>1. disk[d] \in Packs
  OBVIOUS
<1>2. [disk[d] EXCEPT ![f] = c] \in Packs
  BY <1>1, ReplaceFile
<1>3. disk' = [disk EXCEPT ![d] = [disk[d] EXCEPT ![f] = c]]
  OBVIOUS
<1>. QED
  BY <1>2, <1>3

LEMMA DirsHasWorld == World \in Dirs /\ Branches \subseteq Dirs
  BY DEF Dirs

LEMMA SubmitGood ==
    ASSUME Requests, made' = made, NEW w \in Workers, NEW kind \in {"file", "files"},
           NEW new \in Parts, NEW todo \in Seq(DOMAIN new),
           Submit(w, kind, todo, new, FALSE, FALSE)
    PROVE  Requests' /\ (reply' = reply \/ reply' = "refused")
<1>. DEFINE r == [Writing(kind, todo, new, "check") EXCEPT !.pc = "backup"]
<1>1. GoodRequest(r, made')
  BY BackupOfWriting DEF GoodRequest
<1>2. \/ Goto(w, r) /\ UNCHANGED reply
      \/ Finish(w, "refused")
  BY DEF Submit
<1>. HIDE DEF r
<1>. QED
  BY <1>1, <1>2, GotoGood, FinishGood DEF Finish

LEMMA SaveNextTypes ==
    ASSUME TypeInv, SaveNext
    PROVE  TypeInv'
<1>. USE DirsHasWorld
<1>1. Stored /\ Requests
  BY DEF TypeInv
<1>2. PICK w \in Workers :
        \/ \E f \in Files : \E c \in Contents[f] : WriteFile(w, f, c)
        \/ \E p \in Proposals, todo \in {FileOrder, <<"rumors", "facts">>} : WriteFiles(w, p, todo)
        \/ Backup(w) \/ WriteNext(w) \/ Written(w) \/ Check(w)
        \/ FailWrite(w) \/ Undo(w) \/ Undone(w)
  BY DEF SaveNext
<1>3. ASSUME NEW f \in Files, NEW c \in Contents[f], WriteFile(w, f, c)
      PROVE  TypeInv'
  <2>. DEFINE new == [g \in {f} |-> c]
              todo == <<f>>
  <2>1. new \in Parts /\ DOMAIN new = {f}
    BY OnePart
  <2>2. todo \in Seq(DOMAIN new)
    BY <2>1
  <2>3. Submit(w, "file", todo, new, FALSE, FALSE)
        /\ UNCHANGED <<made, disk, listed, accepted, ungated>>
    BY <1>3 DEF WriteFile
  <2>. HIDE DEF new, todo
  <2>4. Requests' /\ (reply' = reply \/ reply' = "refused")
    BY <1>1, <2>1, <2>2, <2>3, SubmitGood
  <2>. QED
    BY <1>1, <2>3, <2>4 DEF TypeInv, Stored
<1>4. ASSUME NEW p \in Proposals, NEW todo \in {FileOrder, <<"rumors", "facts">>},
             WriteFiles(w, p, todo)
      PROVE  TypeInv'
  <2>1. p \in Parts /\ DOMAIN p = Files
    BY PackAssumption, PacksAre DEF Drafts
  <2>2. todo \in Seq(DOMAIN p)
    <3>1. <<"rumors", "facts">> \in Seq(Files)
      BY DEF Files
    <3>. QED
      BY <2>1, <3>1, FileOrderType
  <2>3. Submit(w, "files", todo, p, FALSE, FALSE)
        /\ UNCHANGED <<made, disk, listed, accepted, ungated>>
    BY <1>4 DEF WriteFiles
  <2>4. Requests' /\ (reply' = reply \/ reply' = "refused")
    BY <1>1, <2>1, <2>2, <2>3, SubmitGood
  <2>. QED
    BY <1>1, <2>3, <2>4 DEF TypeInv, Stored
<1>5. CASE Backup(w)
  <2>. DEFINE back == [f \in DOMAIN req[w].new |-> disk[World][f]]
              r == [Writing(req[w].kind, req[w].todo, req[w].new, "check") EXCEPT !.back = back]
  <2>1. GoodBackup(req[w])
    BY <1>1, <1>5, RequestAt DEF Backup, At
  <2>2. back \in Parts /\ DOMAIN back = DOMAIN req[w].new
    <3>1. DOMAIN req[w].new \subseteq Files
      BY <2>1, PartsAre DEF GoodBackup
    <3>2. disk[World] \in Packs
      BY <1>1 DEF Stored
    <3>. QED
      BY <3>1, <3>2, PartOfPack
  <2>3. Goto(w, r) /\ UNCHANGED <<made, disk, listed, reply, accepted, ungated>>
    BY <1>5 DEF Backup
  <2>. HIDE DEF back
  <2>4. GoodWrite(r)
    BY <2>1, <2>2, BackedWriting DEF GoodBackup
  <2>. HIDE DEF r
  <2>5. Requests'
    BY <1>1, <2>3, <2>4, GotoGood DEF GoodRequest
  <2>. QED
    BY <1>1, <2>3, <2>5 DEF TypeInv, Stored
<1>6. CASE WriteNext(w) \/ Undo(w)
  <2>. DEFINE f == Head(req[w].todo)
              r == [req[w] EXCEPT !.todo = Tail(@)]
  <2>1. GoodWrite(req[w]) /\ req[w].pc \in {"write", "undo"} /\ req[w].todo # <<>>
    BY <1>1, <1>6, RequestAt DEF WriteNext, Undo, At
  <2>2. /\ f \in DOMAIN req[w].new /\ GoodWrite(r) /\ req[w].new[f] \in Held(f)
        /\ req[w].pc = "undo" => req[w].back[f] \in Held(f)
    BY <2>1, NextFileGood
  <2>3. f \in Files
    BY <2>1, <2>2, PartsAre DEF GoodWrite, WriteRecords
  <2>4. PICK c \in Held(f) : disk' = [disk EXCEPT ![World][f] = c]
    BY <1>6, <2>2 DEF WriteNext, Undo, At
  <2>5. Goto(w, r) /\ UNCHANGED <<made, listed, reply, accepted, ungated>>
    BY <1>6 DEF WriteNext, Undo
  <2>. HIDE DEF r, f
  <2>6. disk' \in [Dirs -> Packs]
    BY <1>1, <2>3, <2>4, DiskType DEF Stored
  <2>7. Requests'
    BY <1>1, <2>2, <2>5, GotoGood DEF GoodRequest
  <2>. QED
    BY <1>1, <2>5, <2>6, <2>7 DEF TypeInv, Stored
<1>7. CASE Written(w)
  <2>1. GoodWrite(req[w]) /\ req[w].pc = "write"
    BY <1>1, <1>7, RequestAt DEF Written, At
  <2>2. UNCHANGED <<made, disk, listed, ungated>>
    BY <1>7 DEF Written
  <2>3. CASE req[w].next = "check"
    <3>1. Goto(w, [req[w] EXCEPT !.pc = "check"]) /\ UNCHANGED <<reply, accepted>>
      BY <1>7, <2>3 DEF Written
    <3>2. GoodRequest([req[w] EXCEPT !.pc = "check"], made')
      BY <2>1, <2>3, CheckGood DEF GoodRequest
    <3>3. Requests'
      BY <1>1, <2>2, <3>1, <3>2, GotoGood
    <3>. QED
      BY <1>1, <2>2, <3>1, <3>3 DEF TypeInv, Stored
  <2>4. CASE req[w].next # "check"
    <3>1. Finish(w, req[w].next) /\ accepted' \in {accepted, disk[World]}
      BY <1>7, <2>4 DEF Written
    <3>2. req[w].next \in {"saved", "refused"}
      BY <2>1, <2>4 DEF GoodWrite, WriteRecords
    <3>3. Requests'
      BY <1>1, <2>2, <3>1, FinishGood
    <3>. QED
      BY <1>1, <2>2, <3>1, <3>2, <3>3 DEF TypeInv, Stored, Finish
  <2>. QED
    BY <2>3, <2>4
<1>8. CASE Check(w) \/ FailWrite(w)
  <2>1. UNCHANGED <<made, disk, listed, ungated>>
    BY <1>8 DEF Check, FailWrite
  <2>2. \/ /\ Goto(w, Revert(req[w])) /\ UNCHANGED <<reply, accepted>>
           /\ At(w, "check") \/ (At(w, "write") /\ req[w].next = "check")
        \/ /\ Finish(w, "saved") \/ Finish(w, "failed")
           /\ accepted' = disk[World]
    <3>1. CASE Check(w)
      BY <3>1, Zenon DEF Check
    <3>2. CASE FailWrite(w)
      BY <3>2, Zenon DEF FailWrite
    <3>. QED
      BY <1>8, <3>1, <3>2
  <2>3. CASE /\ Goto(w, Revert(req[w])) /\ UNCHANGED <<reply, accepted>>
             /\ At(w, "check") \/ (At(w, "write") /\ req[w].next = "check")
    <3>1. GoodWrite(req[w]) /\ req[w].pc \in {"write", "check"} /\ req[w].next = "check"
      BY <1>1, <2>3, RequestAt DEF At, GoodWrite, Ready
    <3>2. GoodRequest(Revert(req[w]), made')
      BY <3>1, RevertGood DEF GoodRequest
    <3>3. Requests'
      BY <1>1, <2>1, <2>3, <3>2, GotoGood
    <3>. QED
      BY <1>1, <2>1, <2>3, <3>3 DEF TypeInv, Stored
  <2>4. CASE (Finish(w, "saved") \/ Finish(w, "failed")) /\ accepted' = disk[World]
    <3>1. Requests'
      BY <1>1, <2>1, <2>4, FinishGood
    <3>. QED
      BY <1>1, <2>1, <2>4, <3>1 DEF TypeInv, Stored, Finish
  <2>. QED
    BY <2>2, <2>3, <2>4
<1>9. CASE Undone(w)
  <2>1. Requests'
    BY <1>1, <1>9, FinishGood DEF Undone
  <2>. QED
    BY <1>1, <1>9, <2>1 DEF TypeInv, Stored, Undone, Finish
<1>. QED
  BY <1>2, <1>3, <1>4, <1>5, <1>6, <1>7, <1>8, <1>9

LEMMA WorldNextTypes ==
    ASSUME TypeInv, WorldNext
    PROVE  TypeInv'
<1>. USE DirsHasWorld
<1>1. Stored /\ Requests
  BY DEF TypeInv
<1>2. PICK w \in Workers :
        \/ CreateWorld(w)
        \/ \E p \in Proposals, overwrite \in BOOLEAN : ImportWorld(w, p, overwrite)
        \/ Clear(w) \/ Cleared(w)
        \/ \E f \in Files : \E c \in Contents[f] : ApplyTemplate(w, f, c)
  BY DEF WorldNext
<1>3. CASE CreateWorld(w)
  <2>. DEFINE new == [f \in Files |-> "none"]
              r == Writing("create", FileOrder, new, "saved")
  <2>1. made' = made \cup {World} /\ Goto(w, r) /\ UNCHANGED <<disk, listed, reply, accepted, ungated>>
    BY <1>3 DEF CreateWorld
  <2>2. r = [r EXCEPT !.pc = "write"]
    BY DEF Writing
  <2>3. GoodWrite([r EXCEPT !.pc = "write"])
    BY EmptyIsPack, WholeWriting
  <2>. HIDE DEF r
  <2>4. GoodRequest(r, made')
    BY <2>2, <2>3 DEF GoodRequest
  <2>5. Requests'
    BY <1>1, <2>1, <2>4, GotoGood
  <2>. QED
    BY <1>1, <2>1, <2>5 DEF TypeInv, Stored
<1>4. ASSUME NEW p \in Proposals, NEW overwrite \in BOOLEAN, ImportWorld(w, p, overwrite)
      PROVE  TypeInv'
  <2>. DEFINE pc == IF World \in made THEN "clear" ELSE "write"
              r == [Writing("import", FileOrder, p, "saved") EXCEPT !.pc = pc]
  <2>1. p \in Packs /\ pc \in {"write", "clear"}
    BY PackAssumption DEF Drafts
  <2>. HIDE DEF pc
  <2>2. GoodWrite(r)
    BY <2>1, WholeWriting
  <2>3. \/ Goto(w, r) /\ UNCHANGED reply
        \/ Finish(w, "refused")
    BY <1>4 DEF ImportWorld, pc
  <2>4. made' \in {made, made \cup {World}} /\ UNCHANGED <<disk, listed, accepted, ungated>>
    BY <1>4 DEF ImportWorld
  <2>. HIDE DEF r
  <2>5. GoodRequest(r, made')
    BY <2>2 DEF GoodRequest
  <2>6. Requests'
    BY <1>1, <2>3, <2>4, <2>5, GotoGood, FinishGood
  <2>7. reply' = reply \/ reply' = "refused"
    BY <2>3 DEF Finish
  <2>. QED
    BY <1>1, <2>4, <2>6, <2>7 DEF TypeInv, Stored
<1>5. CASE Clear(w)
  <2>1. PICK f \in Files : disk' = [disk EXCEPT ![World][f] = Gone]
    BY <1>5 DEF Clear
  <2>2. Gone \in Held(f)
    BY DEF Held
  <2>3. disk' \in [Dirs -> Packs]
    BY <1>1, <2>1, <2>2, DiskType DEF Stored
  <2>4. Requests' /\ UNCHANGED <<made, listed, reply, accepted, ungated>>
    BY <1>1, <1>5, SameGood DEF Clear
  <2>. QED
    BY <1>1, <2>3, <2>4 DEF TypeInv, Stored
<1>6. CASE Cleared(w)
  <2>. DEFINE r == [req[w] EXCEPT !.pc = "write", !.todo = InOrder({f \in Files : req[w].new[f] # Gone})]
  <2>1. GoodWrite(req[w]) /\ req[w].pc = "clear"
    BY <1>1, <1>6, RequestAt DEF Cleared, At
  <2>2. GoodWrite(r)
    BY <2>1, ClearedGood
  <2>3. Goto(w, r) /\ UNCHANGED <<made, disk, listed, reply, accepted, ungated>>
    BY <1>6 DEF Cleared
  <2>. HIDE DEF r
  <2>4. Requests'
    BY <1>1, <2>2, <2>3, GotoGood DEF GoodRequest
  <2>. QED
    BY <1>1, <2>3, <2>4 DEF TypeInv, Stored
<1>7. ASSUME NEW f \in Files, NEW c \in Contents[f], ApplyTemplate(w, f, c)
      PROVE  TypeInv'
  <2>. DEFINE new == [g \in {f} |-> c]
              todo == <<f>>
              r == [Writing("template", todo, new, "check") EXCEPT !.back = disk[World]]
  <2>1. new \in Parts /\ DOMAIN new = {f}
    BY OnePart
  <2>2. todo \in Seq(DOMAIN new)
    BY <2>1
  <2>3. \/ Goto(w, r) /\ ungated' = TRUE /\ UNCHANGED reply
        \/ Finish(w, "refused") /\ UNCHANGED ungated
    BY <1>7 DEF ApplyTemplate
  <2>4. UNCHANGED <<made, disk, listed, accepted>>
    BY <1>7 DEF ApplyTemplate
  <2>. HIDE DEF new, todo
  <2>5. disk[World] \in Packs
    BY <1>1 DEF Stored
  <2>6. GoodWrite(r)
    BY <2>1, <2>2, <2>5, TemplateWriting
  <2>. HIDE DEF r
  <2>7. Requests'
    BY <1>1, <2>3, <2>4, <2>6, GotoGood, FinishGood DEF GoodRequest
  <2>8. (reply' = reply \/ reply' = "refused") /\ ungated' \in BOOLEAN
    BY <1>1, <2>3 DEF Finish, Stored
  <2>. QED
    BY <1>1, <2>4, <2>7, <2>8 DEF TypeInv, Stored
<1>. QED
  BY <1>2, <1>3, <1>4, <1>5, <1>6, <1>7

LEMMA EntityType ==
    ASSUME NEW p \in Packs, NEW f \in Files
    PROVE  Entity(p, f) \in Contents[f] /\ p[f] \in Held(f)
<1>1. p[f] \in Held(f)
  BY PacksAre, PartsAre
<1>2. "none" \in Contents[f]
  BY DEF Files, Contents
<1>. QED
  BY <1>1, <1>2 DEF Entity, Held

LEMMA SidesType ==
    ASSUME disk \in [Dirs -> Packs], NEW f \in Files, NEW ours \in Dirs, NEW theirs \in Dirs
    PROVE  Sides(f, ours, theirs) \in SideSet(f)
<1>1. disk[World] \in Packs /\ disk[ours] \in Packs /\ disk[theirs] \in Packs
  BY DirsHasWorld
<1>2. /\ Entity(disk[World], f) \in Contents[f]
      /\ Entity(disk[ours], f) \in Contents[f]
      /\ Entity(disk[theirs], f) \in Contents[f]
  BY <1>1, EntityType
<1>. QED
  BY <1>2 DEF Sides, SideSet

\* A merge proposes what one of the three sides holds, or what the request brings.
LEMMA MergedType ==
    ASSUME NEW f \in Files, NEW s \in SideSet(f), NEW choice \in Choices(f, s)
    PROVE  Merged(s, choice) \in Contents[f]
<1>1. s.base \in Contents[f] /\ s.ours \in Contents[f] /\ s.theirs \in Contents[f]
  BY DEF SideSet
<1>2. CASE InConflict(s)
  <2>1. choice \in {"unresolved", "base", "ours", "theirs"} \cup Contents[f]
    BY <1>2 DEF Choices
  <2>2. Resolve(choice, s) \in Contents[f]
    <3>1. CASE choice \in {"unresolved", "base"}
      BY <1>1, <3>1 DEF Resolve
    <3>2. CASE choice = "ours"
      BY <1>1, <3>2 DEF Resolve
    <3>3. CASE choice = "theirs"
      BY <1>1, <3>3 DEF Resolve
    <3>4. CASE choice \notin {"unresolved", "base", "ours", "theirs"}
      <4>1. Resolve(choice, s) = choice
        BY <3>4 DEF Resolve
      <4>. QED
        BY <2>1, <3>4, <4>1
    <3>. QED
      BY <3>1, <3>2, <3>3, <3>4
  <2>. QED
    BY <1>2, <2>2 DEF Merged
<1>3. CASE ~InConflict(s)
  <2>1. AutoMerge(s.base, s.ours, s.theirs) \in {s.ours, s.theirs}
    BY DEF AutoMerge
  <2>. QED
    BY <1>1, <1>3, <2>1 DEF Merged
<1>. QED
  BY <1>2, <1>3

LEMMA DraftOf ==
    ASSUME NEW p, p = [f \in Files |-> p[f]], \A f \in Files : p[f] \in Contents[f]
    PROVE  p \in Drafts
<1>1. \A f \in Files : p[f] \in Held(f) /\ p[f] # Gone
  BY DEF Held, Files, Contents, Gone
<1>2. DOMAIN p = Files
  OBVIOUS
<1>3. p \in Packs
  BY <1>1, <1>2, PartsAre, PacksAre
<1>. QED
  BY <1>1, <1>3 DEF Drafts

LEMMA MergeRestTypes ==
    ASSUME TypeInv, NEW w \in Workers, NEW confirm \in BOOLEAN, MergeRest(w, confirm)
    PROVE  TypeInv'
<1>. DEFINE sides == [f \in Files |-> IF f = "facts" THEN req[w].facts
                                      ELSE Sides(f, req[w].ours, req[w].theirs)]
            choices(fact, rumor) == [f \in Files |-> IF f = "facts" THEN fact ELSE rumor]
            new(choice) == [f \in Files |-> Merged(sides[f], choice[f])]
            left(choice) == {f \in Files : InConflict(sides[f]) /\ choice[f] = "unresolved"}
            next(choice) == [pc |-> "backup", kind |-> "merge", todo |-> FileOrder, new |-> new(choice),
                             next |-> "check", back |-> <<>>, sides |-> sides, left |-> left(choice),
                             ours |-> req[w].ours, theirs |-> req[w].theirs]
<1>1. Stored /\ Requests
  BY DEF TypeInv
<1>2. PICK fact \in Choices("facts", sides["facts"]), rumor \in Choices("rumors", sides["rumors"]) :
          IF Gate(new(choices(fact, rumor)), left(choices(fact, rumor)) # {}, confirm)
          THEN Goto(w, next(choices(fact, rumor))) /\ UNCHANGED reply
          ELSE Finish(w, "refused")
  BY Zenon DEF MergeRest
<1>. DEFINE choice == choices(fact, rumor)
            r == next(choice)
<1>3. (Goto(w, r) /\ reply' = reply) \/ Finish(w, "refused")
  BY <1>2
<1>4. UNCHANGED <<made, disk, listed, accepted, ungated>>
  BY DEF MergeRest
<1>5. GoodMerge(req[w])
  BY <1>1, RequestAt DEF MergeRest, At
<1>6. \A f \in Files : sides[f] \in SideSet(f)
  <2>1. Sides("rumors", req[w].ours, req[w].theirs) \in SideSet("rumors")
    BY <1>1, <1>5, SidesType DEF GoodMerge, Stored, Files
  <2>2. req[w].facts \in SideSet("facts")
    BY <1>5 DEF GoodMerge
  <2>. QED
    BY <2>1, <2>2 DEF Files
<1>7. \A f \in Files : choice[f] \in Choices(f, sides[f])
  BY DEF Files
<1>8. new(choice) \in Drafts
  <2>. DEFINE p == new(choice)
  <2>1. \A f \in Files : p[f] = Merged(sides[f], choice[f])
    OBVIOUS
  <2>2. p = [f \in Files |-> p[f]]
    OBVIOUS
  <2>. HIDE DEF p, sides, choice
  <2>3. \A f \in Files : p[f] \in Contents[f]
    BY <1>6, <1>7, <2>1, MergedType
  <2>4. p \in Drafts
    BY <2>2, <2>3, DraftOf
  <2>. QED
    BY <2>4 DEF p, sides, choice
<1>9. GoodBackup(r)
  <2>1. r.pc = "backup" /\ r.kind = "merge" /\ r.new = new(choice) /\ r.todo = FileOrder
    OBVIOUS
  <2>2. new(choice) \in Parts /\ DOMAIN new(choice) = Files
    BY <1>8, PacksAre DEF Drafts
  <2>. HIDE DEF r
  <2>. QED
    BY <1>8, <2>1, <2>2, FileOrderType DEF GoodBackup, Saves
<1>. HIDE DEF r
<1>10. Requests'
  BY <1>1, <1>3, <1>4, <1>9, GotoGood, FinishGood DEF GoodRequest
<1>11. reply' = reply \/ reply' = "refused"
  BY <1>3 DEF Finish
<1>. QED
  BY <1>1, <1>4, <1>10, <1>11 DEF TypeInv, Stored

LEMMA BranchNextTypes ==
    ASSUME TypeInv, BranchNext
    PROVE  TypeInv'
<1>. USE DirsHasWorld
<1>1. Stored /\ Requests
  BY DEF TypeInv
<1>2. ASSUME NEW b \in Branches, NEW f \in Files, NEW c \in Contents[f], EditBranch(b, f, c)
      PROVE  TypeInv'
  <2>1. disk' = [disk EXCEPT ![b][f] = c] /\ c \in Held(f)
    BY <1>2 DEF EditBranch, Held
  <2>2. disk' \in [Dirs -> Packs]
    BY <1>1, <2>1, DiskType DEF Stored
  <2>3. UNCHANGED <<made, listed, req, reply, accepted, ungated>>
    BY <1>2 DEF EditBranch
  <2>4. Requests'
    BY <1>1, <2>3, SameGood
  <2>. QED
    BY <1>1, <2>2, <2>3, <2>4 DEF TypeInv, Stored
<1>3. ASSUME NEW w \in Workers, NEW b \in Branches, CreateBranch(w, b)
      PROVE  TypeInv'
  <2>. DEFINE r == [pc |-> "copy", branch |-> b, todo |-> FileOrder]
  <2>1. UNCHANGED <<disk, listed, accepted, ungated>>
    BY <1>3 DEF CreateBranch
  <2>2. CASE made' = made \cup {b} /\ Goto(w, r) /\ UNCHANGED reply
    <3>1. GoodCopy(r, made')
      BY <2>2, FileOrderType DEF GoodCopy
    <3>. HIDE DEF r
    <3>2. Requests'
      BY <1>1, <2>2, <3>1, GotoGood DEF GoodRequest
    <3>. QED
      BY <1>1, <2>1, <2>2, <3>2 DEF TypeInv, Stored
  <2>3. CASE Finish(w, "refused") /\ UNCHANGED made
    <3>1. Requests'
      BY <1>1, <2>3, FinishGood
    <3>. QED
      BY <1>1, <2>1, <2>3, <3>1 DEF TypeInv, Stored, Finish
  <2>. QED
    BY <1>3, <2>2, <2>3 DEF CreateBranch
<1>4. ASSUME NEW w \in Workers, CopyFile(w)
      PROVE  TypeInv'
  <2>. DEFINE r == [req[w] EXCEPT !.todo = Tail(@)]
              b == req[w].branch
              f == Head(req[w].todo)
  <2>1. GoodCopy(req[w], made) /\ req[w].todo # <<>>
    BY <1>1, <1>4, RequestAt DEF CopyFile, At
  <2>2. b \in Branches \cap made /\ f \in Files /\ Tail(req[w].todo) \in Seq(Files)
    <3>1. b \in Branches \cap made /\ req[w].todo \in Seq(Files)
      BY <2>1 DEF GoodCopy
    <3>2. PICK q \in Seq(Files) : q = req[w].todo
      BY <3>1
    <3>3. q # <<>>
      BY <2>1, <3>2
    <3>4. Head(q) \in Files /\ Tail(q) \in Seq(Files)
      BY <3>3
    <3>. QED
      BY <3>1, <3>2, <3>4
  <2>3. GoodCopy(r, made)
    BY <2>1, <2>2 DEF GoodCopy
  <2>4. disk' = [disk EXCEPT ![b][f] = disk[World][f]] /\ Goto(w, r)
        /\ UNCHANGED <<made, listed, reply, accepted, ungated>>
    BY <1>4 DEF CopyFile
  <2>5. disk[World][f] \in Held(f)
    BY <1>1, <2>2, EntityType DEF Stored
  <2>. HIDE DEF b, f, r
  <2>6. disk' \in [Dirs -> Packs]
    BY <1>1, <2>2, <2>4, <2>5, DiskType DEF Stored
  <2>7. Requests'
    BY <1>1, <2>3, <2>4, GotoGood DEF GoodRequest
  <2>. QED
    BY <1>1, <2>4, <2>6, <2>7 DEF TypeInv, Stored
<1>5. ASSUME NEW w \in Workers, WriteMetadata(w)
      PROVE  TypeInv'
  <2>1. GoodCopy(req[w], made)
    BY <1>1, <1>5, RequestAt DEF WriteMetadata, At
  <2>2. req[w].branch \in Branches \cap made
    BY <2>1 DEF GoodCopy
  <2>3. /\ listed' = listed \cup {req[w].branch} /\ Finish(w, "copied")
        /\ UNCHANGED <<made, disk, accepted, ungated>>
    BY <1>5 DEF WriteMetadata
  <2>4. Requests'
    BY <1>1, <2>3, FinishGood
  <2>. QED
    BY <1>1, <2>2, <2>3, <2>4 DEF TypeInv, Stored, Finish
<1>6. ASSUME NEW w \in Workers, NEW ours \in Dirs, NEW theirs \in Dirs, Merge(w, ours, theirs)
      PROVE  TypeInv'
  <2>. DEFINE r == [pc |-> "merge", ours |-> ours, theirs |-> theirs,
                    facts |-> Sides("facts", ours, theirs)]
  <2>1. Sides("facts", ours, theirs) \in SideSet("facts")
    BY <1>1, SidesType DEF Stored, Files
  <2>2. GoodMerge(r)
    BY <2>1 DEF GoodMerge
  <2>3. Goto(w, r) /\ UNCHANGED <<made, disk, listed, reply, accepted, ungated>>
    BY <1>6 DEF Merge
  <2>. HIDE DEF r
  <2>4. Requests'
    BY <1>1, <2>2, <2>3, GotoGood DEF GoodRequest
  <2>. QED
    BY <1>1, <2>3, <2>4 DEF TypeInv, Stored
<1>. QED
  BY <1>2, <1>3, <1>4, <1>5, <1>6, MergeRestTypes DEF BranchNext

LEMMA InitTypes == Init => TypeInv
<1>. SUFFICES ASSUME Init
              PROVE  TypeInv
  OBVIOUS
<1>1. disk \in [Dirs -> Packs]
  <2>1. {Empty} \cup Drafts \subseteq Packs
    BY EmptyIsPack DEF Drafts
  <2>. QED
    BY <2>1 DEF Init
<1>2. made \subseteq Dirs /\ accepted \in Packs
  BY <1>1, DirsHasWorld DEF Init
<1>3. Requests
  BY DEF Init, Requests, GoodRequest
<1>. QED
  BY <1>1, <1>2, <1>3 DEF Init, TypeInv, Stored

LEMMA NextTypes == TypeInv /\ [Next]_vars => TypeInv'
<1>. SUFFICES ASSUME TypeInv, [Next]_vars
              PROVE  TypeInv'
  OBVIOUS
<1>1. Stored /\ Requests
  BY DEF TypeInv
<1>2. CASE UNCHANGED vars
  <2>1. Requests'
    BY <1>1, <1>2, SameGood DEF vars
  <2>. QED
    BY <1>1, <1>2, <2>1 DEF vars, TypeInv, Stored
<1>3. CASE Crash
  <2>1. Requests'
    BY <1>3 DEF Crash, Requests, GoodRequest
  <2>2. accepted' \in Packs
    BY <1>1, <1>3, DirsHasWorld DEF Crash, Stored
  <2>. QED
    BY <1>1, <1>3, <2>1, <2>2 DEF Crash, TypeInv, Stored
<1>. QED
  BY <1>2, <1>3, SaveNextTypes, WorldNextTypes, BranchNextTypes DEF Next

\* For any number of branches, worlds, proposals and requests at a time: a directory
\* holds nothing but what its files can hold, whatever requests write, put back and
\* copy at the same time, and a merge proposes whole files.
THEOREM TypeCorrect == Spec => []TypeOK
<1>. QED
  BY InitTypes, NextTypes, StoredIsTypeOK, PTL DEF Spec

-----------------------------------------------------------------------------
(***************************************************************************)
(* One author at a time.  Nothing locks a pack, so a save that two authors *)
(* make at once may put back a file the other has saved since.  With one   *)
(* request at a time, what is on disk is known at every step from what the *)
(* last accepted write left and from what the request has written so far.  *)
(***************************************************************************)

Clean(p, u) == Valid(p) /\ (Leaks(p) => u)
Pending(todo) == {todo[i] : i \in DOMAIN todo}

\* d is the world on disk, a the accepted one, u whether a template was applied.
\* Before a request writes, the world is the accepted one.
Resting(r, d, a) == r.pc \in {"idle", "backup", "copy", "merge"} => d = a
Proposing(r, a, u) ==
    r.pc = "backup" => Clean(Overlay(a, r.new), u) /\ DOMAIN r.new \subseteq Pending(r.todo)

\* A save has written the files it has passed, and read what they held.
Saving(r, d, a, u) ==
    r.pc \in {"write", "check"} /\ r.next = "check" =>
        /\ \A f \in Files \ DOMAIN r.new : d[f] = a[f]
        /\ \A f \in DOMAIN r.new :
              /\ r.back[f] = a[f]
              /\ r.pc = "check" \/ f \notin Pending(r.todo) => d[f] = r.new[f]
        /\ r.kind = "template" => r.back = a
        /\ Clean(Overlay(a, r.new), u)
Restoring(r, d, a) ==
    r.pc = "undo" =>
        /\ \A f \in DOMAIN r.new : r.back[f] = a[f]
        /\ \A f \in Files : f \notin Pending(r.todo) => d[f] = a[f]

\* A new world, an import, and a template that is taken back write every file.
Replacing(r, d, a, u) ==
    r.pc \in {"clear", "write"} /\ r.next # "check" =>
        /\ DOMAIN r.new = Files
        /\ r.pc = "write" => \A f \in Files : f \notin Pending(r.todo) => d[f] = r.new[f]
        /\ r.next = "saved" => Clean(r.new, u)
        /\ r.next = "refused" => r.new = a

Fits(r, d, a, u) ==
    /\ Resting(r, d, a) /\ Proposing(r, a, u) /\ Saving(r, d, a, u)
    /\ Restoring(r, d, a) /\ Replacing(r, d, a, u)

AloneInv ==
    /\ TypeInv
    /\ \A w \in Workers : Fits(req[w], disk[World], accepted, ungated)
    /\ AtRest /\ reply = "saved" => Clean(disk[World], ungated)

LEMMA AloneGoto ==
    ASSUME NEW only, Workers = {only}, AloneInv, TypeInv', NEW r, Goto(only, r),
           Fits(r, disk[World]', accepted', ungated'),
           r.pc = "idle" /\ reply' = "saved" => Clean(disk[World]', ungated')
    PROVE  AloneInv'
<1>1. req'[only] = r
  BY DEF Goto, AloneInv, TypeInv, Requests
<1>2. AtRest' => r.pc = "idle"
  BY <1>1 DEF AtRest, At
<1>. QED
  BY <1>1, <1>2 DEF AloneInv

\* The request is over and the world is the accepted one.
LEMMA AloneFinish ==
    ASSUME NEW only, Workers = {only}, AloneInv, TypeInv', NEW how, Finish(only, how),
           disk[World]' = accepted', how = "saved" => Clean(disk[World]', ungated')
    PROVE  AloneInv'
<1>1. Idle.pc = "idle"
  BY DEF Idle
<1>2. Fits(Idle, disk[World]', accepted', ungated')
  BY <1>1 DEF Fits, Resting, Proposing, Saving, Restoring, Replacing
<1>. QED
  BY <1>2, AloneGoto DEF Finish

\* Nothing of the world itself changes.
LEMMA AloneSame ==
    ASSUME NEW only, Workers = {only}, AloneInv, TypeInv',
           UNCHANGED <<req, reply, accepted, ungated>>, disk'[World] = disk[World]
    PROVE  AloneInv'
  BY DEF AloneInv, AtRest, At

LEMMA PackEqual ==
    ASSUME NEW p \in Packs, NEW q \in Packs, \A f \in Files : p[f] = q[f]
    PROVE  p = q
<1>1. p = [f \in Files |-> p[f]] /\ q = [f \in Files |-> q[f]]
  BY PacksAre, PartsAre
<1>. QED
  BY <1>1

LEMMA PendingTail ==
    ASSUME NEW S, NEW todo \in Seq(S), todo # <<>>
    PROVE  Pending(todo) \subseteq {Head(todo)} \cup Pending(Tail(todo))
<1>1. Len(todo) \in Nat /\ Len(todo) # 0 /\ Head(todo) = todo[1] /\ Len(Tail(todo)) = Len(todo) - 1
      /\ \A i \in 1..Len(todo) - 1 : Tail(todo)[i] = todo[i + 1]
  OBVIOUS
<1>2. ASSUME NEW i \in 1..Len(todo), i # 1
      PROVE  todo[i] \in Pending(Tail(todo))
  <2>1. i - 1 \in 1..Len(todo) - 1 /\ (i - 1) + 1 = i
    BY <1>1, <1>2
  <2>2. Tail(todo)[i - 1] = todo[i] /\ i - 1 \in DOMAIN Tail(todo)
    BY <1>1, <2>1
  <2>. QED
    BY <2>2 DEF Pending
<1>3. DOMAIN todo = 1..Len(todo)
  OBVIOUS
<1>. QED
  BY <1>1, <1>2, <1>3 DEF Pending

LEMMA NonePending == Pending(<<>>) = {}
  BY DEF Pending

LEMMA InOrderPending ==
    ASSUME NEW S \in SUBSET Files
    PROVE  S \subseteq Pending(InOrder(S))
  BY InOrderType DEF Pending

LEMMA AllPending == Pending(FileOrder) = Files
<1>1. FileOrder \in Seq(Files) /\ \A f \in Files : \E i \in DOMAIN FileOrder : FileOrder[i] = f
  BY FileOrderType
<1>2. \A i \in DOMAIN FileOrder : FileOrder[i] \in Files
  BY <1>1
<1>. QED
  BY <1>1, <1>2 DEF Pending

-----------------------------------------------------------------------------
(* Saves *)

LEMMA GateClean == ASSUME NEW p, NEW warned, NEW confirm, NEW u, Gate(p, warned, confirm) PROVE Clean(p, u)
  BY DEF Gate, Clean

LEMMA AloneSubmit ==
    ASSUME NEW only, Workers = {only}, AloneInv, TypeInv', At(only, "idle"),
           NEW kind, NEW todo, NEW new, DOMAIN new \subseteq Pending(todo),
           Submit(only, kind, todo, new, FALSE, FALSE),
           UNCHANGED <<disk, accepted, ungated>>
    PROVE  AloneInv'
<1>. DEFINE r == [Writing(kind, todo, new, "check") EXCEPT !.pc = "backup"]
<1>1. disk[World] = accepted
  BY DEF AloneInv, Fits, Resting, At
<1>2. CASE Gate(Overlay(disk[World], new), FALSE, FALSE)
  <2>1. Goto(only, r)
    BY <1>2 DEF Submit
  <2>2. r.pc = "backup" /\ r.new = new /\ r.todo = todo
    BY DEF Writing
  <2>3. Clean(Overlay(accepted, new), ungated)
    BY <1>1, <1>2, GateClean
  <2>. HIDE DEF r
  <2>4. Fits(r, disk[World]', accepted', ungated')
    BY <1>1, <2>2, <2>3 DEF Fits, Resting, Proposing, Saving, Restoring, Replacing
  <2>. QED
    BY <2>1, <2>2, <2>4, AloneGoto
<1>3. CASE ~Gate(Overlay(disk[World], new), FALSE, FALSE)
  <2>1. Finish(only, "refused")
    BY <1>3 DEF Submit
  <2>2. disk[World]' = accepted'
    BY <1>1
  <2>. QED
    BY <2>1, <2>2, AloneFinish
<1>. QED
  BY <1>2, <1>3

LEMMA AloneBackup ==
    ASSUME NEW only, Workers = {only}, AloneInv, TypeInv', Backup(only)
    PROVE  AloneInv'
<1>. DEFINE back == [f \in DOMAIN req[only].new |-> disk[World][f]]
            r == [Writing(req[only].kind, req[only].todo, req[only].new, "check") EXCEPT !.back = back]
<1>1. GoodBackup(req[only])
  BY RequestAt DEF AloneInv, TypeInv, Backup, At
<1>2. /\ disk[World] = accepted /\ Clean(Overlay(accepted, req[only].new), ungated)
      /\ DOMAIN req[only].new \subseteq Pending(req[only].todo)
  BY <1>1 DEF AloneInv, Fits, Resting, Proposing, GoodBackup
<1>3. Goto(only, r) /\ UNCHANGED <<disk, accepted, ungated>>
  BY DEF Backup
<1>4. /\ r.pc = "write" /\ r.kind = req[only].kind /\ r.todo = req[only].todo
      /\ r.new = req[only].new /\ r.next = "check" /\ r.back = back
  BY DEF Writing
<1>5. \A f \in DOMAIN r.new : r.back[f] = accepted[f]
  BY <1>2, <1>4
<1>6. r.kind # "template"
  BY <1>1, <1>4 DEF GoodBackup, Saves
<1>7. disk[World]' = accepted' /\ accepted' = accepted /\ ungated' = ungated
  BY <1>2, <1>3
<1>. HIDE DEF r
<1>8. Saving(r, disk[World]', accepted', ungated')
  BY <1>2, <1>4, <1>5, <1>6, <1>7 DEF Saving
<1>9. Fits(r, disk[World]', accepted', ungated')
  BY <1>4, <1>8 DEF Fits, Resting, Proposing, Restoring, Replacing
<1>. QED
  BY <1>3, <1>4, <1>9, AloneGoto

\* What a request writes next: c is what file f holds from then on.
LEMMA WorldReplaced ==
    ASSUME TypeInv, NEW f \in Files, NEW c, disk' = [disk EXCEPT ![World][f] = c]
    PROVE  \A g \in Files : disk[World]'[g] = IF g = f THEN c ELSE disk[World][g]
<1>1. disk \in [Dirs -> Packs] /\ World \in Dirs /\ disk[World] \in Packs
  BY DirsHasWorld DEF TypeInv, Stored
<1>2. DOMAIN disk[World] = Files
  BY <1>1, PacksAre
<1>. QED
  BY <1>1, <1>2

LEMMA AloneWriteNext ==
    ASSUME NEW only, Workers = {only}, AloneInv, TypeInv', WriteNext(only)
    PROVE  AloneInv'
<1>. DEFINE q == req[only]
            f == Head(q.todo)
            r == [q EXCEPT !.todo = Tail(@)]
<1>1. GoodWrite(q) /\ q.pc = "write" /\ q.todo # <<>>
  BY RequestAt DEF AloneInv, TypeInv, WriteNext, At
<1>2. /\ Goto(only, r) /\ UNCHANGED <<accepted, ungated>>
      /\ disk' = [disk EXCEPT ![World][f] = q.new[f]]
  BY DEF WriteNext
<1>3. Saving(q, disk[World], accepted, ungated) /\ Replacing(q, disk[World], accepted, ungated)
  BY DEF AloneInv, Fits
<1>4. q.todo \in Seq(DOMAIN q.new) /\ DOMAIN q.new \subseteq Files
  BY <1>1, PartsAre DEF GoodWrite, Ready, WriteRecords
<1>. HIDE DEF q
<1>5. f \in DOMAIN q.new /\ Pending(q.todo) \subseteq {f} \cup Pending(Tail(q.todo))
  BY <1>1, <1>4, NextFileGood, PendingTail
<1>6. /\ r.pc = q.pc /\ r.kind = q.kind /\ r.new = q.new /\ r.next = q.next /\ r.back = q.back
      /\ r.todo = Tail(q.todo)
  BY <1>1 DEF GoodWrite, WriteRecords
<1>. HIDE DEF f, r
<1>7. \A g \in Files : disk[World]'[g] = IF g = f THEN q.new[f] ELSE disk[World][g]
  BY <1>2, <1>4, <1>5, WorldReplaced DEF AloneInv
<1>8. accepted' = accepted /\ ungated' = ungated
  BY <1>2
<1>9. Saving(r, disk[World]', accepted', ungated')
  BY <1>1, <1>3, <1>4, <1>5, <1>6, <1>7, <1>8 DEF Saving
<1>10. Replacing(r, disk[World]', accepted', ungated')
  BY <1>1, <1>3, <1>4, <1>5, <1>6, <1>7, <1>8 DEF Replacing
<1>11. Fits(r, disk[World]', accepted', ungated')
  BY <1>1, <1>6, <1>9, <1>10 DEF Fits, Resting, Proposing, Restoring
<1>. QED
  BY <1>1, <1>2, <1>6, <1>11, AloneGoto

LEMMA AloneUndo ==
    ASSUME NEW only, Workers = {only}, AloneInv, TypeInv', Undo(only)
    PROVE  AloneInv'
<1>. DEFINE q == req[only]
            f == Head(q.todo)
            r == [q EXCEPT !.todo = Tail(@)]
<1>1. GoodWrite(q) /\ q.pc = "undo" /\ q.todo # <<>>
  BY RequestAt DEF AloneInv, TypeInv, Undo, At
<1>2. /\ Goto(only, r) /\ UNCHANGED <<accepted, ungated>>
      /\ disk' = [disk EXCEPT ![World][f] = q.back[f]]
  BY DEF Undo
<1>3. Restoring(q, disk[World], accepted)
  BY DEF AloneInv, Fits
<1>4. q.todo \in Seq(DOMAIN q.new) /\ DOMAIN q.new \subseteq Files
  BY <1>1, PartsAre DEF GoodWrite, Ready, WriteRecords
<1>. HIDE DEF q
<1>5. f \in DOMAIN q.new /\ Pending(q.todo) \subseteq {f} \cup Pending(Tail(q.todo))
  BY <1>1, <1>4, NextFileGood, PendingTail
<1>6. r.pc = q.pc /\ r.new = q.new /\ r.back = q.back /\ r.todo = Tail(q.todo)
  BY <1>1 DEF GoodWrite, WriteRecords
<1>. HIDE DEF f, r
<1>7. \A g \in Files : disk[World]'[g] = IF g = f THEN q.back[f] ELSE disk[World][g]
  BY <1>2, <1>4, <1>5, WorldReplaced DEF AloneInv
<1>8. accepted' = accepted
  BY <1>2
<1>9. Restoring(r, disk[World]', accepted')
  BY <1>1, <1>3, <1>4, <1>5, <1>6, <1>7, <1>8 DEF Restoring
<1>10. Fits(r, disk[World]', accepted', ungated')
  BY <1>1, <1>6, <1>9 DEF Fits, Resting, Proposing, Saving, Replacing
<1>. QED
  BY <1>1, <1>2, <1>6, <1>10, AloneGoto

\* All files are written.
LEMMA AloneWritten ==
    ASSUME NEW only, Workers = {only}, AloneInv, TypeInv', Written(only)
    PROVE  AloneInv'
<1>. DEFINE q == req[only]
            r == [q EXCEPT !.pc = "check"]
<1>1. GoodWrite(q) /\ q.pc = "write" /\ q.todo = <<>>
  BY RequestAt DEF AloneInv, TypeInv, Written, At
<1>2. Saving(q, disk[World], accepted, ungated) /\ Replacing(q, disk[World], accepted, ungated)
  BY DEF AloneInv, Fits
<1>3. disk[World] \in Packs /\ accepted \in Packs
  BY DirsHasWorld DEF AloneInv, TypeInv, Stored
<1>4. disk[World]' = disk[World] /\ ungated' = ungated
  BY DEF Written
<1>5. \A f : f \notin Pending(q.todo)
  BY <1>1, NonePending
<1>6. CASE q.next = "check"
  <2>1. Goto(only, r) /\ accepted' = accepted
    BY <1>6 DEF Written
  <2>2. /\ r.pc = "check" /\ r.kind = q.kind /\ r.new = q.new /\ r.next = q.next /\ r.back = q.back
    BY <1>1 DEF GoodWrite, WriteRecords
  <2>. HIDE DEF q, r
  <2>3. Saving(r, disk[World]', accepted', ungated')
    BY <1>1, <1>2, <1>4, <1>5, <1>6, <2>1, <2>2 DEF Saving
  <2>4. Fits(r, disk[World]', accepted', ungated')
    BY <2>2, <2>3 DEF Fits, Resting, Proposing, Restoring, Replacing
  <2>. QED
    BY <2>1, <2>2, <2>4, AloneGoto
<1>7. CASE q.next # "check"
  <2>1. Finish(only, q.next) /\ accepted' = IF q.next = "saved" THEN disk[World] ELSE accepted
    BY <1>7 DEF Written
  <2>2. q.next \in {"saved", "refused"} /\ q.new \in Parts
    BY <1>1, <1>7 DEF GoodWrite, WriteRecords
  <2>. HIDE DEF q
  <2>3. DOMAIN q.new = Files /\ \A f \in Files : disk[World][f] = q.new[f]
    BY <1>1, <1>2, <1>5, <1>7 DEF Replacing
  <2>4. disk[World] = q.new
    BY <1>3, <2>2, <2>3, PacksAre, PackEqual
  <2>5. disk[World]' = accepted' /\ (q.next = "saved" => Clean(disk[World]', ungated'))
    BY <1>1, <1>2, <1>4, <1>7, <2>1, <2>2, <2>4 DEF Replacing
  <2>. QED
    BY <2>1, <2>5, AloneFinish
<1>. QED
  BY <1>6, <1>7

\* The files of a save that was given up come back one after the other.
LEMMA AloneRevert ==
    ASSUME NEW only, Workers = {only}, AloneInv, TypeInv', GoodWrite(req[only]),
           req[only].pc \in {"write", "check"}, req[only].next = "check",
           Goto(only, Revert(req[only])), UNCHANGED <<disk, accepted, ungated>>
    PROVE  AloneInv'
<1>. DEFINE q == req[only]
            r == Revert(q)
<1>1. Saving(q, disk[World], accepted, ungated)
  BY DEF AloneInv, Fits
<1>2. disk[World]' = disk[World] /\ accepted' = accepted /\ ungated' = ungated
  OBVIOUS
<1>3. q.new \in Parts /\ DOMAIN q.new \subseteq Files
  BY PartsAre DEF GoodWrite, WriteRecords
<1>4. CASE q.kind = "template"
  <2>1. r.pc = "clear" /\ r.new = q.back /\ r.next = "refused"
    BY <1>4 DEF Revert, GoodWrite, WriteRecords
  <2>2. q.back = accepted /\ DOMAIN q.back = Files
    BY <1>1, <1>4 DEF Saving, GoodWrite, Ready, Saves
  <2>. HIDE DEF r, q
  <2>3. Replacing(r, disk[World]', accepted', ungated')
    BY <1>2, <2>1, <2>2 DEF Replacing
  <2>4. Fits(r, disk[World]', accepted', ungated')
    BY <2>1, <2>3 DEF Fits, Resting, Proposing, Saving, Restoring
  <2>. QED
    BY <2>1, <2>4, AloneGoto DEF r, q
<1>5. CASE q.kind # "template"
  <2>1. r.pc = "undo" /\ r.new = q.new /\ r.back = q.back /\ r.todo = InOrder(DOMAIN q.new)
    BY <1>5 DEF Revert, UndoAll, GoodWrite, WriteRecords
  <2>2. DOMAIN q.new \subseteq Pending(InOrder(DOMAIN q.new))
    BY <1>3, InOrderPending
  <2>. HIDE DEF r
  <2>3. Restoring(r, disk[World]', accepted')
    BY <1>1, <1>2, <2>1, <2>2 DEF Saving, Restoring
  <2>4. Fits(r, disk[World]', accepted', ungated')
    BY <2>1, <2>3 DEF Fits, Resting, Proposing, Saving, Replacing
  <2>. HIDE DEF q
  <2>. QED
    BY <2>1, <2>4, AloneGoto DEF r, q
<1>. QED
  BY <1>4, <1>5

LEMMA AloneCheck ==
    ASSUME NEW only, Workers = {only}, AloneInv, TypeInv', Check(only)
    PROVE  AloneInv'
<1>1. GoodWrite(req[only]) /\ req[only].pc = "check" /\ req[only].next = "check"
  BY RequestAt DEF AloneInv, TypeInv, Check, At, GoodWrite, Ready
<1>2. UNCHANGED <<disk, ungated>>
  BY DEF Check
<1>3. CASE Valid(disk[World])
  <2>1. Finish(only, "saved") /\ accepted' = disk[World]
    BY <1>3 DEF Check
  <2>2. disk[World] = Overlay(accepted, req[only].new)
    <3>1. disk[World] \in Packs /\ accepted \in Packs
      BY DirsHasWorld DEF AloneInv, TypeInv, Stored
    <3>2. disk[World] = [f \in Files |-> disk[World][f]]
      BY <3>1, PacksAre, PartsAre
    <3>3. Saving(req[only], disk[World], accepted, ungated)
      BY DEF AloneInv, Fits
    <3>4. \A f \in Files : disk[World][f] = IF f \in DOMAIN req[only].new THEN req[only].new[f] ELSE accepted[f]
      BY <1>1, <3>3 DEF Saving
    <3>. QED
      BY <3>2, <3>4 DEF Overlay
  <2>3. Clean(disk[World], ungated)
    BY <1>1, <2>2 DEF AloneInv, Fits, Saving
  <2>4. disk[World]' = accepted' /\ Clean(disk[World]', ungated')
    BY <1>2, <2>1, <2>3
  <2>. QED
    BY <2>1, <2>4, AloneFinish
<1>4. CASE ~Valid(disk[World])
  <2>1. Goto(only, Revert(req[only])) /\ UNCHANGED accepted
    BY <1>4 DEF Check
  <2>. QED
    BY <1>1, <1>2, <2>1, AloneRevert
<1>. QED
  BY <1>3, <1>4

LEMMA AloneFailWrite ==
    ASSUME NEW only, Workers = {only}, AloneInv, TypeInv', FailWrite(only)
    PROVE  AloneInv'
<1>1. GoodWrite(req[only])
  BY RequestAt DEF AloneInv, TypeInv, FailWrite, At
<1>2. UNCHANGED <<disk, ungated>>
  BY DEF FailWrite
<1>3. CASE At(only, "write") /\ req[only].next = "check" /\ req[only].kind # "file"
  <2>1. Goto(only, Revert(req[only])) /\ UNCHANGED accepted
    BY <1>3 DEF FailWrite
  <2>2. req[only].pc = "write"
    BY <1>3 DEF At
  <2>. QED
    BY <1>1, <1>2, <1>3, <2>1, <2>2, AloneRevert
<1>4. CASE ~(At(only, "write") /\ req[only].next = "check" /\ req[only].kind # "file")
  <2>1. Finish(only, "failed") /\ accepted' = disk[World]
    BY <1>4 DEF FailWrite
  <2>2. disk[World]' = accepted'
    BY <1>2, <2>1
  <2>. QED
    BY <2>1, <2>2, AloneFinish
<1>. QED
  BY <1>3, <1>4

LEMMA AloneUndone ==
    ASSUME NEW only, Workers = {only}, AloneInv, TypeInv', Undone(only)
    PROVE  AloneInv'
<1>1. req[only].pc = "undo" /\ req[only].todo = <<>>
  BY DEF Undone, At
<1>2. \A f \in Files : disk[World][f] = accepted[f]
  BY <1>1, NonePending DEF AloneInv, Fits, Restoring
<1>3. disk[World] = accepted
  BY <1>2, DirsHasWorld, PackEqual DEF AloneInv, TypeInv, Stored
<1>4. Finish(only, "refused") /\ disk[World]' = accepted'
  BY <1>3 DEF Undone
<1>. QED
  BY <1>4, AloneFinish

LEMMA AloneSaveNext ==
    ASSUME NEW only, Workers = {only}, AloneInv, TypeInv', SaveNext
    PROVE  AloneInv'
<1>1. \/ \E f \in Files : \E c \in Contents[f] : WriteFile(only, f, c)
      \/ \E p \in Proposals, todo \in {FileOrder, <<"rumors", "facts">>} : WriteFiles(only, p, todo)
      \/ Backup(only) \/ WriteNext(only) \/ Written(only) \/ Check(only)
      \/ FailWrite(only) \/ Undo(only) \/ Undone(only)
  BY DEF SaveNext
<1>2. ASSUME NEW f \in Files, NEW c \in Contents[f], WriteFile(only, f, c)
      PROVE  AloneInv'
  <2>. DEFINE new == [g \in {f} |-> c]
              todo == <<f>>
  <2>1. DOMAIN new \subseteq Pending(todo)
    <3>1. 1 \in DOMAIN todo /\ todo[1] = f
      OBVIOUS
    <3>. QED
      BY <3>1 DEF Pending
  <2>2. /\ At(only, "idle") /\ Submit(only, "file", todo, new, FALSE, FALSE)
        /\ UNCHANGED <<disk, accepted, ungated>>
    BY <1>2 DEF WriteFile, Begin
  <2>. HIDE DEF new, todo
  <2>. QED
    BY <2>1, <2>2, AloneSubmit
<1>3. ASSUME NEW p \in Proposals, NEW todo \in {FileOrder, <<"rumors", "facts">>},
             WriteFiles(only, p, todo)
      PROVE  AloneInv'
  <2>1. DOMAIN p = Files
    BY PackAssumption, PacksAre DEF Drafts
  <2>2. Files \subseteq Pending(<<"rumors", "facts">>)
    <3>. DEFINE t == <<"rumors", "facts">>
    <3>1. 1 \in DOMAIN t /\ 2 \in DOMAIN t /\ t[1] = "rumors" /\ t[2] = "facts"
      OBVIOUS
    <3>. HIDE DEF t
    <3>2. "rumors" \in Pending(t) /\ "facts" \in Pending(t)
      BY <3>1 DEF Pending
    <3>. QED
      BY <3>2 DEF Files, t
  <2>3. DOMAIN p \subseteq Pending(todo)
    BY <2>1, <2>2, AllPending
  <2>4. /\ At(only, "idle") /\ Submit(only, "files", todo, p, FALSE, FALSE)
        /\ UNCHANGED <<disk, accepted, ungated>>
    BY <1>3 DEF WriteFiles, Begin
  <2>. QED
    BY <2>3, <2>4, AloneSubmit
<1>. QED
  BY <1>1, <1>2, <1>3, AloneBackup, AloneWriteNext, AloneWritten, AloneCheck, AloneFailWrite,
     AloneUndo, AloneUndone

-----------------------------------------------------------------------------
(* New worlds, imports and templates *)

\* A request that replaces every file may begin with any world.
LEMMA AloneReplace ==
    ASSUME NEW only, Workers = {only}, AloneInv, TypeInv', NEW r, Goto(only, r),
           r.pc \in {"clear", "write"}, r.next # "check", DOMAIN r.new = Files,
           r.pc = "write" => Pending(r.todo) = Files,
           r.next = "saved" => Clean(r.new, ungated'),
           r.next = "refused" => r.new = accepted'
    PROVE  AloneInv'
<1>1. Replacing(r, disk[World]', accepted', ungated')
  BY DEF Replacing
<1>2. Fits(r, disk[World]', accepted', ungated')
  BY <1>1 DEF Fits, Resting, Proposing, Saving, Restoring
<1>. QED
  BY <1>2, AloneGoto

LEMMA AloneCreateWorld ==
    ASSUME NEW only, Workers = {only}, AloneInv, TypeInv', CreateWorld(only)
    PROVE  AloneInv'
<1>. DEFINE p == [f \in Files |-> "none"]
            r == Writing("create", FileOrder, p, "saved")
<1>1. Goto(only, r)
  BY DEF CreateWorld
<1>2. r.pc = "write" /\ r.next = "saved" /\ r.todo = FileOrder /\ r.new = p
  BY DEF Writing
<1>3. DOMAIN p = Files /\ p["facts"] = "none" /\ p["rumors"] = "none"
  BY DEF Files
<1>4. ASSUME NEW u
      PROVE  Clean(p, u)
  <2>1. Entity(p, "rumors") = "none"
    BY <1>3 DEF Entity, Gone
  <2>2. \A f \in Files : p[f] # Gone
    BY DEF Gone
  <2>. HIDE DEF p
  <2>. QED
    BY <1>3, <2>1, <2>2 DEF Clean, Valid, Leaks
<1>. HIDE DEF p, r
<1>5. Clean(r.new, ungated')
  BY <1>2, <1>4
<1>. QED
  BY <1>1, <1>2, <1>3, <1>5, AllPending, AloneReplace

LEMMA AloneImportWorld ==
    ASSUME NEW only, Workers = {only}, AloneInv, TypeInv',
           NEW p \in Proposals, NEW overwrite \in BOOLEAN, ImportWorld(only, p, overwrite)
    PROVE  AloneInv'
<1>1. UNCHANGED <<disk, accepted, ungated>> /\ At(only, "idle")
  BY DEF ImportWorld, Begin
<1>2. CASE Finish(only, "refused")
  <2>1. disk[World] = accepted
    BY <1>1 DEF AloneInv, Fits, Resting, At
  <2>2. disk[World]' = accepted'
    BY <1>1, <2>1
  <2>. QED
    BY <1>2, <2>2, AloneFinish
<1>3. CASE ~Finish(only, "refused")
  <2>. DEFINE pc == IF World \in made THEN "clear" ELSE "write"
              r == [Writing("import", FileOrder, p, "saved") EXCEPT !.pc = pc]
  <2>1. Goto(only, r) /\ Gate(p, FALSE, TRUE)
    BY <1>3 DEF ImportWorld
  <2>2. pc \in {"clear", "write"}
    OBVIOUS
  <2>. HIDE DEF pc
  <2>3. r.pc = pc /\ r.next = "saved" /\ r.todo = FileOrder /\ r.new = p
    BY DEF Writing
  <2>4. DOMAIN p = Files
    BY PackAssumption, PacksAre DEF Drafts
  <2>. HIDE DEF r
  <2>5. Clean(r.new, ungated')
    BY <2>1, <2>3, GateClean
  <2>. QED
    BY <2>1, <2>2, <2>3, <2>4, <2>5, AllPending, AloneReplace
<1>. QED
  BY <1>2, <1>3

LEMMA AloneClear ==
    ASSUME NEW only, Workers = {only}, AloneInv, TypeInv', Clear(only)
    PROVE  AloneInv'
<1>1. req[only].pc = "clear" /\ UNCHANGED <<req, reply, accepted, ungated>>
  BY DEF Clear, At
<1>2. Fits(req[only], disk[World], accepted, ungated)
  BY DEF AloneInv
<1>3. Fits(req[only], disk[World]', accepted, ungated)
  BY <1>1, <1>2 DEF Fits, Resting, Proposing, Saving, Restoring, Replacing
<1>4. ~AtRest'
  BY <1>1 DEF AtRest, At
<1>. QED
  BY <1>1, <1>3, <1>4 DEF AloneInv

LEMMA AloneCleared ==
    ASSUME NEW only, Workers = {only}, AloneInv, TypeInv', Cleared(only)
    PROVE  AloneInv'
<1>. DEFINE q == req[only]
            S == {f \in Files : q.new[f] # Gone}
            todo == InOrder(S)
            r == [q EXCEPT !.pc = "write", !.todo = todo]
<1>1. GoodWrite(q) /\ q.pc = "clear"
  BY RequestAt DEF AloneInv, TypeInv, Cleared, At
<1>2. disk[World] = Empty /\ Goto(only, r) /\ UNCHANGED <<disk, accepted, ungated>>
  BY DEF Cleared
<1>3. Replacing(q, disk[World], accepted, ungated)
  BY DEF AloneInv, Fits
<1>4. S \subseteq Pending(todo)
  BY InOrderPending
<1>5. r.pc = "write" /\ r.next = q.next /\ r.new = q.new /\ r.todo = todo
  BY <1>1 DEF GoodWrite, WriteRecords
<1>6. q.next # "check"
  BY <1>1 DEF GoodWrite, Ready
<1>7. disk[World]' = Empty /\ accepted' = accepted /\ ungated' = ungated
  BY <1>2
<1>8. \A f \in Files : f \notin Pending(todo) => Empty[f] = q.new[f]
  BY <1>4 DEF Empty
<1>. HIDE DEF q, todo, r
<1>9. Replacing(r, disk[World]', accepted', ungated')
  BY <1>1, <1>3, <1>5, <1>6, <1>7, <1>8 DEF Replacing
<1>10. Fits(r, disk[World]', accepted', ungated')
  BY <1>5, <1>6, <1>9 DEF Fits, Resting, Proposing, Saving, Restoring
<1>. QED
  BY <1>2, <1>5, <1>10, AloneGoto

LEMMA AloneApplyTemplate ==
    ASSUME NEW only, Workers = {only}, AloneInv, TypeInv',
           NEW f \in Files, NEW c \in Contents[f], ApplyTemplate(only, f, c)
    PROVE  AloneInv'
<1>. DEFINE new == [g \in {f} |-> c]
            todo == <<f>>
            r == [Writing("template", todo, new, "check") EXCEPT !.back = disk[World]]
<1>1. UNCHANGED <<disk, accepted>> /\ At(only, "idle")
  BY DEF ApplyTemplate, Begin
<1>2. disk[World] = accepted
  BY <1>1 DEF AloneInv, Fits, Resting, At
<1>3. disk[World]' = accepted /\ accepted' = accepted
  BY <1>1, <1>2
<1>4. CASE Valid(Overlay(disk[World], new))
  <2>1. Goto(only, r) /\ ungated' = TRUE
    BY <1>4 DEF ApplyTemplate
  <2>2. /\ r.pc = "write" /\ r.kind = "template" /\ r.todo = todo /\ r.new = new
        /\ r.next = "check" /\ r.back = disk[World]
    BY DEF Writing
  <2>3. DOMAIN new \subseteq Pending(todo)
    <3>1. 1 \in DOMAIN todo /\ todo[1] = f
      OBVIOUS
    <3>. QED
      BY <3>1 DEF Pending
  <2>. HIDE DEF new, todo, r
  <2>4. Clean(Overlay(accepted, new), ungated')
    BY <1>2, <1>4, <2>1 DEF Clean
  <2>5. Saving(r, disk[World]', accepted', ungated')
    BY <1>2, <1>3, <2>2, <2>3, <2>4 DEF Saving
  <2>6. Fits(r, disk[World]', accepted', ungated')
    BY <2>2, <2>5 DEF Fits, Resting, Proposing, Restoring, Replacing
  <2>. QED
    BY <2>1, <2>2, <2>6, AloneGoto
<1>5. CASE ~Valid(Overlay(disk[World], new))
  <2>1. Finish(only, "refused")
    BY <1>5 DEF ApplyTemplate
  <2>2. disk[World]' = accepted'
    BY <1>3
  <2>. QED
    BY <2>1, <2>2, AloneFinish
<1>. QED
  BY <1>4, <1>5

LEMMA AloneWorldNext ==
    ASSUME NEW only, Workers = {only}, AloneInv, TypeInv', WorldNext
    PROVE  AloneInv'
<1>1. \/ CreateWorld(only)
      \/ \E p \in Proposals, overwrite \in BOOLEAN : ImportWorld(only, p, overwrite)
      \/ Clear(only) \/ Cleared(only)
      \/ \E f \in Files : \E c \in Contents[f] : ApplyTemplate(only, f, c)
  BY DEF WorldNext
<1>. QED
  BY <1>1, AloneCreateWorld, AloneImportWorld, AloneClear, AloneCleared, AloneApplyTemplate

-----------------------------------------------------------------------------
(* Branches and merges *)

\* A copy and a merge leave the world alone until the merge is saved.
LEMMA AloneElsewhere ==
    ASSUME NEW only, Workers = {only}, AloneInv, TypeInv', NEW r, Goto(only, r),
           r.pc \in {"copy", "merge"}, disk[World] = accepted,
           disk'[World] = disk[World], UNCHANGED <<accepted, ungated>>
    PROVE  AloneInv'
<1>1. disk[World]' = accepted'
  OBVIOUS
<1>2. Fits(r, disk[World]', accepted', ungated')
  BY <1>1 DEF Fits, Resting, Proposing, Saving, Restoring, Replacing
<1>. QED
  BY <1>2, AloneGoto

\* Before a request writes, the world is the accepted one.
LEMMA AloneRests ==
    ASSUME NEW only, Workers = {only}, AloneInv, req[only].pc \in {"idle", "copy", "merge"}
    PROVE  disk[World] = accepted
  BY DEF AloneInv, Fits, Resting

LEMMA AloneCopyFile ==
    ASSUME NEW only, Workers = {only}, AloneInv, TypeInv', CopyFile(only)
    PROVE  AloneInv'
<1>. DEFINE q == req[only]
            r == [q EXCEPT !.todo = Tail(@)]
            b == q.branch
            f == Head(q.todo)
<1>1. GoodCopy(q, made) /\ q.pc = "copy"
  BY RequestAt DEF AloneInv, TypeInv, CopyFile, At
<1>2. /\ Goto(only, r) /\ UNCHANGED <<accepted, ungated>>
      /\ disk' = [disk EXCEPT ![b][f] = disk[World][f]]
  BY DEF CopyFile
<1>3. b # World /\ r.pc = "copy"
  BY <1>1, BranchAssumption DEF GoodCopy
<1>4. disk \in [Dirs -> Packs]
  BY DEF AloneInv, TypeInv, Stored
<1>. HIDE DEF b, f
<1>5. disk'[World] = disk[World]
  BY <1>2, <1>3, <1>4
<1>6. disk[World] = accepted
  BY <1>1, AloneRests
<1>. HIDE DEF r, q
<1>. QED
  BY <1>2, <1>3, <1>5, <1>6, AloneElsewhere

LEMMA AloneMergeRest ==
    ASSUME NEW only, Workers = {only}, AloneInv, TypeInv',
           NEW confirm \in BOOLEAN, MergeRest(only, confirm)
    PROVE  AloneInv'
<1>. DEFINE sides == [f \in Files |-> IF f = "facts" THEN req[only].facts
                                      ELSE Sides(f, req[only].ours, req[only].theirs)]
            choices(fact, rumor) == [f \in Files |-> IF f = "facts" THEN fact ELSE rumor]
            new(choice) == [f \in Files |-> Merged(sides[f], choice[f])]
            left(choice) == {f \in Files : InConflict(sides[f]) /\ choice[f] = "unresolved"}
            next(choice) == [pc |-> "backup", kind |-> "merge", todo |-> FileOrder, new |-> new(choice),
                             next |-> "check", back |-> <<>>, sides |-> sides, left |-> left(choice),
                             ours |-> req[only].ours, theirs |-> req[only].theirs]
<1>1. req[only].pc = "merge" /\ UNCHANGED <<disk, accepted, ungated>>
  BY DEF MergeRest, At
<1>2. PICK fact \in Choices("facts", sides["facts"]), rumor \in Choices("rumors", sides["rumors"]) :
          IF Gate(new(choices(fact, rumor)), left(choices(fact, rumor)) # {}, confirm)
          THEN Goto(only, next(choices(fact, rumor))) /\ UNCHANGED reply
          ELSE Finish(only, "refused")
  BY Zenon DEF MergeRest
<1>. DEFINE choice == choices(fact, rumor)
            p == new(choice)
            warned == left(choice) # {}
            r == next(choice)
<1>3. disk[World] = accepted
  BY <1>1, AloneRests
<1>4. disk[World]' = accepted' /\ accepted' = accepted /\ ungated' = ungated
  BY <1>1, <1>3
<1>5. CASE Finish(only, "refused")
  BY <1>4, <1>5, AloneFinish
<1>6. CASE Goto(only, r) /\ Gate(p, warned, confirm)
  <2>1. r.pc = "backup" /\ r.new = p /\ r.todo = FileOrder
    OBVIOUS
  <2>2. DOMAIN p = Files /\ p = [f \in Files |-> p[f]]
    OBVIOUS
  <2>. HIDE DEF p, r, warned
  <2>3. Overlay(accepted, p) = [f \in Files |-> p[f]]
    BY <2>2 DEF Overlay
  <2>4. Clean(Overlay(accepted, p), ungated)
    BY <1>6, <2>2, <2>3, GateClean
  <2>5. Proposing(r, accepted', ungated')
    BY <1>4, <2>1, <2>2, <2>4, AllPending DEF Proposing
  <2>6. Fits(r, disk[World]', accepted', ungated')
    BY <1>4, <2>1, <2>5 DEF Fits, Resting, Saving, Restoring, Replacing
  <2>. QED
    BY <1>6, <2>1, <2>6, AloneGoto
<1>. QED
  BY <1>2, <1>5, <1>6

LEMMA AloneBranchNext ==
    ASSUME NEW only, Workers = {only}, AloneInv, TypeInv', BranchNext
    PROVE  AloneInv'
<1>1. ASSUME NEW b \in Branches, NEW f \in Files, NEW c \in Contents[f], EditBranch(b, f, c)
      PROVE  AloneInv'
  <2>1. /\ UNCHANGED <<req, reply, accepted, ungated>>
        /\ disk' = [disk EXCEPT ![b][f] = c] /\ disk \in [Dirs -> Packs] /\ b # World
    BY <1>1, BranchAssumption DEF EditBranch, AloneInv, TypeInv, Stored
  <2>2. disk'[World] = disk[World]
    BY <2>1
  <2>. QED
    BY <2>1, <2>2, AloneSame
<1>2. ASSUME NEW b \in Branches, CreateBranch(only, b)
      PROVE  AloneInv'
  <2>. DEFINE r == [pc |-> "copy", branch |-> b, todo |-> FileOrder]
  <2>1. At(only, "idle") /\ UNCHANGED <<disk, accepted, ungated>>
    BY <1>2 DEF CreateBranch, Begin
  <2>2. disk[World] = accepted
    BY <2>1, AloneRests DEF At
  <2>3. Goto(only, r) \/ Finish(only, "refused")
    BY <1>2 DEF CreateBranch
  <2>4. r.pc = "copy"
    OBVIOUS
  <2>. HIDE DEF r
  <2>5. CASE Goto(only, r)
    BY <2>1, <2>2, <2>4, <2>5, AloneElsewhere
  <2>6. CASE Finish(only, "refused")
    <3>1. disk[World]' = accepted'
      BY <2>1, <2>2
    <3>. QED
      BY <2>6, <3>1, AloneFinish
  <2>. QED
    BY <2>3, <2>5, <2>6
<1>3. CASE WriteMetadata(only)
  <2>1. At(only, "copy") /\ UNCHANGED <<disk, accepted, ungated>> /\ Finish(only, "copied")
    BY <1>3 DEF WriteMetadata
  <2>2. disk[World] = accepted
    BY <2>1, AloneRests DEF At
  <2>3. disk[World]' = accepted'
    BY <2>1, <2>2
  <2>. QED
    BY <2>1, <2>3, AloneFinish
<1>4. ASSUME NEW ours \in Dirs, NEW theirs \in Dirs, Merge(only, ours, theirs)
      PROVE  AloneInv'
  <2>. DEFINE r == [pc |-> "merge", ours |-> ours, theirs |-> theirs,
                    facts |-> Sides("facts", ours, theirs)]
  <2>1. At(only, "idle") /\ UNCHANGED <<disk, accepted, ungated>> /\ Goto(only, r)
    BY <1>4 DEF Merge, Begin
  <2>2. disk[World] = accepted /\ r.pc = "merge"
    BY <2>1, AloneRests DEF At
  <2>. HIDE DEF r
  <2>. QED
    BY <2>1, <2>2, AloneElsewhere
<1>5. \/ \E b \in Branches, f \in Files : \E c \in Contents[f] : EditBranch(b, f, c)
      \/ \E b \in Branches : CreateBranch(only, b)
      \/ CopyFile(only) \/ WriteMetadata(only)
      \/ \E ours, theirs \in Dirs : Merge(only, ours, theirs)
      \/ \E confirm \in BOOLEAN : MergeRest(only, confirm)
  BY DEF BranchNext
<1>. QED
  BY <1>1, <1>2, <1>3, <1>4, <1>5, AloneCopyFile, AloneMergeRest

-----------------------------------------------------------------------------
LEMMA AloneInit == ASSUME NEW only, Workers = {only}, Init PROVE AloneInv
<1>1. Idle.pc = "idle"
  BY DEF Idle
<1>2. req[only] = Idle /\ disk[World] = accepted /\ reply = "none"
  BY DEF Init
<1>3. Fits(req[only], disk[World], accepted, ungated)
  BY <1>1, <1>2 DEF Fits, Resting, Proposing, Saving, Restoring, Replacing
<1>. QED
  BY <1>2, <1>3, InitTypes DEF AloneInv

LEMMA AloneStep == ASSUME NEW only, Workers = {only}, AloneInv, [Next]_vars PROVE AloneInv'
<1>1. TypeInv'
  BY NextTypes DEF AloneInv
<1>2. CASE UNCHANGED vars
  BY <1>1, <1>2, AloneSame DEF vars
<1>3. CASE Crash
  <2>1. req'[only] = Idle /\ reply' = "died" /\ disk[World]' = accepted'
    BY <1>3 DEF Crash
  <2>2. Idle.pc = "idle"
    BY DEF Idle
  <2>3. Fits(req'[only], disk[World]', accepted', ungated')
    BY <2>1, <2>2 DEF Fits, Resting, Proposing, Saving, Restoring, Replacing
  <2>. QED
    BY <1>1, <2>1, <2>3 DEF AloneInv
<1>. QED
  BY <1>1, <1>2, <1>3, AloneSaveNext, AloneWorldNext, AloneBranchNext DEF Next

\* With one request at a time, a request that reports success leaves the files the
\* gate judged: a world the validator accepts, and one that gives nothing hidden away
\* unless a template wrote it, for any worlds, branches and proposals and whatever
\* could not be written or died before.
THEOREM SavedWorldsAreClean ==
    ASSUME NEW only, Workers = {only}
    PROVE  Spec => []SavedIsClean
<1>1. Init => AloneInv
  BY AloneInit
<1>2. AloneInv /\ [Next]_vars => AloneInv'
  BY AloneStep
<1>3. AloneInv => SavedIsClean
  BY DEF AloneInv, SavedIsClean, Clean
<1>. QED
  BY <1>1, <1>2, <1>3, PTL DEF Spec

\* With one request at a time, a request that is refused leaves the world as the last
\* accepted write left it, whatever it had written before and however many files it
\* has put back.
THEOREM RefusalsWriteNothing ==
    ASSUME NEW only, Workers = {only}
    PROVE  Spec => []RefusedWritesNothing
<1>1. Init => AloneInv
  BY AloneInit
<1>2. AloneInv /\ [Next]_vars => AloneInv'
  BY AloneStep
<1>3. AloneInv => RefusedWritesNothing
  BY DEF AloneInv, RefusedWritesNothing, AtRest, At, Fits, Resting
<1>. QED
  BY <1>1, <1>2, <1>3, PTL DEF Spec
===============================================================================
