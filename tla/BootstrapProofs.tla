---------------------------- MODULE BootstrapProofs ----------------------------
(***************************************************************************)
(* For any number of helpers, folders and paths of any depth: somebody     *)
(* else's folder is never touched, a helper that goes on has the whole     *)
(* layout, parents are made only as asked, nobody is barred by those who   *)
(* make the same folders, and what was left half done is completed.  The   *)
(* rules by which a CLI run is read come first: what they take it to have  *)
(* done is so.                                                             *)
(***************************************************************************)
EXTENDS Bootstrap, TLAPS

\* What Stat reports without an error is what there is.
LEMMA StatIsTrue ==
    ASSUME NEW node \in Nodes, NEW run \in InfoRuns(node), StatSays(run) # "error"
    PROVE  StatSays(run) = node
<1>1. CASE run \in Broken
  <2>1. run.says = "noise"
    BY <1>1 DEF Broken
  <2> QED
    BY <2>1 DEF StatSays
<1>2. CASE node = "absent" /\ run = [code |-> "other", says |-> "notFound"]
  BY <1>2 DEF StatSays
<1>3. CASE node # "absent" /\ run = [code |-> "zero", says |-> node]
  BY <1>3 DEF StatSays, Nodes
<1>4. CASE run = [code |-> "zero", says |-> "otherType"]
  BY <1>4 DEF StatSays
<1> QED
  BY <1>1, <1>2, <1>3, <1>4 DEF InfoRuns

\* create-folder is taken to have worked only if it has.
LEMMA MadeIsTrue == \A run \in CreateFolderRuns("nothing") : CreateFolderSays(run) # "made"
<1>1. \A run \in CreateFolderRuns("nothing") : run.code # "zero"
  BY DEF CreateFolderRuns
<1> QED
  BY <1>1 DEF CreateFolderSays

\* An upload is taken to be committed only if it landed.
LEMMA CommittedIsTrue ==
    ASSUME NEW existed \in BOOLEAN, NEW run \in UploadRuns(FALSE, existed)
    PROVE  UploadSays(run) # "committed"
<1>1. run.counts[1] # 1
  BY DEF UploadRuns
<1> QED
  BY <1>1 DEF UploadSays

\* It is taken to be refused only if a marker was there.
LEMMA RefusedIsTrue ==
    ASSUME NEW landed \in BOOLEAN, NEW run \in UploadRuns(landed, FALSE)
    PROVE  UploadSays(run) # "refused"
<1>1. run.counts[2] # 1
  BY DEF UploadRuns
<1> QED
  BY <1>1 DEF UploadSays

-----------------------------------------------------------------------------
\* What an EnsureDir step can do.
Looks(h, node, go) ==
    /\ NoChange
    /\ \/ node = "folder" /\ go
       \/ node = "absent" /\ look' = [look EXCEPT ![h] = "create"]
          /\ UNCHANGED <<pc, walked, checked, faulted, misled>>
       \/ node = "file" /\ Learn(h, "barred")
       \/ Fail(h)

LEMMA LookAtLooks ==
    ASSUME NEW h, NEW node \in Nodes, NEW ACTION go, LookAt(h, node, go)
    PROVE  Looks(h, node, go)
<1>1. PICK run \in InfoRuns(node) :
          CASE StatSays(run) = "folder" -> go
            [] StatSays(run) = "absent" /\ look[h] = "stat"
                 -> look' = [look EXCEPT ![h] = "create"] /\ UNCHANGED <<pc, walked, checked, faulted, misled>>
            [] StatSays(run) = "file" -> Learn(h, "barred")
            [] OTHER -> Fail(h)
  BY DEF LookAt
<1>2. StatSays(run) = "error" \/ StatSays(run) = node
  BY StatIsTrue
<1>3. NoChange
  BY DEF LookAt
<1> QED
  BY <1>1, <1>2, <1>3 DEF Looks, Nodes

Creates(h, possible, make, go) ==
    /\ look[h] = "create"
    /\ \/ possible /\ make /\ go
       \/ /\ (possible /\ make) \/ NoChange
          /\ \/ look' = [look EXCEPT ![h] = "again"] /\ UNCHANGED <<pc, walked, checked, faulted, misled>>
             \/ Fail(h)

LEMMA CreateFolderCreates ==
    ASSUME NEW h, NEW possible, NEW ACTION make, NEW ACTION go,
           CreateFolder(h, possible, make, go)
    PROVE  Creates(h, possible, make, go)
<1>1. CASE /\ possible /\ make
           /\ \E run \in CreateFolderRuns("made") : AfterCreate(h, run, go)
  BY <1>1 DEF AfterCreate, Creates, CreateFolder
<1>2. CASE NoChange /\ \E run \in CreateFolderRuns("nothing") : AfterCreate(h, run, go)
  BY <1>2, MadeIsTrue DEF AfterCreate, Creates, CreateFolder
<1> QED
  BY <1>1, <1>2 DEF CreateFolder

-----------------------------------------------------------------------------
\* A folder the helpers leave alone: it was neither ours nor empty, and it has
\* somebody's marker, or no listing of it came back with nothing.
Barred == /\ ~(Ours(start.folder) \/ Vacant(start.folder))
          /\ start.folder.marker = "absent" => misled = {}

\* No helper gets past the recognition there, and where a marker stands none
\* gets to the listing.
Claims ==
    Barred =>
        /\ folder = start.folder
        /\ \A h \in Helpers :
              /\ pc[h] \notin {"create", "subdirs", "ready"}
              /\ pc[h] \in {"ensure", "list"} => start.folder.marker = "absent"

\* Past the recognition, the marker is ours and stays so.
Recognises ==
    \A h \in Helpers : pc[h] \in {"subdirs", "ready"} => Ours(folder)

\* What a helper has ensured is there and stays so.
Ensured ==
    \A h \in Helpers :
        /\ \A i \in 1..checked[h] : Layout[i] \in folder.subdirs
        /\ pc[h] = "ready" => checked[h] = 4

\* Only what was missing is made, and of the parents by one told to.
Grown ==
    /\ path[0] = start.path[0]
    /\ \A i \in Steps :
          path[i] = start.path[i] \/ (start.path[i] = "absent" /\ path[i] = "folder")
    /\ (\E i \in 1..Depth : path[i] # start.path[i]) => makers # {}

\* Who is about to make a parent was told to.
Told ==
    \A h \in Helpers :
        /\ pc[h] = "mount" => look[h] = "stat"
        /\ pc[h] = "parents" /\ look[h] # "stat" => h \in makers

\* A folder without a marker, of a repo or of nobody, is still empty.
StillVacant ==
    (Ours(start.folder) \/ Vacant(start.folder)) /\ folder.marker = "absent" => Vacant(folder)

\* What a helper has found there is there, unless another one has changed it.
Found ==
    \A h \in Helpers :
        /\ pc[h] \in {"ensure", "list"} => folder.marker = "absent" \/ h \in raced
        /\ pc[h] = "read" => folder.marker # "absent"

IInv ==
    /\ TypeOK /\ Claims /\ Recognises /\ Ensured /\ Grown /\ Told /\ BarredForCause
    /\ StillVacant /\ Found /\ PartialIsCompleted

LEMMA InvInit == Init => IInv
<1> SUFFICES ASSUME Init PROVE IInv
  OBVIOUS
<1>1. TypeOK
  BY BootstrapConstants
     DEF BootstrapConstants, Init, TypeOK, Phases, Steps, Root
<1>2. Grown
  BY <1>1, BootstrapConstants DEF BootstrapConstants, Grown, Init, Steps, Root
<1> QED
  BY <1>1, <1>2 DEF Init, IInv, Claims, Barred, Recognises, Ensured, Told, BarredForCause,
     StillVacant, Found, PartialIsCompleted, Ours, Vacant

-----------------------------------------------------------------------------
\* One lemma for each action: what it can do, its runs read.
Others(h) ==
    \A g \in Helpers \ {h} :
        /\ pc'[g] = pc[g] /\ look'[g] = look[g]
        /\ walked'[g] = walked[g] /\ checked'[g] = checked[g]

\* Where the helper may be after a step from where it was.
Onward(h) ==
    \/ pc'[h] = pc[h]
    \/ pc'[h] \in {"failed", "dead"}
    \/ pc[h] = "mount" /\ pc'[h] \in {"parents", "barred"}
    \/ pc[h] \in {"parents", "ensure", "subdirs"} /\ pc'[h] = "barred"
    \/ pc[h] = "parents" /\ pc'[h] = "ensure" /\ folder.marker = "absent"
    \/ pc[h] = "parents" /\ pc'[h] = "read" /\ folder'.marker # "absent"
    \/ pc[h] = "ensure" /\ pc'[h] = "list"
    \/ pc[h] = "list" /\ pc'[h] = "create" /\ (Empty(folder) \/ misled' # {})
    \/ pc[h] = "list" /\ pc'[h] = "refused" /\ ~Empty(folder)
    \/ pc[h] = "read" /\ pc'[h] = "refused" /\ ~Ours(folder)
    \/ pc[h] = "create" /\ pc'[h] = "read" /\ folder'.marker # "absent"
    \/ pc[h] = "create" /\ pc'[h] = "subdirs" /\ Ours(folder')
    \/ pc[h] = "read" /\ pc'[h] = "subdirs" /\ Ours(folder)
    \/ pc[h] = "subdirs" /\ pc'[h] = "ready" /\ checked[h] = 4

\* What it may change on the remote.
Touches(h) ==
    \/ NoChange
    \/ pc[h] = "parents" /\ walked[h] < Depth /\ look[h] = "create"
       /\ path[Parent(h)] = "absent" /\ MakeStep(h, Parent(h))
    \/ pc[h] = "ensure" /\ path[Root] = "absent" /\ MakeStep(h, Root)
    \/ pc[h] = "create" /\ folder.marker = "absent"
       /\ SetFolder(h, [folder EXCEPT !.marker = "ours"])
    \/ pc[h] = "subdirs" /\ checked[h] < 4
       /\ SetFolder(h, [folder EXCEPT !.subdirs = @ \cup {Part(h)}])

\* What it has learned of the layout, or of the path.
Counts1(h) ==
    /\ walked'[h] = walked[h] \/ (walked[h] < Depth /\ walked'[h] = walked[h] + 1)
    /\ \/ checked'[h] = checked[h]
       \/ checked[h] < 4 /\ checked'[h] = checked[h] + 1 /\ Part(h) \in folder'.subdirs
    /\ look'[h] \in {"stat", "create", "again"}
    /\ pc'[h] = "mount" => pc[h] = "mount" /\ look'[h] = look[h]
    /\ pc'[h] = "parents" /\ look'[h] # "stat" => h \in makers \/ look'[h] = look[h]
    /\ pc'[h] = "barred" /\ pc[h] # "barred" =>
          \/ path[0] # "folder"
          \/ \E i \in Steps : path[i] = "file"
          \/ h \notin makers /\ \E i \in 1..Depth : path[i] = "absent"

Effect(h) ==
    /\ UNCHANGED <<start, makers>>
    /\ pc' \in [Helpers -> Phases] /\ faulted' \subseteq Helpers
    /\ misled' \subseteq Helpers /\ misled \subseteq misled'
    /\ look' = [look EXCEPT ![h] = look'[h]]
    /\ walked' = [walked EXCEPT ![h] = walked'[h]]
    /\ checked' = [checked EXCEPT ![h] = checked'[h]]
    /\ Others(h) /\ Onward(h) /\ Touches(h) /\ Counts1(h)

LEMMA ReadsEffect ==
    ASSUME TypeOK, NEW h \in Helpers,
           StatMount(h) \/ StatMarker(h) \/ CheckMarker(h) \/ ListRoot(h) \/ Done(h) \/ Die(h)
    PROVE  Effect(h)
<1> USE DEF TypeOK, Learn, Fail, Goto, Counted, Keep, Effect, Others, Onward, Touches, Counts1,
            Phases
<1>1. CASE StatMount(h)
  <2>1. path[0] \in Nodes
    BY BootstrapConstants DEF BootstrapConstants, Steps, Root
  <2>2. PICK run \in InfoRuns(path[0]) :
          \/ StatSays(run) = "folder" /\ Learn(h, "parents")
          \/ StatSays(run) \in {"absent", "file"} /\ Learn(h, "barred")
          \/ Fail(h)
    BY <1>1, <2>1, StatIsTrue DEF StatMount, Nodes
  <2>3. StatSays(run) \in {"absent", "file"} => path[0] # "folder"
    BY <2>1, <2>2, StatIsTrue
  <2> QED
    BY <1>1, <2>2, <2>3 DEF StatMount
<1>2. CASE StatMarker(h)
  <2> DEFINE node == IF folder.marker = "absent" THEN "absent" ELSE "file"
  <2>1. node \in Nodes
    BY DEF Nodes
  <2>2. PICK run \in InfoRuns(node) :
          \/ StatSays(run) = "absent" /\ Learn(h, "ensure")
          \/ StatSays(run) \in {"folder", "file"} /\ Learn(h, "read")
          \/ Fail(h)
    BY <1>2 DEF StatMarker, StatSays
  <2>3. StatSays(run) = "error" \/ StatSays(run) = node
    BY <2>1, StatIsTrue
  <2>4. \/ folder.marker = "absent" /\ Learn(h, "ensure")
        \/ folder.marker # "absent" /\ Learn(h, "read")
        \/ Fail(h)
    BY <2>2, <2>3
  <2> QED
    BY <1>2, <2>4 DEF StatMarker, NoChange, remote
<1>3. CASE CheckMarker(h)
  BY <1>3 DEF CheckMarker, Recognised, Ours, NoChange, remote
<1>4. CASE ListRoot(h)
  <2>1. \/ Learn(h, "create") /\ Empty(folder)
        \/ Learn(h, "refused") /\ ~Empty(folder)
        \/ Fail(h)
        \/ TakeForEmpty(h)
    BY <1>4 DEF ListRoot
  <2>2. CASE TakeForEmpty(h)
    BY <1>4, <2>2 DEF ListRoot, TakeForEmpty
  <2> QED
    BY <1>4, <2>1, <2>2 DEF ListRoot
<1>5. CASE Done(h) \/ Die(h)
  BY <1>5 DEF Done, Die
<1> QED
  BY <1>1, <1>2, <1>3, <1>4, <1>5

LEMMA ParentEffect ==
    ASSUME TypeOK, NEW h \in Helpers, Told, StatParent(h) \/ MakeParent(h)
    PROVE  Effect(h)
<1> USE DEF TypeOK, Learn, Fail, Goto, Counted, Keep, Effect, Others, Onward, Touches, Counts1,
            Phases, Told, MayMake
<1>1. Parent(h) \in Steps /\ Parent(h) \in 1..Depth /\ walked[h] + 1 \in 0..Depth
  BY BootstrapConstants DEF BootstrapConstants, Steps, Root, Parent, StatParent, MakeParent
<1>2. path[Parent(h)] \in Nodes
  BY <1>1
<1>3. CASE StatParent(h)
  <2>1. CASE h \notin makers /\ path[Parent(h)] = "absent" /\ Learn(h, "barred") /\ NoChange
    BY <1>1, <1>3, <2>1 DEF StatParent
  <2>3. CASE h \notin makers /\ path[Parent(h)] = "absent" /\ Fail(h) /\ NoChange
    BY <1>1, <1>3, <2>3 DEF StatParent
  <2>2. CASE /\ h \in makers \/ path[Parent(h)] # "absent"
             /\ Looks(h, path[Parent(h)], NextParent(h))
    BY <1>1, <1>2, <1>3, <2>2 DEF StatParent, Looks, NextParent, Anew
  <2> QED
    BY <1>2, <1>3, <2>1, <2>2, <2>3, LookAtLooks DEF StatParent, Missed
<1>4. CASE MakeParent(h)
  <2>1. Creates(h, path[Parent(h)] = "absent" /\ path[walked[h]] = "folder",
                MakeStep(h, Parent(h)), NextParent(h))
    BY <1>4, CreateFolderCreates DEF MakeParent
  <2> QED
    BY <1>1, <1>4, <2>1 DEF MakeParent, Creates, NextParent, Anew
<1> QED
  BY <1>3, <1>4

LEMMA RootEffect ==
    ASSUME TypeOK, NEW h \in Helpers, StatRoot(h) \/ MakeRoot(h)
    PROVE  Effect(h)
<1> USE DEF TypeOK, Learn, Fail, Goto, Counted, Keep, Effect, Others, Onward, Touches, Counts1,
            Phases
<1>1. Root \in Steps /\ path[Root] \in Nodes
  BY BootstrapConstants DEF BootstrapConstants, Steps, Root
<1>2. CASE StatRoot(h)
  <2>1. Looks(h, path[Root], RootThere(h))
    BY <1>1, <1>2, LookAtLooks DEF StatRoot
  <2> QED
    BY <1>1, <1>2, <2>1 DEF StatRoot, Looks, RootThere, Anew
<1>3. CASE MakeRoot(h)
  <2>1. Creates(h, path[Root] = "absent" /\ path[Depth] = "folder",
                MakeStep(h, Root), RootThere(h))
    BY <1>3, CreateFolderCreates DEF MakeRoot
  <2> QED
    BY <1>3, <2>1 DEF MakeRoot, Creates, RootThere, Anew
<1> QED
  BY <1>2, <1>3

LEMMA MarkerEffect ==
    ASSUME TypeOK, NEW h \in Helpers, CreateMarker(h)
    PROVE  Effect(h)
<1> USE DEF TypeOK, Learn, Fail, Goto, Counted, Keep, Effect, Others, Onward, Touches, Counts1,
            Phases
<1>1. CASE /\ folder.marker = "absent"
           /\ SetFolder(h, [folder EXCEPT !.marker = "ours"])
           /\ \E run \in UploadRuns(TRUE, FALSE) : Uploaded(h, run)
  <2>1. Ours(folder')
    BY <1>1 DEF SetFolder, Ours, Folder
  <2>2. Learn(h, "subdirs") \/ Fail(h)
    BY <1>1, RefusedIsTrue DEF Uploaded
  <2> QED
    BY <1>1, <2>1, <2>2 DEF CreateMarker
<1>2. CASE /\ NoChange
           /\ \E run \in UploadRuns(FALSE, folder.marker # "absent") : Uploaded(h, run)
  <2>1. (Learn(h, "read") /\ folder.marker # "absent") \/ Fail(h)
    BY <1>2, CommittedIsTrue, RefusedIsTrue DEF Uploaded
  <2> QED
    BY <1>2, <2>1 DEF CreateMarker, NoChange, remote
<1> QED
  BY <1>1, <1>2 DEF CreateMarker

LEMMA SubdirEffect ==
    ASSUME TypeOK, NEW h \in Helpers, StatSubdir(h) \/ MakeSubdir(h)
    PROVE  Effect(h)
<1> USE DEF TypeOK, Learn, Fail, Goto, Counted, Keep, Effect, Others, Onward, Touches, Counts1,
            Phases
<1> DEFINE node == IF Part(h) \in folder.subdirs THEN "folder" ELSE "absent"
<1>1. CASE StatSubdir(h)
  <2>1. Looks(h, node, NextPart(h))
    BY <1>1, LookAtLooks DEF StatSubdir, Nodes
  <2> QED
    BY <1>1, <2>1 DEF StatSubdir, Looks, NextPart, Anew, NoChange, remote
<1>2. CASE MakeSubdir(h)
  <2>1. Creates(h, Part(h) \notin folder.subdirs,
                SetFolder(h, [folder EXCEPT !.subdirs = @ \cup {Part(h)}]), NextPart(h))
    BY <1>2, CreateFolderCreates DEF MakeSubdir
  <2>2. SetFolder(h, [folder EXCEPT !.subdirs = @ \cup {Part(h)}]) => Part(h) \in folder'.subdirs
    BY DEF SetFolder, Folder
  <2> QED
    BY <1>2, <2>1, <2>2 DEF MakeSubdir, Creates, NextPart, Anew
<1> QED
  BY <1>1, <1>2

LEMMA StepEffect ==
    ASSUME IInv, NEW h \in Helpers, HelperStep(h)
    PROVE  Effect(h)
BY ReadsEffect, ParentEffect, RootEffect, MarkerEffect, SubdirEffect DEF HelperStep, IInv

-----------------------------------------------------------------------------
\* No step takes away a marker that is ours, or a part of the layout.
Kept == /\ Ours(folder) => Ours(folder')
        /\ folder.subdirs \subseteq folder'.subdirs

LEMMA TypeStep ==
    ASSUME TypeOK, NEW h \in Helpers, Effect(h)
    PROVE  TypeOK' /\ Kept
<1> USE DEF TypeOK
<1>1. path' \in [Steps -> Nodes]
  BY DEF Effect, Touches, MakeStep, SetFolder, NoChange, remote, Nodes
<1>2. folder' \in Folder /\ Kept
  <2>1. CASE NoChange \/ folder' = folder
    BY <2>1 DEF NoChange, remote, Kept
  <2>2. CASE folder.marker = "absent" /\ SetFolder(h, [folder EXCEPT !.marker = "ours"])
    BY <2>2 DEF SetFolder, Folder, Markers, Kept, Ours
  <2>3. CASE /\ checked[h] < 4
             /\ SetFolder(h, [folder EXCEPT !.subdirs = @ \cup {Part(h)}])
    <3>1. Part(h) \in Subdirs
      BY <2>3 DEF Part, Subdirs
    <3> QED
      BY <2>3, <3>1 DEF SetFolder, Folder, Kept, Ours
  <2> QED
    BY <2>1, <2>2, <2>3 DEF Effect, Touches, MakeStep
<1>3. raced' \subseteq Helpers
  BY DEF Effect, Touches, MakeStep, SetFolder, Meet, NoChange, remote
<1>4. look' \in [Helpers -> {"stat", "create", "again"}]
  BY DEF Effect, Counts1
<1>5. walked' \in [Helpers -> 0..Depth]
  <2>1. walked'[h] \in 0..Depth
    BY BootstrapConstants DEF Effect, Counts1, BootstrapConstants
  <2> QED
    BY <2>1 DEF Effect
<1>6. checked' \in [Helpers -> 0..4]
  <2>1. checked'[h] \in 0..4
    BY DEF Effect, Counts1
  <2> QED
    BY <2>1 DEF Effect
<1> QED
  BY <1>1, <1>2, <1>3, <1>4, <1>5, <1>6 DEF Effect

LEMMA GrownStep ==
    ASSUME IInv, NEW h \in Helpers, Effect(h)
    PROVE  Grown'
<1> USE DEF IInv, TypeOK, Grown
<1>1. start' = start /\ makers' = makers
  BY DEF Effect
<1>2. CASE path' = path
  BY <1>1, <1>2
<1>3. ASSUME pc[h] = "parents", walked[h] < Depth, look[h] = "create",
             path[Parent(h)] = "absent", path' = [path EXCEPT ![Parent(h)] = "folder"]
      PROVE  Grown'
  <2>1. Parent(h) \in Steps /\ Parent(h) # 0
    BY <1>3, BootstrapConstants DEF Parent, Steps, Root, BootstrapConstants
  <2>2. h \in makers
    BY <1>3 DEF Told
  <2>3. 0 \in Steps
    BY BootstrapConstants DEF Steps, Root, BootstrapConstants
  <2> QED
    BY <1>1, <1>3, <2>1, <2>2, <2>3
<1>4. ASSUME path[Root] = "absent", path' = [path EXCEPT ![Root] = "folder"]
      PROVE  Grown'
  <2>1. Root \in Steps /\ Root # 0 /\ Root \notin 1..Depth /\ 0 \in Steps /\ 1..Depth \subseteq Steps
    BY BootstrapConstants DEF Steps, Root, BootstrapConstants
  <2> QED
    BY <1>1, <1>4, <2>1
<1> QED
  BY <1>2, <1>3, <1>4 DEF Effect, Touches, MakeStep, SetFolder, NoChange, remote

LEMMA OthersStep ==
    ASSUME IInv, NEW h \in Helpers, Effect(h)
    PROVE  Claims' /\ Recognises' /\ Ensured' /\ Told' /\ BarredForCause'
<1> USE DEF IInv, TypeOK
<1>1. Kept /\ start' = start /\ makers' = makers
  BY TypeStep DEF Effect
<1>2. \A g \in Helpers : g # h => /\ pc'[g] = pc[g] /\ look'[g] = look[g]
                                  /\ checked'[g] = checked[g]
  BY DEF Effect, Others
<1>3. Onward(h) /\ Touches(h) /\ Counts1(h)
  BY DEF Effect
<1>4. Claims'
  <2> SUFFICES ASSUME Barred'
               PROVE  /\ folder' = start.folder
                      /\ \A g \in Helpers :
                            /\ pc'[g] \notin {"create", "subdirs", "ready"}
                            /\ pc'[g] \in {"ensure", "list"} => start.folder.marker = "absent"
    BY <1>1 DEF Claims
  <2>0. Barred /\ (start.folder.marker = "absent" => misled' = {})
    BY <1>1 DEF Barred, Ours, Vacant, Effect
  <2>1. /\ folder = start.folder /\ ~Ours(folder) /\ ~Empty(folder)
        /\ \A g \in Helpers :
              /\ pc[g] \notin {"create", "subdirs", "ready"}
              /\ pc[g] \in {"ensure", "list"} => start.folder.marker = "absent"
    BY <2>0 DEF Claims, Barred, Empty
  <2>2. folder' = folder
    BY <1>3, <2>1 DEF Touches, MakeStep, NoChange, remote
  <2> QED
    BY <1>2, <1>3, <2>0, <2>1, <2>2 DEF Onward
<1>5. Recognises'
  BY <1>1, <1>2, <1>3 DEF Recognises, Onward, Kept, Ours
<1>6. Ensured'
  <2>1. ASSUME NEW g \in Helpers, NEW i \in 1..checked'[g]
        PROVE  Layout[i] \in folder'.subdirs
    <3>1. CASE checked'[g] = checked[g]
      BY <1>1, <3>1 DEF Ensured, Kept
    <3>2. CASE g = h /\ checked'[h] = checked[h] + 1 /\ Part(h) \in folder'.subdirs
      <4>1. i \in 1..checked[h] \/ i = checked[h] + 1
        BY <3>2
      <4> QED
        BY <1>1, <3>2, <4>1 DEF Ensured, Kept, Part
    <3> QED
      BY <1>2, <1>3, <3>1, <3>2 DEF Counts1
  <2>2. ASSUME NEW g \in Helpers, pc'[g] = "ready" PROVE checked'[g] = 4
    BY <1>2, <1>3, <2>2 DEF Onward, Counts1, Ensured
  <2> QED
    BY <2>1, <2>2 DEF Ensured
<1>7. Told'
  BY <1>1, <1>2, <1>3 DEF Told, Counts1, Onward
<1>8. BarredForCause'
  <2> SUFFICES ASSUME NEW g \in Helpers, pc'[g] = "barred", pc[g] # "barred"
               PROVE  \/ start.path[0] # "folder"
                      \/ \E i \in Steps : start.path[i] = "file"
                      \/ g \notin makers /\ \E i \in 1..Depth : start.path[i] = "absent"
    BY <1>1 DEF BarredForCause
  <2>1. \A i \in Steps : /\ path[i] = "file" => start.path[i] = "file"
                         /\ path[i] = "absent" => start.path[i] = "absent"
    BY DEF Grown
  <2>2. 1..Depth \subseteq Steps
    BY BootstrapConstants DEF Steps, Root, BootstrapConstants
  <2>3. path[0] = start.path[0]
    BY DEF Grown
  <2> QED
    BY <1>2, <1>3, <2>1, <2>2, <2>3 DEF Counts1
<1> QED
  BY <1>4, <1>5, <1>6, <1>7, <1>8

\* What changes the folder is met by whoever is in the middle of a run.
LEMMA FolderStep ==
    ASSUME IInv, NEW h \in Helpers, Effect(h)
    PROVE  /\ StillVacant' /\ Found' /\ PartialIsCompleted'
           /\ raced \subseteq raced'
<1> USE DEF IInv, TypeOK
<1>1. /\ start' = start /\ Kept /\ Onward(h) /\ Touches(h)
      /\ \A g \in Helpers : g # h => pc'[g] = pc[g]
  BY TypeStep DEF Effect, Others
<1>2. CASE folder' = folder /\ raced \subseteq raced'
  <2>1. StillVacant'
    BY <1>1, <1>2 DEF StillVacant, Ours, Vacant
  <2>2. Found'
    BY <1>1, <1>2 DEF Found, Onward
  <2>3. ASSUME NEW g \in Helpers, pc'[g] = "refused",
               Ours(start.folder) \/ Vacant(start.folder)
        PROVE  g \in raced' \/ folder'.marker = "alien"
    <3>1. CASE pc[g] = "refused"
      BY <1>1, <1>2, <2>3, <3>1 DEF PartialIsCompleted
    <3>2. CASE g = h /\ pc[h] = "list" /\ ~Empty(folder)
      BY <1>2, <2>3, <3>2 DEF Found, StillVacant, Empty
    <3>3. CASE g = h /\ pc[h] = "read" /\ ~Ours(folder)
      BY <1>2, <2>3, <3>3 DEF Found, Ours, Folder, Markers
    <3> QED
      BY <1>1, <2>3, <3>1, <3>2, <3>3 DEF Onward
  <2> QED
    BY <1>1, <1>2, <2>1, <2>2, <2>3 DEF PartialIsCompleted, Ours, Vacant
<1>3. CASE folder' # folder
  <2>1. /\ Meet(h)
        /\ \/ /\ pc[h] = "create" /\ folder.marker = "absent"
              /\ folder' = [folder EXCEPT !.marker = "ours"]
           \/ /\ pc[h] = "subdirs"
              /\ folder' = [folder EXCEPT !.subdirs = @ \cup {Part(h)}]
    <3> HIDE DEF IInv, TypeOK
    <3>1. Touches(h) /\ folder' # folder
      BY <1>1, <1>3
    <3>2. \A f : SetFolder(h, f) => folder' = f /\ Meet(h)
      BY <3>1 DEF SetFolder
    <3>3. ~NoChange /\ \A i : ~MakeStep(h, i)
      BY <3>1 DEF NoChange, remote, MakeStep
    <3> QED
      BY <3>1, <3>2, <3>3 DEF Touches
  <2>2. /\ raced \subseteq raced'
        /\ \A g \in Helpers : g # h /\ pc[g] \in {"ensure", "list"} => g \in raced'
    BY <2>1 DEF Meet, Ended
  <2>3. Ours(folder') /\ folder.marker # "alien"
    BY <2>1 DEF Folder, Ours, Recognises
  <2>4. StillVacant'
    BY <2>3 DEF StillVacant, Ours
  <2>5. Found'
    BY <1>1, <2>1, <2>2, <2>3 DEF Found, Onward, Ours
  <2>6. pc'[h] # "refused"
    BY <1>1, <2>1 DEF Onward
  <2>7. PartialIsCompleted'
    BY <1>1, <2>2, <2>3, <2>6 DEF PartialIsCompleted, Ours, Vacant
  <2> QED
    BY <2>2, <2>4, <2>5, <2>7
<1> QED
  BY <1>1, <1>2, <1>3 DEF Touches, NoChange, remote, SetFolder, MakeStep, Meet

LEMMA LaterStep ==
    ASSUME IInv, LaterBuild
    PROVE  IInv'
<1> USE DEF IInv, TypeOK, LaterBuild
<1>1. folder' \in Folder /\ raced' \subseteq Helpers /\ ~Ours(folder)
      /\ folder'.subdirs = folder.subdirs
  BY DEF Folder, Markers, Vacant, Ours
<1>2. TypeOK'
  BY <1>1
<1>3. Claims'
  BY DEF Claims, Barred, Ours, Vacant
<1>4. Recognises' /\ Ensured'
  BY <1>1 DEF Recognises, Ensured
<1>5. Grown' /\ Told' /\ BarredForCause'
  BY DEF Grown, Told, BarredForCause
<1>6. StillVacant' /\ Found' /\ PartialIsCompleted'
  BY DEF StillVacant, Found, PartialIsCompleted, Ours, Vacant, Ended
<1> QED
  BY <1>2, <1>3, <1>4, <1>5, <1>6

LEMMA Invariant == Spec => []IInv
<1>1. IInv /\ [Next]_vars => IInv'
  <2>1. ASSUME IInv, NEW h \in Helpers, HelperStep(h) PROVE IInv'
    <3>1. Effect(h)
      BY <2>1, StepEffect
    <3> QED
      BY <2>1, <3>1, TypeStep, GrownStep, OthersStep, FolderStep DEF IInv
  <2>2. ASSUME IInv, UNCHANGED vars PROVE IInv'
    BY <2>2 DEF vars, remote, IInv, TypeOK, Claims, Barred, Recognises, Ensured, Grown, Told,
       BarredForCause, StillVacant, Found, PartialIsCompleted, Ours, Vacant
  <2> QED
    BY <2>1, <2>2, LaterStep DEF Next
<1> QED
  BY <1>1, InvInit, PTL DEF Spec

-----------------------------------------------------------------------------
\* Every variable keeps its type, whatever the CLI reports (Bootstrap,
\* EnsureParents).
THEOREM TypeCorrect == Spec => []TypeOK
BY Invariant, PTL DEF IInv

\* A folder that is neither ours nor empty is left as it was (Bootstrap,
\* checkMarker), whatever any number of helpers do in it and however they fail:
\* always if it has a marker, else while no listing of it comes back with nothing
\* (List takes that for an empty folder).
THEOREM OnlyOursOrEmptyTouchedHolds == Spec => []OnlyOursOrEmptyTouched
<1>1. IInv => OnlyOursOrEmptyTouched
  BY DEF IInv, Claims, Barred, OnlyOursOrEmptyTouched
<1> QED
  BY <1>1, Invariant, PTL

\* Bootstrap succeeds only in a recognised repo that has its whole layout.
THEOREM ReadyIsCompleteHolds == Spec => []ReadyIsComplete
<1>1. ASSUME IInv, NEW h \in Helpers, pc[h] = "ready"
      PROVE  Ours(folder) /\ folder.subdirs = Subdirs
  <2>1. Ours(folder) /\ \A i \in 1..4 : Layout[i] \in folder.subdirs
    BY <1>1 DEF IInv, Recognises, Ensured
  <2>2. folder.subdirs \subseteq Subdirs
    BY <1>1 DEF IInv, TypeOK, Folder
  <2> QED
    BY <2>1, <2>2 DEF Subdirs
<1>2. IInv => ReadyIsComplete
  BY <1>1 DEF ReadyIsComplete
<1> QED
  BY <1>2, Invariant, PTL

\* EnsureParents makes no mount, replaces nothing, and makes parents only for a
\* helper that was told to, on a path of any depth.
THEOREM ParentsOnlyAsAskedHolds == Spec => []ParentsOnlyAsAsked
<1>1. 1..Root \subseteq Steps
  BY BootstrapConstants DEF Steps, Root, BootstrapConstants
<1>2. IInv => ParentsOnlyAsAsked
  BY <1>1 DEF IInv, Grown, ParentsOnlyAsAsked
<1> QED
  BY <1>2, Invariant, PTL

\* EnsureDir's second look: no number of helpers making the same folders at the
\* same time bars one of them.
THEOREM BarredForCauseHolds == Spec => []BarredForCause
BY Invariant, PTL DEF IInv

\* What a run left half done is completed by the next: Bootstrap refuses a folder
\* that was empty or ours only to a helper that met another one in it, or once a
\* later build has taken it.
THEOREM PartialIsCompletedHolds == Spec => []PartialIsCompleted
BY Invariant, PTL DEF IInv
=============================================================================
