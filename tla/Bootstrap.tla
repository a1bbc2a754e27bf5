------------------------------- MODULE Bootstrap -------------------------------
(***************************************************************************)
(* Initialisation of a repo folder: the folders above it                   *)
(* (internal/repo/parents.go), then (internal/repo/marker.go) recognise    *)
(* the marker, or claim an empty folder by creating it exclusively, and    *)
(* complete the layout.  It runs before the lock, so several helpers may   *)
(* be in it at once, and each may die anywhere.  Every call is a run of    *)
(* the CLI, whose report may be lost or unreadable (Transport).            *)
(***************************************************************************)
EXTENDS Transport

CONSTANTS
    Helpers,   \* processes that answer "list for-push"
    Depth,     \* how many folders there are between the mount and the root
    Folders,   \* the contents the root may begin with
    Paths      \* what may stand on the way to it

Markers == {"absent", "ours", "alien"}  \* alien: another format, version, or damage

\* The folders of the layout, in the order they are ensured.
Layout == <<"refs", "refs/heads", "refs/tags", "packs">>
Subdirs == {Layout[i] : i \in 1..4}

Folder == [marker : Markers,     \* gpb-remote.json
           foreign : BOOLEAN,    \* it holds files of somebody else
           lock : BOOLEAN,       \* it holds a .lock
           subdirs : SUBSET Subdirs]

Ours(f) == f.marker = "ours"

\* Nothing of a repo and nothing of anybody else; a .lock is neither.
Vacant(f) == f.marker = "absent" /\ ~f.foreign /\ f.subdirs = {}

\* The mount is step 0 of the path, the root its last.
Root == Depth + 1
Steps == 0..Root

\* A node stands in a folder; a root that is none holds nothing.
Sound(path, f) ==
    /\ \A i \in 1..Root : path[i] # "absent" => path[i - 1] = "folder"
    /\ path[Root] # "folder" => Vacant(f) /\ ~f.lock

ASSUME BootstrapConstants ==
    /\ Depth \in Nat
    /\ Folders \subseteq Folder
    /\ Paths \subseteq [Steps -> Nodes]

VARIABLES
    path,      \* the way to the root
    folder,    \* what the root holds
    start,     \* path and folder when the run began
    makers,    \* helpers told to create parents (GPB_CREATE_PARENTS=1)
    pc,        \* where each helper is
    look,      \* how far the EnsureDir is that it is in, if any
    walked,    \* how many of the parents it has found or made
    checked,   \* how many of the layout's folders it has ensured
    faulted,   \* helpers one of whose calls failed
    misled,    \* helpers to whom a folder that holds something was listed as nothing
    raced      \* helpers during whose run another one changed the folder

remote == <<path, folder, raced>>
vars == <<remote, start, makers, pc, look, walked, checked, faulted, misled>>

\* Where a helper is: at the mount, on the path, about to make each call of
\* Bootstrap, or ended; barred by what stands on the path, refused by the root.
Phases == {"mount", "parents", "start", "read", "ensure", "list", "create", "subdirs",
           "ready", "refused", "barred", "failed", "dead"}

Ended == {"ready", "refused", "barred", "failed", "dead"}

TypeOK ==
    /\ path \in [Steps -> Nodes] /\ folder \in Folder
    /\ start.path \in [Steps -> Nodes] /\ start.folder \in Folder
    /\ makers \subseteq Helpers
    /\ pc \in [Helpers -> Phases]
    /\ look \in [Helpers -> {"stat", "create", "again"}]
    /\ walked \in [Helpers -> 0..Depth]
    /\ checked \in [Helpers -> 0..4]
    /\ faulted \subseteq Helpers /\ misled \subseteq Helpers /\ raced \subseteq Helpers

Init ==
    /\ path \in Paths /\ folder \in Folders /\ Sound(path, folder)
    /\ start = [path |-> path, folder |-> folder]
    /\ makers \in SUBSET Helpers
    /\ pc = [h \in Helpers |-> "mount"]
    /\ look = [h \in Helpers |-> "stat"]
    /\ walked = [h \in Helpers |-> 0]
    /\ checked = [h \in Helpers |-> 0]
    /\ faulted = {}
    /\ misled = {}
    /\ raced = {}

Goto(h, phase) == pc' = [pc EXCEPT ![h] = phase]

Keep == UNCHANGED <<start, makers>>
Counted == UNCHANGED <<look, walked, checked, faulted, misled>>

\* A call fails; the error ends the run.
Fail(h) ==
    /\ Goto(h, "failed")
    /\ faulted' = faulted \cup {h}
    /\ UNCHANGED <<look, walked, checked, misled>>

\* What the helper learned sends it to a phase.
Learn(h, phase) == Goto(h, phase) /\ Counted

\* Helpers other than h in the middle of their run meet a change.
Meet(h) == raced' = raced \cup {g \in Helpers \ {h} : pc[g] \notin {"mount"} \cup Ended}

NoChange == UNCHANGED remote

SetFolder(h, f) ==
    /\ folder' = f /\ UNCHANGED path
    /\ IF f = folder THEN UNCHANGED raced ELSE Meet(h)

MakeStep(h, i) == path' = [path EXCEPT ![i] = "folder"] /\ UNCHANGED folder /\ Meet(h)

-----------------------------------------------------------------------------
\* EnsureDir of a node: Stat, create-folder, and if that finds it there after
\* all, one more look.  make creates it, which takes a folder above it; go is
\* where the helper is once the folder is there.
LookAt(h, node, go) ==
    /\ look[h] \in {"stat", "again"}
    /\ \E run \in InfoRuns(node) :
          CASE StatSays(run) = "folder" -> go
            [] StatSays(run) = "absent" /\ look[h] = "stat"
                 -> look' = [look EXCEPT ![h] = "create"] /\ UNCHANGED <<pc, walked, checked, faulted, misled>>
            [] StatSays(run) = "file" -> Learn(h, "barred")
            [] OTHER -> Fail(h)
    /\ NoChange

\* (Mutant) A folder said to exist already is a failure.
AfterCreateOnce(h, run, go) ==
    CASE CreateFolderSays(run) = "made" -> go
      [] CreateFolderSays(run) = "contradiction" -> Learn(h, "barred")
      [] OTHER -> Fail(h)

AfterCreate(h, run, go) ==
    CASE CreateFolderSays(run) = "made" -> go
      [] CreateFolderSays(run) = "contradiction"
           -> look' = [look EXCEPT ![h] = "again"] /\ UNCHANGED <<pc, walked, checked, faulted, misled>>
      [] OTHER -> Fail(h)

CreateFolder(h, possible, make, go) ==
    /\ look[h] = "create"
    /\ \/ possible /\ make /\ \E run \in CreateFolderRuns("made") : AfterCreate(h, run, go)
       \/ NoChange /\ \E run \in CreateFolderRuns("nothing") : AfterCreate(h, run, go)

\* The next call is an EnsureDir again, or none.
Anew(h) == look' = [look EXCEPT ![h] = "stat"]

-----------------------------------------------------------------------------
\* EnsureParents: the mount must be there, and is never made.
StatMount(h) ==
    /\ pc[h] = "mount"
    /\ \E run \in InfoRuns(path[0]) :
          CASE StatSays(run) = "folder" -> Learn(h, "parents")
            [] StatSays(run) \in {"absent", "file"} -> Learn(h, "barred")
            [] OTHER -> Fail(h)
    /\ NoChange /\ Keep

Parent(h) == walked[h] + 1

NextParent(h) ==
    /\ walked' = [walked EXCEPT ![h] = @ + 1] /\ Anew(h)
    /\ UNCHANGED <<pc, checked, faulted, misled>>

\* (Mutant) A missing parent is made, asked or not.
MayMakeAlways(h) == TRUE

MayMake(h) == h \in makers

\* The helper that was not told to make it is barred where a parent is missing.
Missed(h) ==
    /\ \E run \in InfoRuns("absent") :
          IF StatSays(run) = "absent" THEN Learn(h, "barred") ELSE Fail(h)
    /\ NoChange

\* (Mutant) The walk takes the root for one more parent.
StatParentOrRoot(h) ==
    /\ pc[h] = "parents" /\ walked[h] <= Depth
    /\ \/ ~MayMake(h) /\ path[Parent(h)] = "absent" /\ Missed(h)
       \/ (MayMake(h) \/ path[Parent(h)] # "absent") /\ LookAt(h, path[Parent(h)], NextParent(h))
    /\ Keep

\* A parent's own Stat and the one of its EnsureDir are two calls with one
\* outcome.
StatParent(h) ==
    /\ pc[h] = "parents" /\ walked[h] < Depth
    /\ \/ ~MayMake(h) /\ path[Parent(h)] = "absent" /\ Missed(h)
       \/ (MayMake(h) \/ path[Parent(h)] # "absent") /\ LookAt(h, path[Parent(h)], NextParent(h))
    /\ Keep

MakeParent(h) ==
    /\ pc[h] = "parents" /\ walked[h] < Depth
    /\ CreateFolder(h, path[Parent(h)] = "absent" /\ path[walked[h]] = "folder",
                    MakeStep(h, Parent(h)), NextParent(h))
    /\ Keep

\* Bootstrap: Stat of the marker.
StatMarker(h) ==
    /\ pc[h] = "parents" /\ walked[h] = Depth
    /\ \E run \in InfoRuns(IF folder.marker = "absent" THEN "absent" ELSE "file") :
          CASE StatSays(run) = "absent" -> Learn(h, "ensure")
            [] StatSays(run) \in {"folder", "file"} -> Learn(h, "read")
            [] OTHER -> Fail(h)
    /\ NoChange /\ Keep

\* Mutant of Recognised: presence is recognition.
RecognisedIfThere(marker) == marker # "absent"

\* checkMarker: presence is not recognition.
Recognised(marker) == marker = "ours"

CheckMarker(h) ==
    /\ pc[h] = "read"
    /\ \E run \in DownloadRuns :
          IF DownloadSays(run) = "read"
          THEN Learn(h, IF Recognised(folder.marker) THEN "subdirs" ELSE "refused")
          ELSE Fail(h)
    /\ NoChange /\ Keep

RootThere(h) == Goto(h, "list") /\ Anew(h) /\ UNCHANGED <<walked, checked, faulted, misled>>

StatRoot(h) == pc[h] = "ensure" /\ LookAt(h, path[Root], RootThere(h)) /\ Keep

MakeRoot(h) ==
    /\ pc[h] = "ensure"
    /\ CreateFolder(h, path[Root] = "absent" /\ path[Depth] = "folder",
                    MakeStep(h, Root), RootThere(h))
    /\ Keep

\* Mutant of Empty: .lock counts as content.
EmptyOfLock(f) == Vacant(f) /\ ~f.lock

\* Everything but .lock counts: our own marker and layout, were they to appear
\* between the Stat and this List, too.
Empty(f) == Vacant(f)

\* Told that there is nothing, the helper has no way to know better.
TakeForEmpty(h) ==
    /\ Goto(h, "create")
    /\ misled' = IF Empty(folder) THEN misled ELSE misled \cup {h}
    /\ UNCHANGED <<look, walked, checked, faulted>>

ListRoot(h) ==
    /\ pc[h] = "list"
    /\ \E run \in ListRuns :
          CASE ListSays(run) = "listing" -> Learn(h, IF Empty(folder) THEN "create" ELSE "refused")
            [] ListSays(run) = "empty" -> TakeForEmpty(h)
            [] OTHER -> Fail(h)
    /\ NoChange /\ Keep

\* The outcome of the marker's upload: refused means that another one came
\* first, whose marker is then read like any other.
Uploaded(h, run) ==
    CASE UploadSays(run) = "committed" -> Learn(h, "subdirs")
      [] UploadSays(run) = "refused" -> Learn(h, "read")
      [] OTHER -> Fail(h)

CreateMarker(h) ==
    /\ pc[h] = "create"
    /\ \/ /\ folder.marker = "absent"
          /\ SetFolder(h, [folder EXCEPT !.marker = "ours"])
          /\ \E run \in UploadRuns(TRUE, FALSE) : Uploaded(h, run)
       \/ /\ NoChange
          /\ \E run \in UploadRuns(FALSE, folder.marker # "absent") : Uploaded(h, run)
    /\ Keep

\* ensureSubdirs: a folder that is there is left alone.
Part(h) == Layout[checked[h] + 1]

NextPart(h) ==
    /\ checked' = [checked EXCEPT ![h] = @ + 1] /\ Anew(h)
    /\ UNCHANGED <<pc, walked, faulted, misled>>

StatSubdir(h) ==
    /\ pc[h] = "subdirs" /\ checked[h] < 4
    /\ LookAt(h, IF Part(h) \in folder.subdirs THEN "folder" ELSE "absent", NextPart(h))
    /\ Keep

MakeSubdir(h) ==
    /\ pc[h] = "subdirs" /\ checked[h] < 4
    /\ CreateFolder(h, Part(h) \notin folder.subdirs,
                    SetFolder(h, [folder EXCEPT !.subdirs = @ \cup {Part(h)}]), NextPart(h))
    /\ Keep

Done(h) ==
    /\ pc[h] = "subdirs" /\ checked[h] = 4
    /\ Learn(h, "ready")
    /\ NoChange /\ Keep

Die(h) ==
    /\ pc[h] \notin {"mount"} \cup Ended
    /\ Learn(h, "dead")
    /\ NoChange /\ Keep

\* A helper of a later build claims the empty folder for a format of its own.
LaterBuild ==
    /\ path[Root] = "folder" /\ Vacant(folder)
    /\ folder' = [folder EXCEPT !.marker = "alien"] /\ UNCHANGED path
    /\ raced' = raced \cup {h \in Helpers : pc[h] \notin {"mount"} \cup Ended}
    /\ UNCHANGED <<start, makers, pc, look, walked, checked, faulted, misled>>

HelperStep(h) ==
    \/ StatMount(h) \/ StatParent(h) \/ MakeParent(h)
    \/ StatMarker(h) \/ CheckMarker(h) \/ StatRoot(h) \/ MakeRoot(h) \/ ListRoot(h)
    \/ CreateMarker(h) \/ StatSubdir(h) \/ MakeSubdir(h) \/ Done(h) \/ Die(h)

Next == (\E h \in Helpers : HelperStep(h)) \/ LaterBuild

Spec == Init /\ [][Next]_vars

-----------------------------------------------------------------------------
\* The helper never guesses whether a folder is one of its repos: however the
\* runs of several interleave, a folder whose marker is not recognised stays as
\* it was, and so does somebody else's without one, unless its listing came back
\* with no output at all, which List takes for an empty folder.
OnlyOursOrEmptyTouched ==
    folder # start.folder =>
        \/ Ours(start.folder) \/ Vacant(start.folder)
        \/ start.folder.marker = "absent" /\ misled # {}

\* A helper that goes on to lock and scan does so in a recognised repo with the
\* whole layout, also when another one was half way through making it, and
\* whatever the reports of its calls had it believe.
ReadyIsComplete ==
    \A h \in Helpers : pc[h] = "ready" => Ours(folder) /\ folder.subdirs = Subdirs

\* What a dead or failed helper left half done is completed, never refused: a
\* folder that was empty or ours, and that no later build took, turns away only
\* a helper that met another one at work.
PartialIsCompleted ==
    \A h \in Helpers :
        pc[h] = "refused" /\ (Ours(start.folder) \/ Vacant(start.folder))
        => h \in raced \/ folder.marker = "alien"

\* The mount is never made, and no folder above the root unless some helper was
\* told to; what stands on the path is never replaced.
ParentsOnlyAsAsked ==
    /\ path[0] = start.path[0]
    /\ \A i \in 1..Root : start.path[i] # "absent" => path[i] = start.path[i]
    /\ (\E i \in 1..Depth : path[i] # start.path[i]) => makers # {}

\* Helpers that make the same folders at the same time do not get in each
\* other's way: one is barred only if the mount is missing, a file stands on
\* the path, or a parent was missing that it was not told to make.
BarredForCause ==
    \A h \in Helpers : pc[h] = "barred" =>
        \/ start.path[0] # "folder"
        \/ \E i \in Steps : start.path[i] = "file"
        \/ h \notin makers /\ \E i \in 1..Depth : start.path[i] = "absent"

\* What the design says of the race for the marker: the loser proceeds.
LoserProceeds ==
    \A h \in Helpers :
        pc[h] = "refused"
        => ~(Ours(start.folder) \/ Vacant(start.folder)) \/ folder.marker = "alien"
=============================================================================
