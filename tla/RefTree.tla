-------------------------------- MODULE RefTree --------------------------------
(***************************************************************************)
(* The folders of the ref tree under a push (internal/repo/push.go,        *)
(* refs.go): a delete prunes the folders it leaves empty, a write makes    *)
(* the folders it needs, and a create that finds a folder in its place     *)
(* takes it away if it holds no file.  Nothing on the transport is         *)
(* conditional on what was listed before, and other clients of the drive   *)
(* add and remove files meanwhile.                                         *)
(*                                                                         *)
(* Pushes run one at a time (WriterLock) and may die between any two       *)
(* calls; a call fails before or after it took effect.                     *)
(***************************************************************************)
EXTENDS FiniteSets, Naturals

CONSTANTS
    Paths,      \* names below the repository root, "/"-separated
    None,       \* no path
    Parent,     \* Parent[p]: the folder p is in, None for a top-level name
    Above,      \* Above[p]: every folder p is in
    Protected,  \* protectedNamespaceRoots
    Invalid,    \* names whose last component checkComponent rejects
    Starts,     \* the trees a run may begin with
    Asks,       \* the batches git may send: [dels, writes]
    MaxPushes,  \* bound on the pushes of a run
    MaxOther    \* bound on the steps of other clients, per run

Kinds == {"absent", "folder", "ref", "other"}  \* other: a file that is no ref

Under(p) == {q \in Paths : p \in Above[q]}

Children(p) == {q \in Paths : Parent[q] = p}

Files(tree) == {p \in Paths : tree[p] \in {"ref", "other"}}

Rooted(tree) ==
    \A p \in Paths : tree[p] # "absent" => \A q \in Above[p] : tree[q] = "folder"

ASSUME TreeConstants ==
    /\ None \notin Paths
    /\ Parent \in [Paths -> Paths \cup {None}]
    /\ Above \in [Paths -> SUBSET Paths]
    /\ \A p \in Paths : p \notin Above[p] /\ \A q \in Above[p] : Above[q] \subseteq Above[p]
    /\ \A p \in Paths : Above[p] = IF Parent[p] = None THEN {} ELSE {Parent[p]} \cup Above[Parent[p]]
    /\ \A p \in Paths : \A q \in Under(p) : q \in Children(p) \/ \E c \in Children(p) : q \in Under(c)
    /\ Protected \subseteq Paths /\ Invalid \subseteq Paths
    /\ \A p \in Protected : Above[p] \subseteq Protected
    /\ Starts \subseteq [Paths -> Kinds]
    /\ \A st \in Starts : Rooted(st) /\ \A p \in Protected : st[p] = "folder"
    /\ Asks \subseteq [dels : SUBSET (Paths \ Invalid), writes : SUBSET (Paths \ Invalid)]
    /\ MaxPushes \in Nat /\ MaxOther \in Nat

VARIABLES
    node,       \* what each path is on the remote
    pc,         \* where the push is
    seen,       \* the tree as the push scanned it
    dels,       \* entries of the batch still to do
    writes,
    deleted,    \* deletions that committed
    wrote,      \* writes that committed
    refused,    \* writes that the preflight accepted and phase 5 reports failed
    cur,        \* the ref being written
    dir,        \* the folder being pruned
    todo,       \* folders still to make (ensureRefParents) or to list (subtreeFiles)
    arrived,    \* files other clients put there since the scan
    gap,        \* files the listing that the next trash relies on did not show, or
                \* that came since
    quiet,      \* no call of this push failed, and no other client acted during it
    pushes, others

\* What a step of the writer that only moves on leaves alone.
batch == <<seen, dels, writes, deleted, wrote, refused>>
history == <<arrived, gap, pushes, others>>
vars == <<node, pc, batch, cur, dir, todo, quiet, history>>

Phases == {"start", "delete", "prune", "prunetrash", "write", "parents", "create", "stat",
           "walk", "heal", "retry", "end"}

TypeOK ==
    /\ node \in [Paths -> Kinds] /\ Rooted(node) /\ seen \in [Paths -> Kinds]
    /\ pc \in Phases
    /\ dels \subseteq Paths /\ writes \subseteq Paths
    /\ deleted \subseteq Paths /\ wrote \subseteq Paths /\ refused \subseteq Paths
    /\ cur \in Paths \cup {None} /\ dir \in Paths \cup {None}
    /\ todo \subseteq Paths
    /\ arrived \subseteq Paths /\ gap \subseteq Paths
    /\ quiet \in BOOLEAN
    /\ pushes \in 0..MaxPushes /\ others \in 0..MaxOther

Init ==
    /\ node \in Starts
    /\ pc = "start"
    /\ seen = node
    /\ dels = {} /\ writes = {} /\ deleted = {} /\ wrote = {} /\ refused = {}
    /\ cur = None /\ dir = None /\ todo = {}
    /\ arrived = {} /\ gap = {}
    /\ quiet = TRUE
    /\ pushes = 0 /\ others = 0

-----------------------------------------------------------------------------
(* The transport. *)

\* A path in a folder that is there, and taken by nothing.
Vacant(p) == node[p] = "absent" /\ (Parent[p] = None \/ node[Parent[p]] = "folder")

\* Trash takes a path with everything beneath it.
Without(p) == [q \in Paths |-> IF q = p \/ p \in Above[q] THEN "absent" ELSE node[q]]

Put(p, kind) == node' = [node EXCEPT ![p] = kind]

Faulted == quiet' = FALSE

-----------------------------------------------------------------------------
(***************************************************************************)
(* The scan and the preflight.  Refs are what the scan could read; it      *)
(* skips other files and names it cannot use, and nothing may be written   *)
(* at, above or beneath one of those.  No create is nested with a ref of   *)
(* the final set (PushBatch models the rest of phase 2).                   *)
(***************************************************************************)
Nested(p, q) == p \in Above[q] \/ q \in Above[p]

Skipped(p) == node[p] = "other" \/ (p \in Invalid /\ node[p] # "absent")

Occupied(w) == \E p \in Paths : Skipped(p) /\ (p = w \/ Nested(p, w))

Clashes(w, ask) ==
    /\ node[w] # "ref"
    /\ \E r \in ({p \in Paths : node[p] = "ref" /\ ~Skipped(p)} \ ask.dels) \cup ask.writes :
          Nested(r, w)

Start(ask) ==
    /\ pc \in {"start", "end"}
    /\ pushes < MaxPushes
    /\ pushes' = pushes + 1
    /\ pc' = "delete"
    /\ seen' = node
    /\ dels' = {d \in ask.dels : ~Skipped(d)}
    /\ LET fit == {w \in ask.writes : ~Occupied(w)}
       IN writes' = {w \in fit : ~Clashes(w, [dels |-> dels', writes |-> fit])}
    /\ deleted' = {} /\ wrote' = {} /\ refused' = {}
    /\ arrived' = {} /\ gap' = {}
    /\ quiet' = TRUE
    /\ UNCHANGED <<node, cur, dir, todo, others>>

-----------------------------------------------------------------------------
(***************************************************************************)
(* Phase 4.  A name the scan did not hold as a ref is reported deleted as  *)
(* it is.  The folders a committed trash leaves empty are pruned: list,    *)
(* and trash if empty, upwards until a protected one or any failure.       *)
(***************************************************************************)
DeleteNothing(d) ==
    /\ pc = "delete"
    /\ d \in dels /\ seen[d] # "ref"
    /\ dels' = dels \ {d}
    /\ deleted' = deleted \cup {d}
    /\ UNCHANGED <<node, pc, seen, writes, wrote, refused, cur, dir, todo, quiet, history>>

Delete(d) ==
    /\ pc = "delete"
    /\ d \in dels /\ seen[d] = "ref"
    /\ dels' = dels \ {d}
    /\ \/ /\ node' = Without(d)
          /\ deleted' = deleted \cup {d}
          /\ pc' = "prune" /\ dir' = Parent[d]
          /\ UNCHANGED quiet
       \/ node' \in {node, Without(d)} /\ Faulted /\ UNCHANGED <<pc, deleted, dir>>
    /\ UNCHANGED <<seen, writes, wrote, refused, cur, todo, history>>

\* (Mutants) The layout's own folders are pruned like any other; only the
\* folder of the deleted ref is pruned.
PrunableAny(f) == f # None
PrunableOnce(f) == f # None /\ f \notin Protected /\ \E d \in deleted : f = Parent[d]

Prunable(f) == f # None /\ f \notin Protected

PruneStops ==
    /\ pc = "prune"
    /\ ~Prunable(dir)
    /\ pc' = "delete" /\ dir' = None
    /\ UNCHANGED <<node, batch, cur, todo, quiet, history>>

HoldsNothing(f) == \A q \in Children(f) : node[q] = "absent"

\* A list that exits well but whose output is lost says that nothing is there.
ListsNothing(f) == node[f] = "folder" /\ ~HoldsNothing(f)

Hidden(f) == Under(f) \cap Files(node)

PruneList ==
    /\ pc = "prune"
    /\ Prunable(dir)
    /\ \/ /\ node[dir] = "folder" /\ HoldsNothing(dir)
          /\ pc' = "prunetrash" /\ gap' = {}
          /\ UNCHANGED <<dir, quiet>>
       \/ /\ ~(node[dir] = "folder" /\ HoldsNothing(dir))
          /\ pc' = "delete" /\ dir' = None
          /\ UNCHANGED <<quiet, gap>>
       \/ /\ ListsNothing(dir)
          /\ pc' = "prunetrash" /\ gap' = Hidden(dir) /\ Faulted
          /\ UNCHANGED dir
       \/ pc' = "delete" /\ dir' = None /\ Faulted /\ UNCHANGED gap
    /\ UNCHANGED <<node, batch, cur, todo, arrived, pushes, others>>

PruneTrash ==
    /\ pc = "prunetrash"
    /\ \/ node' = Without(dir) /\ pc' = "prune" /\ dir' = Parent[dir] /\ UNCHANGED quiet
       \/ node' \in {node, Without(dir)} /\ pc' = "delete" /\ dir' = None /\ Faulted
    /\ UNCHANGED <<batch, cur, todo, history>>

DeletesDone ==
    /\ pc = "delete"
    /\ dels = {}
    /\ pc' = "write"
    /\ UNCHANGED <<node, batch, cur, dir, todo, quiet, history>>

-----------------------------------------------------------------------------
(* Phase 5. *)

WriteNext(w) ==
    /\ pc = "write"
    /\ w \in writes
    /\ writes' = writes \ {w}
    /\ cur' = w
    /\ todo' = Above[w]
    /\ pc' = "parents"
    /\ UNCHANGED <<node, seen, dels, deleted, wrote, refused, dir, quiet, history>>

\* The write of cur is over.
Fail == pc' = "write" /\ refused' = refused \cup {cur} /\ UNCHANGED wrote

Succeed == pc' = "write" /\ wrote' = wrote \cup {cur} /\ UNCHANGED refused

\* ensureRefParents, from the top.
EnsureParent(f) ==
    /\ pc = "parents"
    /\ f \in todo /\ Above[f] \cap todo = {}
    /\ todo' = todo \ {f}
    /\ \/ node[f] = "folder" /\ UNCHANGED <<node, pc, wrote, refused, quiet>>
       \/ Vacant(f) /\ Put(f, "folder") /\ UNCHANGED <<pc, wrote, refused, quiet>>
       \/ node[f] # "folder" /\ ~Vacant(f) /\ Fail /\ UNCHANGED <<node, quiet>>
       \/ Vacant(f) /\ Put(f, "folder") /\ Fail /\ Faulted
       \/ UNCHANGED node /\ Fail /\ Faulted
    /\ UNCHANGED <<seen, dels, writes, deleted, cur, dir, history>>

\* A name the scan held, unless this batch deleted it, gets a new revision.
IsUpdate == seen[cur] = "ref" /\ cur \notin deleted

MayRevise == Vacant(cur) \/ cur \in Files(node)

Update ==
    /\ pc = "create" /\ IsUpdate
    /\ \/ MayRevise /\ Put(cur, "ref") /\ Succeed /\ UNCHANGED quiet
       \/ MayRevise /\ Put(cur, "ref") /\ Fail /\ Faulted
       \/ ~MayRevise /\ Fail /\ UNCHANGED <<node, quiet>>
       \/ UNCHANGED node /\ Fail /\ Faulted
    /\ UNCHANGED <<seen, dels, writes, deleted, cur, dir, todo, history>>

(***************************************************************************)
(* createRefHealingCollision.  A create that did not commit is looked at:  *)
(* a folder that is not protected is walked, and if no file is anywhere    *)
(* beneath it, it is trashed and the create tried once more.               *)
(***************************************************************************)
Create ==
    /\ pc = "create" /\ ~IsUpdate
    /\ \/ Vacant(cur) /\ Put(cur, "ref") /\ Succeed /\ UNCHANGED quiet
       \/ /\ Vacant(cur) /\ Put(cur, "ref") /\ Faulted
          /\ pc' = "stat" /\ UNCHANGED <<wrote, refused>>
       \/ /\ UNCHANGED node
          /\ pc' = "stat" /\ UNCHANGED <<wrote, refused>>
          /\ Faulted \/ (~Vacant(cur) /\ UNCHANGED quiet)
    /\ UNCHANGED <<seen, dels, writes, deleted, cur, dir, todo, history>>

\* (Mutant) No folder may be taken away.
HealableNone(p) == FALSE

Healable(p) == node[p] = "folder" /\ p \notin Protected

Stat ==
    /\ pc = "stat"
    /\ \/ /\ Healable(cur)
          /\ pc' = "walk" /\ todo' = {cur} /\ gap' = {}
          /\ UNCHANGED <<wrote, refused, quiet>>
       \/ ~Healable(cur) /\ Fail /\ UNCHANGED <<todo, gap, quiet>>
       \/ Fail /\ Faulted /\ UNCHANGED <<todo, gap>>
    /\ UNCHANGED <<node, seen, dels, writes, deleted, cur, dir, arrived, pushes, others>>

\* (Mutant) Only what stands directly in the folder is looked at.
NextLevelNone(f) == {}

NextLevel(f) == {q \in Children(f) : node[q] = "folder"}

\* subtreeFiles, one folder at a time: a file, or a folder whose name cannot be
\* listed, ends the healing.
Walk(f) ==
    /\ pc = "walk"
    /\ f \in todo
    /\ \/ /\ node[f] = "folder"
          /\ Children(f) \cap Files(node) = {} /\ NextLevel(f) \cap Invalid = {}
          /\ todo' = (todo \ {f}) \cup NextLevel(f)
          /\ pc' = IF todo' = {} THEN "heal" ELSE "walk"
          /\ UNCHANGED <<wrote, refused, gap, quiet>>
       \/ /\ ListsNothing(f)
          /\ todo' = todo \ {f} /\ gap' = gap \cup Hidden(f) /\ Faulted
          /\ pc' = IF todo' = {} THEN "heal" ELSE "walk"
          /\ UNCHANGED <<wrote, refused>>
       \/ /\ \/ node[f] # "folder"
             \/ Children(f) \cap Files(node) # {}
             \/ NextLevel(f) \cap Invalid # {}
          /\ Fail /\ UNCHANGED <<todo, gap, quiet>>
       \/ Fail /\ Faulted /\ UNCHANGED <<todo, gap>>
    /\ UNCHANGED <<node, seen, dels, writes, deleted, cur, dir, arrived, pushes, others>>

Heal ==
    /\ pc = "heal"
    /\ \/ /\ node' = Without(cur)
          /\ pc' = "retry" /\ UNCHANGED <<wrote, refused, quiet>>
       \/ node' \in {node, Without(cur)} /\ Fail /\ Faulted
    /\ UNCHANGED <<seen, dels, writes, deleted, cur, dir, todo, history>>

Retry ==
    /\ pc = "retry"
    /\ \/ Vacant(cur) /\ Put(cur, "ref") /\ Succeed /\ UNCHANGED quiet
       \/ Vacant(cur) /\ Put(cur, "ref") /\ Fail /\ Faulted
       \/ UNCHANGED node /\ Fail /\ (Faulted \/ (~Vacant(cur) /\ UNCHANGED quiet))
    /\ UNCHANGED <<seen, dels, writes, deleted, cur, dir, todo, history>>

ParentsDone ==
    /\ pc = "parents"
    /\ todo = {}
    /\ pc' = "create"
    /\ UNCHANGED <<node, batch, cur, dir, todo, quiet, history>>

WritesDone ==
    /\ pc = "write"
    /\ writes = {}
    /\ pc' = "end"
    /\ UNCHANGED <<node, batch, cur, dir, todo, quiet, history>>

\* The process dies between two calls.
Die ==
    /\ pc \notin {"start", "end"}
    /\ pc' = "start"
    /\ UNCHANGED <<node, batch, cur, dir, todo, quiet, history>>

-----------------------------------------------------------------------------
(***************************************************************************)
(* Other clients: they add a file that is no ref, or a folder, and take    *)
(* away what is no ref and holds none, and they leave the layout alone.    *)
(***************************************************************************)
OtherActs == others < MaxOther /\ others' = others + 1 /\ quiet' = FALSE

OtherPuts(p, kind) ==
    /\ OtherActs
    /\ Vacant(p)
    /\ Put(p, kind)
    /\ IF kind = "other" THEN arrived' = arrived \cup {p} /\ gap' = gap \cup {p}
                         ELSE UNCHANGED <<arrived, gap>>
    /\ UNCHANGED <<pc, batch, cur, dir, todo, pushes>>

OtherTakes(p) ==
    /\ OtherActs
    /\ node[p] \in {"folder", "other"} /\ p \notin Protected
    /\ \A q \in Under(p) : node[q] # "ref"
    /\ node' = Without(p)
    /\ UNCHANGED <<pc, batch, cur, dir, todo, arrived, gap, pushes>>

Next ==
    \/ \E ask \in Asks : Start(ask)
    \/ \E p \in Paths : \/ DeleteNothing(p) \/ Delete(p) \/ WriteNext(p)
                        \/ EnsureParent(p) \/ Walk(p)
                        \/ OtherPuts(p, "other") \/ OtherPuts(p, "folder") \/ OtherTakes(p)
    \/ PruneStops \/ PruneList \/ PruneTrash \/ DeletesDone
    \/ ParentsDone \/ Update \/ Create \/ Stat \/ Heal \/ Retry \/ WritesDone
    \/ Die

Spec == Init /\ [][Next]_vars

-----------------------------------------------------------------------------
(* Properties. *)

(***************************************************************************)
(* Taking folders away costs nobody a file, save in the gap its comment    *)
(* admits (push.go pruneEmptyParents): a file that is lost to a step of    *)
(* the push is the ref git asked to delete, or it came after the scan (a   *)
(* delete or an update of that name) or after the listing that had found   *)
(* the folder empty, or that listing came back with no output, which List  *)
(* takes for an empty folder (cli.go).  No other ref is ever lost.         *)
(***************************************************************************)
FilesLostOnlyInGap ==
    [][others' = others =>
          \A p \in Files(node) : node'[p] # node[p] =>
              \/ pc = "delete" /\ (p \in dels \/ p \in arrived)
              \/ pc = "create" /\ p \in arrived
              \/ pc \in {"prunetrash", "heal"} /\ p \in gap]_vars

(***************************************************************************)
(* The folders Bootstrap made stay, whatever is deleted or written, also a *)
(* ref that is named like one of them (push.go protectedNamespaceRoots).   *)
(***************************************************************************)
RootsStay == \A p \in Protected : node[p] = "folder"

(***************************************************************************)
(* What a push that died has left in the ref tree never blocks a later     *)
(* one: a push whose calls succeed and which nobody disturbs publishes     *)
(* every write that its preflight accepted, but for a name of the layout   *)
(* (push.go: self-heal is the correctness mechanism of prune).             *)
(***************************************************************************)
ResidueNeverBlocks == quiet => refused \subseteq Protected

(***************************************************************************)
(* A push leaves the tree as tidy as it found it: when it ends without a   *)
(* failure, a folder is empty only if it was, or is part of the layout.    *)
(***************************************************************************)
Empty(tree, f) == tree[f] = "folder" /\ \A q \in Children(f) : tree[q] = "absent"

LeavesNoLitter ==
    (pc = "end" /\ quiet) =>
        \A f \in Paths \ Protected : Empty(node, f) => Empty(seen, f)
=============================================================================
