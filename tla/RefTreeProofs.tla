----------------------------- MODULE RefTreeProofs -----------------------------
(***************************************************************************)
(* Proofs that a push takes no folder of the layout, and no file that was  *)
(* there when it looked: beneath the folder to be pruned, and beneath the  *)
(* one to be healed as far as the walk has come, any file came after the   *)
(* listing; and before the first write every file was there at the scan or *)
(* came after it.                                                          *)
(*                                                                         *)
(* And that an undisturbed push is never blocked by what an earlier one    *)
(* left, and leaves no litter: what the preflight accepted fits among what *)
(* is there, of which there is nothing but what the scan saw and what this *)
(* push made.                                                              *)
(***************************************************************************)
EXTENDS RefTree, TLAPS

Writing == {"parents", "create", "stat", "walk", "heal", "retry"}

\* What is worked on is a path, and no folder of the layout when it is trashed.
Positions ==
    /\ pc \in Writing => cur \in Paths
    /\ pc \in {"walk", "heal"} => cur \notin Protected
    /\ pc = "prunetrash" => dir \in Paths \ Protected

\* What the scan saw, and what came since.
Scanned ==
    /\ Rooted(seen)
    /\ \A p \in Protected : seen[p] = "folder"
    /\ \A p \in Paths : node[p] = "other" => seen[p] = "other" \/ p \in arrived
    /\ pc \in {"delete", "prune", "prunetrash"} => Files(node) \subseteq Files(seen) \cup arrived

\* What the listings found, and what came since.
Listed ==
    /\ pc = "prunetrash" =>
          \A q \in Files(node) : q = dir \/ dir \in Above[q] => q \in gap
    /\ pc \in {"walk", "heal"} =>
          \A q \in Files(node) : q = cur \/ cur \in Above[q] =>
              q \in gap \/ \E f \in todo : f \in Above[q]
    /\ pc = "heal" => todo = {}

IInv == TypeOK /\ RootsStay /\ Positions /\ Scanned /\ Listed

-----------------------------------------------------------------------------
(* What each change of the tree preserves. *)

\* Trashing a path that is no folder of the layout leaves a tree with its
\* layout, in which nothing is new.
LEMMA WithoutKeeps ==
    ASSUME NEW p \in Paths \ Protected, node \in [Paths -> Kinds], Rooted(node), RootsStay
    PROVE  /\ Without(p) \in [Paths -> Kinds]
           /\ Rooted(Without(p))
           /\ \A q \in Protected : Without(p)[q] = "folder"
           /\ \A q \in Paths : Without(p)[q] \in {"absent", node[q]}
           /\ \A q \in Paths : q # p /\ p \notin Above[q] => Without(p)[q] = node[q]
<1>1. Without(p) \in [Paths -> Kinds]
  BY DEF Without, Kinds
<1>2. Rooted(Without(p))
  BY TreeConstants DEF Without, Rooted
<1>3. \A q \in Protected : Without(p)[q] = "folder"
  BY TreeConstants DEF Without, RootsStay
<1> QED
  BY <1>1, <1>2, <1>3 DEF Without

\* Putting something where nothing is, in a folder, keeps the tree a tree.
LEMMA PutKeeps ==
    ASSUME NEW p \in Paths, NEW k \in Kinds \ {"absent"}, node \in [Paths -> Kinds],
           Rooted(node), RootsStay, Vacant(p), Put(p, k)
    PROVE  /\ node' \in [Paths -> Kinds]
           /\ Rooted(node')
           /\ RootsStay'
           /\ \A q \in Paths : q # p => node'[q] = node[q]
           /\ node'[p] = k
           /\ p \notin Files(node)
<1>1. node' \in [Paths -> Kinds] /\ node'[p] = k /\ \A q \in Paths : q # p => node'[q] = node[q]
  BY DEF Put
<1>2. \A q \in Above[p] : node[q] = "folder"
  BY TreeConstants DEF Vacant, Rooted
<1>3. Rooted(node')
  <2> SUFFICES ASSUME NEW q \in Paths, node'[q] # "absent", NEW a \in Above[q]
               PROVE  node'[a] = "folder"
    BY DEF Rooted
  <2>1. a \in Paths
    BY TreeConstants
  <2>2. node[a] = "folder"
    BY <1>1, <1>2 DEF Rooted
  <2> QED
    BY <1>1, <2>1, <2>2 DEF Vacant
<1>4. RootsStay'
  BY <1>1, TreeConstants DEF RootsStay, Vacant
<1> QED
  BY <1>1, <1>3, <1>4 DEF Files, Vacant

\* Replacing a file keeps the tree a tree: nothing is beneath a file.
LEMMA ReplaceKeeps ==
    ASSUME NEW p \in Files(node), node \in [Paths -> Kinds], Rooted(node), RootsStay,
           Put(p, "ref")
    PROVE  /\ node' \in [Paths -> Kinds]
           /\ Rooted(node')
           /\ RootsStay'
           /\ \A q \in Paths : q # p => node'[q] = node[q]
           /\ node'[p] = "ref"
<1>1. node' \in [Paths -> Kinds] /\ node'[p] = "ref" /\ \A q \in Paths : q # p => node'[q] = node[q]
  BY DEF Put, Kinds, Files
<1>2. Rooted(node')
  <2> SUFFICES ASSUME NEW q \in Paths, node'[q] # "absent", NEW a \in Above[q]
               PROVE  node'[a] = "folder"
    BY DEF Rooted
  <2>1. a \in Paths
    BY TreeConstants
  <2>2. node[q] # "absent"
    BY <1>1 DEF Files
  <2>3. node[a] = "folder"
    BY <2>2 DEF Rooted
  <2> QED
    BY <1>1, <2>1, <2>3 DEF Files
<1>3. RootsStay'
  BY <1>1, TreeConstants DEF RootsStay, Files
<1> QED
  BY <1>1, <1>2, <1>3

-----------------------------------------------------------------------------
(* The invariant. *)

LEMMA InitInv == Init => IInv
<1> SUFFICES ASSUME Init PROVE IInv
  OBVIOUS
<1>1. node \in [Paths -> Kinds] /\ Rooted(node) /\ RootsStay
  BY TreeConstants DEF Init, RootsStay
<1>2. TypeOK
  BY <1>1, TreeConstants DEF Init, TypeOK, Phases
<1> QED
  BY <1>1, <1>2 DEF Init, IInv, Positions, Scanned, Listed, Writing, RootsStay

\* The steps that leave the tree as it is, those that trash, those that put.
Look ==
    \/ \E ask \in Asks : Start(ask)
    \/ \E p \in Paths : DeleteNothing(p) \/ WriteNext(p) \/ Walk(p)
    \/ PruneStops \/ PruneList \/ DeletesDone \/ ParentsDone \/ Stat \/ WritesDone \/ Die

TrashSome == (\E p \in Paths : Delete(p) \/ OtherTakes(p)) \/ PruneTrash \/ Heal

PutSome ==
    \/ \E p \in Paths : EnsureParent(p) \/ OtherPuts(p, "other") \/ OtherPuts(p, "folder")
    \/ Update \/ Create \/ Retry

LEMMA LookKeeps == ASSUME IInv, Look PROVE IInv' /\ UNCHANGED node
<1>0. UNCHANGED node
  BY DEF Look, Start, DeleteNothing, WriteNext, Walk, PruneStops, PruneList, DeletesDone,
         ParentsDone, Stat, WritesDone, Die
<1> USE <1>0 DEF IInv, TypeOK, RootsStay, batch, history, Phases
<1>1. CASE \E ask \in Asks : Start(ask)
  <2> PICK ask \in Asks : Start(ask)
    BY <1>1
  <2>1. TypeOK'
    BY TreeConstants DEF Start
  <2>2. Positions' /\ Listed'
    BY DEF Start, Positions, Listed, Writing
  <2>3. Scanned'
    BY DEF Start, Scanned, Files
  <2> QED
    BY <2>1, <2>2, <2>3
<1>2. ASSUME NEW p \in Paths, DeleteNothing(p) PROVE IInv'
  BY <1>2 DEF DeleteNothing, Positions, Scanned, Listed, Writing, Files
<1>3. ASSUME NEW p \in Paths, WriteNext(p) PROVE IInv'
  BY <1>3, TreeConstants DEF WriteNext, Positions, Scanned, Listed, Writing, Files
<1>4. CASE PruneStops
  BY <1>4 DEF PruneStops, Positions, Scanned, Listed, Writing, Files
<1>5. CASE DeletesDone
  BY <1>5 DEF DeletesDone, Positions, Scanned, Listed, Writing, Files
<1>6. CASE ParentsDone
  BY <1>6 DEF ParentsDone, Positions, Scanned, Listed, Writing, Files
<1>7. CASE WritesDone
  BY <1>7 DEF WritesDone, Positions, Scanned, Listed, Writing, Files
<1>8. CASE Die
  BY <1>8 DEF Die, Positions, Scanned, Listed, Writing, Files
<1>9. CASE PruneList
  <2>1. TypeOK' /\ Positions' /\ Scanned'
    BY <1>9 DEF PruneList, Faulted, Positions, Scanned, Writing, Files, Prunable,
                ListsNothing, Hidden, Under
  <2>2. CASE pc' = "prunetrash"
    \* Nothing is in the folder, so nothing is anywhere beneath it, but what was
    \* not shown.
    <3>1. /\ dir \in Paths /\ node[dir] = "folder" /\ dir' = dir
          /\ HoldsNothing(dir) \/ gap' = Hidden(dir)
      BY <1>9, <2>2 DEF PruneList, Prunable, ListsNothing
    <3>2. ASSUME NEW q \in Files(node), dir \in Above[q] PROVE q \in gap'
      <4>1. q \in Under(dir) /\ node[q] # "absent"
        BY <3>2 DEF Under, Files
      <4>2. CASE gap' = Hidden(dir)
        BY <3>2, <4>1, <4>2 DEF Hidden
      <4>3. CASE HoldsNothing(dir)
        <5>1. PICK c \in Children(dir) : q = c \/ q \in Under(c)
          BY <3>1, <4>1, TreeConstants
        <5>2. node[c] # "absent"
          BY <3>2, <4>1, <5>1 DEF Rooted, Under, Files
        <5> QED
          BY <4>3, <5>1, <5>2 DEF HoldsNothing
      <4> QED
        BY <3>1, <4>2, <4>3
    <3>3. dir \notin Files(node)
      BY <3>1 DEF Files
    <3> QED
      BY <2>1, <2>2, <3>1, <3>2, <3>3 DEF Listed, Files
  <2>3. CASE pc' = "delete"
    BY <2>1, <2>3 DEF Listed
  <2> QED
    BY <1>9, <2>2, <2>3 DEF PruneList
<1>10. CASE Stat
  <2>1. TypeOK' /\ Positions' /\ Scanned'
    BY <1>10 DEF Stat, Fail, Faulted, Positions, Scanned, Writing, Files, Healable
  <2>2. CASE pc' = "walk"
    BY <1>10, <2>1, <2>2 DEF Stat, Fail, Listed, Files, Healable, Positions, Writing
  <2>3. CASE pc' = "write"
    BY <2>1, <2>3 DEF Listed
  <2> QED
    BY <1>10, <2>2, <2>3 DEF Stat, Fail
<1>11. ASSUME NEW f \in Paths, Walk(f) PROVE IInv'
  <2>1. TypeOK' /\ Positions' /\ Scanned'
    BY <1>11 DEF Walk, Fail, Faulted, Positions, Scanned, Writing, Files, NextLevel, Children,
                 Hidden, Under
  <2>2. CASE pc' = "write"
    BY <2>1, <2>2 DEF Listed
  <2>3. CASE pc' # "write"
    <3>1. /\ \/ /\ Children(f) \cap Files(node) = {}
                /\ todo' = (todo \ {f}) \cup NextLevel(f) /\ gap' = gap
             \/ todo' = todo \ {f} /\ gap' = gap \cup Hidden(f)
          /\ pc' = IF todo' = {} THEN "heal" ELSE "walk"
          /\ UNCHANGED cur /\ pc = "walk"
      BY <1>11, <2>3 DEF Walk, Fail
    \* A file beneath the folder listed is beneath a folder that is now to be, or
    \* was not shown.
    <3>2. ASSUME NEW q \in Files(node), f \in Above[q]
          PROVE  q \in gap' \/ \E c \in todo' : c \in Above[q]
      <4>1. q \in Under(f) /\ node[q] # "absent"
        BY <3>2 DEF Under, Files
      <4>0. CASE gap' = gap \cup Hidden(f)
        BY <3>2, <4>0, <4>1 DEF Hidden
      <4> SUFFICES ASSUME Children(f) \cap Files(node) = {},
                          todo' = (todo \ {f}) \cup NextLevel(f)
                   PROVE  \E c \in todo' : c \in Above[q]
        BY <3>1, <4>0
      <4>2. PICK c \in Children(f) : q \in Under(c)
        BY <3>1, <3>2, <4>1, TreeConstants
      <4>3. node[c] = "folder" /\ c \in Above[q]
        BY <4>1, <4>2 DEF Rooted, Under
      <4> QED
        BY <4>2, <4>3 DEF NextLevel
    <3>4. gap \subseteq gap' /\ todo \subseteq todo' \cup {f}
      BY <3>1
    <3>3. Listed'
      BY <3>1, <3>2, <3>4 DEF Listed, Files
    <3> QED
      BY <2>1, <3>3
  <2> QED
    BY <2>2, <2>3
<1> QED
  BY <1>1, <1>2, <1>3, <1>4, <1>5, <1>6, <1>7, <1>8, <1>9, <1>10, <1>11 DEF Look

LEMMA TrashKeeps == ASSUME IInv, TrashSome PROVE IInv'
<1> USE DEF IInv, TypeOK
<1>1. ASSUME NEW p \in Paths \ Protected, node' \in {node, Without(p)}
      PROVE  /\ node' \in [Paths -> Kinds] /\ Rooted(node') /\ RootsStay'
             /\ \A q \in Paths : node'[q] \in {"absent", node[q]}
             /\ (Files(node))' \subseteq Files(node)
  <2>1. node' = node \/ node' = Without(p)
    BY <1>1
  <2>2. \A q \in Paths : node[q] \in {"absent", node[q]}
    OBVIOUS
  <2>3. /\ node' \in [Paths -> Kinds] /\ Rooted(node') /\ RootsStay'
        /\ \A q \in Paths : node'[q] \in {"absent", node[q]}
    BY <2>1, <2>2, WithoutKeeps, TreeConstants DEF RootsStay
  <2> QED
    BY <2>3 DEF Files
<1>2. ASSUME NEW d \in Paths, Delete(d) PROVE IInv'
  <2>1. d \notin Protected /\ node' \in {node, Without(d)} /\ UNCHANGED <<seen, arrived, gap, cur, todo>>
    BY <1>2 DEF Delete, Scanned, history
  <2>2. pc' \in {"delete", "prune"} /\ pc = "delete"
    BY <1>2 DEF Delete
  <2>3. TypeOK' /\ RootsStay'
    BY <1>1, <1>2, <2>1, TreeConstants DEF Delete, Faulted, history, Phases
  <2>4. Scanned'
    BY <1>1, <2>1, <2>2 DEF Scanned, Files
  <2> QED
    BY <2>2, <2>3, <2>4 DEF Positions, Listed, Writing
<1>3. CASE PruneTrash
  <2>1. dir \in Paths \ Protected /\ node' \in {node, Without(dir)} /\ UNCHANGED <<seen, arrived, gap, cur, todo>>
    BY <1>3 DEF PruneTrash, Positions, batch, history
  <2>2. pc' \in {"delete", "prune"} /\ pc = "prunetrash"
    BY <1>3 DEF PruneTrash
  <2>3. TypeOK' /\ RootsStay'
    BY <1>1, <1>3, <2>1, TreeConstants DEF PruneTrash, Faulted, batch, history, Phases
  <2>4. Scanned'
    BY <1>1, <2>1, <2>2 DEF Scanned, Files
  <2> QED
    BY <2>2, <2>3, <2>4 DEF Positions, Listed, Writing
<1>4. CASE Heal
  <2>1. cur \in Paths \ Protected /\ node' \in {node, Without(cur)} /\ UNCHANGED <<seen, arrived, gap, cur, todo>>
    BY <1>4 DEF Heal, Positions, Writing, history
  <2>2. pc' \in {"retry", "write"} /\ pc = "heal"
    BY <1>4 DEF Heal, Fail
  <2>3. TypeOK' /\ RootsStay'
    BY <1>1, <1>4, <2>1, TreeConstants DEF Heal, Fail, Faulted, history, Phases
  <2>4. Scanned'
    BY <1>1, <2>1, <2>2 DEF Scanned, Files
  <2> QED
    BY <2>1, <2>2, <2>3, <2>4 DEF Positions, Listed, Writing
<1>5. ASSUME NEW p \in Paths, OtherTakes(p) PROVE IInv'
  <2>1. p \notin Protected /\ node' \in {node, Without(p)}
        /\ UNCHANGED <<pc, seen, arrived, gap, cur, dir, todo>>
    BY <1>5 DEF OtherTakes, batch
  <2>6. others' \in 0..MaxOther /\ quiet' = FALSE
    BY <1>5, TreeConstants DEF OtherTakes, OtherActs
  <2>7. /\ node' \in [Paths -> Kinds] /\ Rooted(node') /\ RootsStay'
    BY <1>1, <2>1
  <2>2. TypeOK' /\ RootsStay'
    BY <1>5, <2>1, <2>6, <2>7 DEF OtherTakes, batch
  <2>3. Scanned'
    BY <1>1, <2>1 DEF Scanned, Files
  <2>4. Listed'
    BY <1>1, <2>1 DEF Listed
  <2> QED
    BY <2>1, <2>2, <2>3, <2>4 DEF Positions, Writing
<1> QED
  BY <1>2, <1>3, <1>4, <1>5 DEF TrashSome

LEMMA PutKeepsInv == ASSUME IInv, PutSome PROVE IInv'
<1> USE DEF IInv, TypeOK
<1>1. ASSUME NEW p \in Paths, NEW k \in {"folder", "ref", "other"},
             node' = node \/ (Vacant(p) /\ Put(p, k))
      PROVE  /\ node' \in [Paths -> Kinds] /\ Rooted(node') /\ RootsStay'
             /\ \A q \in Paths : node'[q] = "other" => node[q] = "other" \/ (q = p /\ k = "other")
             /\ (Files(node))' \subseteq Files(node) \cup (IF k = "folder" THEN {} ELSE {p})
  <2>1. CASE node' = node
    BY <2>1 DEF RootsStay, Files
  <2>2. CASE Vacant(p) /\ Put(p, k)
    <3>1. k \in Kinds \ {"absent"}
      BY DEF Kinds
    <3> QED
      BY <2>2, <3>1, PutKeeps DEF Files
  <2> QED
    BY <1>1, <2>1, <2>2
<1>2. ASSUME NEW f \in Paths, EnsureParent(f) PROVE IInv'
  <2>1. (node' = node \/ (Vacant(f) /\ Put(f, "folder")))
        /\ UNCHANGED <<seen, arrived, gap, cur, dir>>
    BY <1>2 DEF EnsureParent, history
  <2>2. pc = "parents" /\ pc' \in {"parents", "write"}
    BY <1>2 DEF EnsureParent, Fail
  <2>3. TypeOK' /\ RootsStay'
    BY <1>1, <1>2, <2>1, <2>2 DEF EnsureParent, Fail, Faulted, history, Phases, Positions, Writing
  <2>4. Scanned'
    BY <1>1, <2>1, <2>2 DEF Scanned
  <2> QED
    BY <2>1, <2>2, <2>3, <2>4 DEF Positions, Listed, Writing
<1>3. CASE Create \/ Retry
  <2>1. cur \in Paths /\ pc \in {"create", "retry"} /\ pc' \in {"write", "stat"}
    BY <1>3 DEF Create, Retry, Fail, Succeed, Positions, Writing
  <2>2. (node' = node \/ (Vacant(cur) /\ Put(cur, "ref"))) /\ UNCHANGED <<seen, arrived, gap, cur, dir, todo>>
    BY <1>3 DEF Create, Retry, history
  <2>3. TypeOK' /\ RootsStay'
    BY <1>1, <1>3, <2>1, <2>2 DEF Create, Retry, Fail, Succeed, Faulted, history, Phases
  <2>4. Scanned'
    BY <1>1, <2>1, <2>2 DEF Scanned
  <2> QED
    BY <2>1, <2>2, <2>3, <2>4 DEF Positions, Listed, Writing
<1>4. CASE Update
  <2>1. cur \in Paths /\ pc = "create" /\ pc' = "write"
    BY <1>4 DEF Update, Fail, Succeed, Positions, Writing
  <2>2. node' = node \/ (Vacant(cur) /\ Put(cur, "ref")) \/ (cur \in Files(node) /\ Put(cur, "ref"))
    BY <1>4 DEF Update, MayRevise
  <2>3. /\ node' \in [Paths -> Kinds] /\ Rooted(node') /\ RootsStay'
        /\ \A q \in Paths : node'[q] = "other" => node[q] = "other"
    BY <1>1, <2>1, <2>2, ReplaceKeeps
  <2>4. TypeOK' /\ RootsStay'
    BY <1>4, <2>1, <2>3 DEF Update, Fail, Succeed, Faulted, history, Phases
  <2>5. Scanned'
    BY <1>4, <2>1, <2>3 DEF Update, Scanned, history
  <2> QED
    BY <2>1, <2>4, <2>5 DEF Positions, Listed, Writing
<1>5. ASSUME NEW p \in Paths, NEW k \in {"other", "folder"}, OtherPuts(p, k) PROVE IInv'
  <2>1. Vacant(p) /\ Put(p, k) /\ UNCHANGED <<pc, seen, cur, dir, todo>>
    BY <1>5 DEF OtherPuts, batch
  <2>2. /\ arrived' = arrived \cup IF k = "other" THEN {p} ELSE {}
        /\ gap' = gap \cup IF k = "other" THEN {p} ELSE {}
    BY <1>5 DEF OtherPuts
  <2>6. others' \in 0..MaxOther /\ quiet' = FALSE
    BY <1>5, TreeConstants DEF OtherPuts, OtherActs
  <2>7. /\ node' \in [Paths -> Kinds] /\ Rooted(node') /\ RootsStay'
    BY <1>1, <2>1
  <2>3. TypeOK' /\ RootsStay'
    BY <1>5, <2>1, <2>2, <2>6, <2>7 DEF OtherPuts, batch
  <2>4. Scanned'
    BY <1>1, <2>1, <2>2 DEF Scanned
  <2>5. Listed'
    BY <1>1, <2>1, <2>2 DEF Listed
  <2> QED
    BY <2>1, <2>3, <2>4, <2>5 DEF Positions, Writing
<1> QED
  BY <1>2, <1>3, <1>4, <1>5 DEF PutSome

LEMMA NextGroups == Next => Look \/ TrashSome \/ PutSome
BY DEF Next, Look, TrashSome, PutSome

LEMMA Invariance == Spec => []IInv
<1>1. ASSUME IInv, [Next]_vars PROVE IInv'
  <2>1. CASE UNCHANGED vars
    BY <1>1, <2>1 DEF vars, batch, history, IInv, TypeOK, RootsStay, Positions, Scanned, Listed,
                      Files, Writing
  <2> QED
    BY <1>1, <2>1, NextGroups, LookKeeps, TrashKeeps, PutKeepsInv
<1> QED
  BY <1>1, InitInv, PTL DEF Spec

-----------------------------------------------------------------------------
\* Every variable keeps its type, and the ref tree is a tree.
THEOREM TypeCorrect == Spec => []TypeOK
<1>1. IInv => TypeOK
  BY DEF IInv
<1> QED
  BY <1>1, Invariance, PTL

\* The folders Bootstrap made are never taken away (RootsStay).
THEOREM RootsStayHolds == Spec => []RootsStay
<1>1. IInv => RootsStay
  BY DEF IInv
<1> QED
  BY <1>1, Invariance, PTL

\* A file is lost to a push only as the ref it deletes, or in the gap between a
\* listing and the trash that relies on it (FilesLostOnlyInGap).
THEOREM FilesLostOnlyInGapHolds == Spec => FilesLostOnlyInGap
<1> DEFINE Allowed(p) ==
      \/ pc = "delete" /\ (p \in dels \/ p \in arrived)
      \/ pc = "create" /\ p \in arrived
      \/ pc \in {"prunetrash", "heal"} /\ p \in gap
<1>1. ASSUME IInv, Next, others' = others, NEW p \in Files(node), node'[p] # node[p]
      PROVE  Allowed(p)
  <2> USE <1>1 DEF IInv, TypeOK
  <2>0. p \in Paths /\ node[p] # "absent"
    BY DEF Files
  <2>1. CASE Look
    BY <2>1, LookKeeps
  <2>2. ASSUME NEW d \in Paths, Delete(d) PROVE Allowed(p)
    <3>1. p = d \/ d \in Above[p]
      BY <2>0, <2>2 DEF Delete, Without
    <3>2. p # d => p \in arrived
      \* Nothing was beneath the ref when it was scanned.
      <4>1. ASSUME d \in Above[p] PROVE seen[p] = "absent"
        BY <2>0, <2>2, <4>1 DEF Delete, Scanned, Rooted, Kinds
      <4> QED
        BY <2>2, <3>1, <4>1 DEF Delete, Scanned, Files
    <3> QED
      BY <2>2, <3>1, <3>2 DEF Delete
  <2>3. CASE PruneTrash
    BY <2>0, <2>3 DEF PruneTrash, Without, Listed
  <2>4. CASE Heal
    BY <2>0, <2>4 DEF Heal, Without, Listed
  <2>5. ASSUME NEW q \in Paths, OtherTakes(q) \/ OtherPuts(q, "other") \/ OtherPuts(q, "folder")
        PROVE  FALSE
    BY <2>5 DEF OtherTakes, OtherPuts, OtherActs
  <2>6. ASSUME NEW f \in Paths, EnsureParent(f) PROVE FALSE
    BY <2>0, <2>6, PutKeeps DEF EnsureParent, Put, Vacant
  <2>7. CASE Create \/ Retry
    BY <2>0, <2>7 DEF Create, Retry, Put, Vacant
  <2>8. CASE Update
    <3>1. p = cur /\ node[p] = "other" /\ pc = "create" /\ seen[p] = "ref"
      BY <2>0, <2>8 DEF Update, IsUpdate, Put, Files, MayRevise, Vacant
    <3> QED
      BY <2>0, <3>1 DEF Scanned
  <2> QED
    BY <2>1, <2>2, <2>3, <2>4, <2>5, <2>6, <2>7, <2>8, NextGroups DEF TrashSome, PutSome
<1>2. ASSUME IInv, [Next]_vars
      PROVE  [others' = others =>
                \A p \in Files(node) : node'[p] # node[p] => Allowed(p)]_vars
  BY <1>1, <1>2
<1> QED
  BY <1>2, Invariance, PTL DEF Spec, FilesLostOnlyInGap

-----------------------------------------------------------------------------
(***************************************************************************)
(* What a push that nobody disturbs relies on.  Fits is what the preflight *)
(* has made sure of, for the writes it accepted; Explained, that no file   *)
(* is there but those of the scan and those written, and no folder but     *)
(* those of the scan and those above a write; Way, how far the write in    *)
(* hand has come; Tidy, where a folder may be empty that was not.          *)
(***************************************************************************)
SkippedThen(p) == seen[p] = "other" \/ (p \in Invalid /\ seen[p] # "absent")

Accepted == writes \cup wrote \cup refused \cup {w \in {cur} : pc \in Writing}

Fits ==
    \A w \in Accepted :
        /\ \A p \in Paths : SkippedThen(p) => p # w /\ ~Nested(p, w)
        /\ \A r \in (Files(seen) \ (dels \cup deleted)) \cup Accepted : ~Nested(r, w)

Explained ==
    /\ \A p \in Files(node) : p \in wrote \/ (node[p] = seen[p] /\ p \notin deleted)
    /\ \A p \in Paths : node[p] = "folder" => seen[p] = "folder" \/ \E w \in Accepted : p \in Above[w]

Once ==
    /\ \A x \in dels \cup deleted : ~SkippedThen(x)
    /\ pc \in Writing \cup {"write", "end"} => dels = {}
    /\ writes \cap wrote = {}
    /\ pc \in Writing => cur \notin writes \cup wrote

Way ==
    /\ pc = "parents" => todo \subseteq Above[cur] /\ \A f \in Above[cur] \ todo : node[f] = "folder"
    /\ pc \in Writing \ {"parents"} => \A f \in Above[cur] : node[f] = "folder"
    /\ pc = "stat" => ~IsUpdate /\ node[cur] # "absent"
    /\ pc = "walk" => \A f \in todo : node[f] = "folder" /\ (f = cur \/ cur \in Above[f])
    /\ pc = "retry" => node[cur] = "absent"

Litter == {f \in Paths \ Protected : Empty(node, f) /\ ~Empty(seen, f)}

Tidy ==
    /\ pc \in {"delete", "write", "end"} => Litter = {}
    /\ pc \in {"prune", "prunetrash"} => Litter \subseteq {dir}
    /\ pc \in Writing => Litter \subseteq Above[cur]

Undisturbed == quiet /\ pc # "start"

Calm ==
    /\ quiet => refused \subseteq Protected
    /\ Undisturbed => Fits /\ Explained /\ Once /\ Way /\ Tidy

\* A folder above something that is there is not empty.
LEMMA NotEmptyAbove ==
    ASSUME NEW tree \in [Paths -> Kinds], Rooted(tree),
           NEW p \in Paths, tree[p] # "absent", NEW f \in Above[p]
    PROVE  ~Empty(tree, f)
<1>1. f \in Paths /\ p \in Under(f)
  BY TreeConstants DEF Under
<1>2. CASE p \in Children(f)
  BY <1>2 DEF Empty
<1>3. CASE \E c \in Children(f) : p \in Under(c)
  <2> PICK c \in Children(f) : p \in Under(c)
    BY <1>3
  <2>1. tree[c] = "folder"
    BY DEF Rooted, Under
  <2> QED
    BY <2>1 DEF Empty
<1> QED
  BY <1>1, <1>2, <1>3, TreeConstants

\* Trashing a path can leave only its own folder empty.
LEMMA WithoutEmpties ==
    ASSUME NEW p \in Paths, node \in [Paths -> Kinds], NEW f \in Paths,
           Empty(Without(p), f), ~Empty(node, f)
    PROVE  f = Parent[p]
<1>1. node[f] = "folder" /\ f # p /\ p \notin Above[f]
  BY DEF Empty, Without
<1>2. PICK c \in Children(f) : node[c] # "absent"
  BY <1>1 DEF Empty
<1>3. c \in Paths /\ Parent[c] = f
  BY DEF Children
<1>4. c = p \/ p \in Above[c]
  BY <1>2, <1>3 DEF Empty, Without
<1>5. Above[c] = {f} \cup Above[f]
  BY <1>3, TreeConstants
<1> QED
  BY <1>1, <1>3, <1>4, <1>5

\* Putting something where nothing is can leave only that itself empty.
LEMMA PutEmpties ==
    ASSUME NEW p \in Paths, NEW k \in Kinds \ {"absent"}, node \in [Paths -> Kinds],
           Put(p, k), NEW f \in Paths, Empty(node', f), ~Empty(node, f),
           node[p] = "absent" \/ k # "folder"
    PROVE  f = p /\ k = "folder"
<1>1. node'[p] = k /\ \A q \in Paths : q # p => node'[q] = node[q]
  BY DEF Put
<1>2. CASE f # p
  <2>1. node[f] = "folder"
    BY <1>1, <1>2 DEF Empty
  <2>2. PICK c \in Children(f) : node[c] # "absent"
    BY <2>1 DEF Empty
  <2>3. c \in Paths /\ node'[c] = "absent"
    BY <2>2 DEF Empty, Children
  <2> QED
    BY <1>1, <2>2, <2>3
<1>3. CASE f = p
  BY <1>1, <1>3 DEF Empty
<1> QED
  BY <1>2, <1>3

LEMMA AcceptedPaths == ASSUME IInv PROVE Accepted \subseteq Paths
BY DEF IInv, TypeOK, Positions, Accepted

\* No file is in the way of the write in hand, and none beneath it; and no
\* folder beneath it has a name that cannot be listed.
LEMMA NothingInTheWay ==
    ASSUME IInv, Fits, Explained, Once, pc \in Writing
    PROVE  /\ \A q \in Files(node) : ~Nested(q, cur)
           /\ \A q \in Paths : node[q] = "folder" /\ cur \in Above[q] => q \notin Invalid
           /\ node[cur] = "folder" => seen[cur] = "folder"
           /\ cur \in Files(node) => IsUpdate
<1> USE DEF IInv, TypeOK
<1>1. cur \in Paths /\ cur \in Accepted /\ dels = {}
  BY DEF Positions, Accepted, Once
<1>2. wrote \subseteq Accepted
  BY DEF Accepted
<1>3. ASSUME NEW q \in Files(node) PROVE ~Nested(q, cur)
  <2>1. q \in wrote \/ q \in Files(seen) \ (dels \cup deleted)
    BY <1>1 DEF Explained, Files
  <2> QED
    BY <1>1, <1>2, <2>1 DEF Fits
<1>4. ASSUME NEW q \in Paths, node[q] = "folder", cur \in Above[q] PROVE q \notin Invalid
  <2>1. ASSUME NEW w \in Accepted, q \in Above[w] PROVE FALSE
    <3>1. w \in Paths /\ cur \in Above[w]
      BY <1>4, <2>1, AcceptedPaths, TreeConstants
    <3> QED
      BY <1>1, <3>1 DEF Fits, Nested
  <2>2. seen[q] = "folder"
    BY <1>4, <2>1 DEF Explained
  <2> QED
    BY <1>1, <1>4, <2>2 DEF Fits, Nested, SkippedThen
<1>5. ASSUME node[cur] = "folder" PROVE seen[cur] = "folder"
  <2>1. ASSUME NEW w \in Accepted, cur \in Above[w] PROVE FALSE
    BY <1>1, <2>1, AcceptedPaths DEF Fits, Nested
  <2> QED
    BY <1>1, <1>5, <2>1 DEF Explained
<1>6. ASSUME cur \in Files(node) PROVE IsUpdate
  <2>1. node[cur] = seen[cur] /\ cur \notin deleted
    BY <1>6 DEF Explained, Once
  <2>2. seen[cur] # "other"
    BY <1>1 DEF Fits, SkippedThen
  <2> QED
    BY <1>6, <2>1, <2>2 DEF IsUpdate, Files
<1> QED
  BY <1>3, <1>4, <1>5, <1>6

-----------------------------------------------------------------------------
(* The steps of the push. *)

\* The preflight makes sure of Fits, and at the scan there is nothing to explain.
LEMMA StartCalm == ASSUME IInv, NEW ask \in Asks, Start(ask) PROVE Calm'
<1> USE DEF IInv, TypeOK
<1> DEFINE fit == {w \in ask.writes : ~Occupied(w)}
           gone == {x \in ask.dels : ~Skipped(x)}
<1>1. /\ pc' = "delete" /\ seen' = node /\ node' = node /\ dels' = gone
      /\ writes' = {w \in fit : ~Clashes(w, [dels |-> gone, writes |-> fit])}
      /\ deleted' = {} /\ wrote' = {} /\ refused' = {}
  BY DEF Start
<1>2. Accepted' = writes' /\ writes' \subseteq Paths /\ dels' \subseteq Paths
  BY <1>1, TreeConstants DEF Accepted, Writing
<1>3. ASSUME NEW w \in writes' PROVE \A p \in Paths : Skipped(p) => p # w /\ ~Nested(p, w)
  BY <1>1, <1>3 DEF Occupied
<1>4. ASSUME NEW w \in writes', NEW r \in (Files(node) \ gone) \cup writes' PROVE ~Nested(r, w)
  <2>1. r \in Paths /\ w \in Paths
    BY <1>1, <1>2 DEF Files
  <2>2. ASSUME NEW x \in writes', node[x] # "ref",
               NEW y \in Paths, y \in writes' \/ (node[y] = "ref" /\ ~Skipped(y) /\ y \notin gone)
        PROVE  ~Nested(x, y)
    BY <1>1, <2>2 DEF Clashes, Nested
  <2>3. CASE node[w] = "ref" /\ node[r] \in {"ref", "other"}
    BY <2>1, <2>3 DEF Rooted, Nested
  <2>4. CASE node[w] # "ref"
    BY <1>1, <1>3, <2>1, <2>2, <2>4 DEF Files, Skipped, Nested
  <2>5. CASE node[r] \notin {"ref", "other"}
    BY <2>1, <2>2, <2>5 DEF Files
  <2> QED
    BY <2>3, <2>4, <2>5
<1>5. Fits'
  BY <1>1, <1>2, <1>3, <1>4 DEF Fits, SkippedThen, Skipped, Files
<1>6. Explained'
  BY <1>1 DEF Explained, Files
<1>7. Once'
  BY <1>1 DEF Once, SkippedThen, Skipped, Writing
<1>8. Way' /\ Tidy'
  BY <1>1 DEF Way, Tidy, Writing, Litter, Empty
<1> QED
  BY <1>1, <1>5, <1>6, <1>7, <1>8 DEF Calm

\* What the preflight made sure of stays so as the push goes on.
LEMMA FitsStays ==
    ASSUME Fits, seen' = seen, Accepted' = Accepted,
           dels \cup deleted \subseteq (dels \cup deleted)'
    PROVE  Fits'
BY DEF Fits, SkippedThen, Files

\* Nothing new comes to be, and what is there stays explained.
LEMMA ExplainedStays ==
    ASSUME Explained, node \in [Paths -> Kinds], seen' = seen, Accepted' = Accepted,
           \A q \in Paths : node'[q] \in {"absent", node[q]},
           wrote \subseteq wrote',
           \A q \in Files(node') : q \in deleted' => q \in deleted \cup wrote'
    PROVE  Explained'
BY DEF Explained, Files

\* A folder litters after a trash only if it did before, or is where the trash was.
LEMMA LitterAfterTrash ==
    ASSUME NEW p \in Paths, node \in [Paths -> Kinds], seen' = seen, node' = Without(p)
    PROVE  Litter' \subseteq (Litter \ {p}) \cup {Parent[p]}
<1> SUFFICES ASSUME NEW f \in Litter' PROVE f \in (Litter \ {p}) \cup {Parent[p]}
  OBVIOUS
<1>1. f \in Paths \ Protected /\ Empty(Without(p), f) /\ ~Empty(seen, f)
  BY DEF Litter
<1>2. f # p
  BY <1>1 DEF Empty, Without
<1> QED
  BY <1>1, <1>2, WithoutEmpties DEF Litter

LEMMA DeletingCalm ==
    ASSUME IInv, Calm, quiet',
           (\E d \in Paths : DeleteNothing(d) \/ Delete(d))
           \/ PruneStops \/ PruneList \/ PruneTrash \/ DeletesDone
    PROVE  Calm'
<1> USE DEF IInv, TypeOK
<1>1. /\ pc \in {"delete", "prune", "prunetrash"} /\ pc' \in {"delete", "prune", "prunetrash", "write"}
      /\ seen' = seen /\ UNCHANGED <<writes, wrote, refused>>
      /\ dels \cup deleted = (dels \cup deleted)'
  BY DEF DeleteNothing, Delete, PruneStops, PruneList, PruneTrash, DeletesDone, batch, Faulted
<1>2. quiet
  BY DEF DeleteNothing, Delete, PruneStops, PruneList, PruneTrash, DeletesDone, Faulted
<1>3. Fits /\ Explained /\ Once /\ Way /\ Tidy /\ refused' \subseteq Protected
  BY <1>1, <1>2 DEF Calm, Undisturbed
<1>4. Accepted' = Accepted
  BY <1>1 DEF Accepted, Writing
<1>5. Fits'
  BY <1>1, <1>3, <1>4, FitsStays
<1>6. Once' /\ Way'
  BY <1>1, <1>3 DEF Once, Way, Writing, SkippedThen, DeletesDone, DeleteNothing, Delete,
                    PruneStops, PruneList, PruneTrash, batch
<1>7. ASSUME NEW d \in Paths, DeleteNothing(d) PROVE Calm'
  <2>1. /\ UNCHANGED <<node, pc, dir>> /\ d \in dels /\ seen[d] # "ref" /\ deleted' = deleted \cup {d}
        /\ pc = "delete"
    BY <1>7 DEF DeleteNothing
  <2>2. d \notin Files(seen)
    BY <1>3, <2>1 DEF Once, SkippedThen, Files
  <2>3. ASSUME NEW q \in Files(node'), q \in deleted' PROVE q \in deleted \cup wrote'
    BY <1>1, <1>3, <2>1, <2>2, <2>3 DEF Explained, Files
  <2>4. Explained'
    BY <1>1, <1>3, <1>4, <2>1, <2>3, ExplainedStays
  <2>5. Tidy'
    BY <1>1, <1>3, <2>1 DEF Tidy, Litter, Writing
  <2> QED
    BY <1>3, <1>5, <1>6, <2>4, <2>5 DEF Calm
<1>8. ASSUME NEW d \in Paths, Delete(d) PROVE Calm'
  <2>1. /\ node' = Without(d) /\ deleted' = deleted \cup {d} /\ pc' = "prune" /\ dir' = Parent[d]
        /\ pc = "delete"
    BY <1>8 DEF Delete, Faulted
  <2>2. \A q \in Paths : node'[q] \in {"absent", node[q]}
    BY <2>1 DEF Without
  <2>3. ASSUME NEW q \in Files(node'), q \in deleted' PROVE q \in deleted \cup wrote'
    BY <2>1, <2>3 DEF Without, Files
  <2>4. Explained'
    BY <1>1, <1>3, <1>4, <2>2, <2>3, ExplainedStays
  <2>5. Tidy'
    BY <1>1, <1>3, <2>1, LitterAfterTrash DEF Tidy, Writing
  <2> QED
    BY <1>3, <1>5, <1>6, <2>4, <2>5 DEF Calm
<1>9. CASE PruneTrash
  <2>1. /\ node' = Without(dir) /\ pc = "prunetrash" /\ pc' = "prune" /\ dir' = Parent[dir]
        /\ dir \in Paths /\ UNCHANGED deleted
    BY <1>9 DEF PruneTrash, Faulted, Positions, batch
  <2>2. \A q \in Paths : node'[q] \in {"absent", node[q]}
    BY <2>1 DEF Without
  <2>3. Explained'
    BY <1>1, <1>3, <1>4, <2>1, <2>2, ExplainedStays
  <2>4. Tidy'
    BY <1>1, <1>3, <2>1, LitterAfterTrash DEF Tidy, Writing
  <2> QED
    BY <1>3, <1>5, <1>6, <2>3, <2>4 DEF Calm
<1>10. CASE PruneStops \/ PruneList \/ DeletesDone
  <2>1. UNCHANGED <<node, deleted>>
    BY <1>10 DEF PruneStops, PruneList, DeletesDone, batch
  <2>2. Explained'
    BY <1>1, <1>3, <1>4, <2>1, ExplainedStays
  <2>3. ASSUME PruneStops PROVE Tidy'
    <3>1. pc = "prune" /\ pc' = "delete" /\ (dir = None \/ dir \in Protected)
      BY <2>3 DEF PruneStops, Prunable
    <3>2. dir \notin Paths \ Protected
      BY <3>1, TreeConstants
    <3> QED
      BY <1>1, <1>3, <2>1, <3>1, <3>2 DEF Tidy, Litter, Writing
  <2>4. ASSUME PruneList PROVE Tidy'
    <3>1. pc = "prune"
      BY <2>4 DEF PruneList
    <3>2. CASE pc' = "prunetrash"
      BY <1>1, <1>3, <2>1, <2>4, <3>1, <3>2 DEF Tidy, Litter, Writing, PruneList
    <3>3. CASE pc' # "prunetrash"
      <4>1. pc' = "delete" /\ ~(node[dir] = "folder" /\ HoldsNothing(dir))
        BY <2>4, <3>3 DEF PruneList, Faulted
      <4>2. dir \notin Litter
        BY <4>1 DEF Litter, Empty, HoldsNothing
      <4> QED
        BY <1>1, <1>3, <2>1, <3>1, <4>1, <4>2 DEF Tidy, Litter, Writing
    <3> QED
      BY <3>2, <3>3
  <2>5. ASSUME DeletesDone PROVE Tidy'
    BY <1>1, <1>3, <2>1, <2>5 DEF Tidy, Litter, Writing, DeletesDone
  <2>6. Tidy'
    BY <1>10, <2>3, <2>4, <2>5
  <2> QED
    BY <1>3, <1>5, <1>6, <2>2, <2>6 DEF Calm
<1> QED
  BY <1>7, <1>8, <1>9, <1>10

\* A name whose folders are there is taken or vacant.
LEMMA ThereOrVacant ==
    ASSUME NEW p \in Paths, node[p] = "absent", \A f \in Above[p] : node[f] = "folder"
    PROVE  Vacant(p)
BY TreeConstants DEF Vacant

\* A write that succeeds: no folder above it is empty any more.
LEMMA PublishedCalm ==
    ASSUME IInv, IInv', Fits, Explained, Once, Tidy, pc \in Writing,
           refused \subseteq Protected, Put(cur, "ref"), Succeed,
           UNCHANGED <<seen, dels, writes, deleted, cur>>
    PROVE  Calm'
<1> USE DEF IInv, TypeOK
<1>1. /\ cur \in Paths /\ cur \in Accepted /\ pc' = "write"
      /\ wrote' = wrote \cup {cur} /\ refused' = refused
  BY DEF Positions, Accepted, Succeed
<1>2. node'[cur] = "ref" /\ \A q \in Paths : q # cur => node'[q] = node[q]
  BY <1>1 DEF Put
<1>3. Accepted' = Accepted
  BY <1>1 DEF Accepted, Writing
<1>4. Fits'
  BY <1>3, FitsStays
<1>5. Explained'
  BY <1>1, <1>2, <1>3 DEF Explained, Files
<1>6. Once' /\ Way'
  BY <1>1 DEF Once, Way, Writing, SkippedThen
<1>7. ASSUME NEW f \in Litter' PROVE FALSE
  <2>1. f \in Paths \ Protected /\ Empty(node', f) /\ ~Empty(seen, f)
    BY <1>7 DEF Litter
  <2>2. Empty(node, f)
    BY <1>1, <2>1, PutEmpties DEF Kinds
  <2>3. f \in Above[cur]
    BY <2>1, <2>2 DEF Tidy, Litter
  <2> QED
    BY <1>1, <1>2, <2>1, <2>3, NotEmptyAbove
<1>8. Tidy'
  BY <1>1, <1>7 DEF Tidy, Writing
<1> QED
  BY <1>1, <1>4, <1>5, <1>6, <1>8 DEF Calm

\* A step that only looks: what it has to keep is where the write is.
LEMMA LookedCalm ==
    ASSUME IInv, Fits, Explained, Once, refused' \subseteq Protected,
           Accepted' = Accepted, Once', Way', Tidy',
           UNCHANGED <<node, seen, dels, deleted, wrote>>
    PROVE  Calm'
<1>1. Fits'
  BY FitsStays
<1>2. \A q \in Paths : node'[q] \in {"absent", node[q]}
  OBVIOUS
<1>3. Explained'
  BY <1>2, ExplainedStays DEF IInv, TypeOK
<1> QED
  BY <1>1, <1>3 DEF Calm

LEMMA ParentCalm ==
    ASSUME IInv, Calm, quiet', NEW f \in Paths, EnsureParent(f)
    PROVE  Calm'
<1> USE DEF IInv, TypeOK
<1>1. /\ pc = "parents" /\ f \in todo /\ Above[f] \cap todo = {} /\ todo' = todo \ {f}
      /\ UNCHANGED <<seen, dels, writes, deleted, cur>>
  BY DEF EnsureParent
<1>2. quiet /\ refused \subseteq Protected /\ Fits /\ Explained /\ Once /\ Way /\ Tidy
  BY <1>1 DEF EnsureParent, Faulted, Calm, Undisturbed
<1>3. f \in Above[cur] /\ cur \in Paths /\ cur \in Accepted
  BY <1>1, <1>2 DEF Way, Positions, Writing, Accepted
\* No file is above the write, and the folders further up are there.
<1>4. node[f] = "folder" \/ Vacant(f)
  <2>1. f \notin Files(node)
    BY <1>1, <1>2, <1>3, NothingInTheWay DEF Nested, Writing
  <2>2. \A g \in Above[f] : node[g] = "folder"
    BY <1>1, <1>2, <1>3, TreeConstants DEF Way
  <2> QED
    BY <2>1, <2>2, ThereOrVacant DEF Files, Kinds
<1>5. /\ \/ node[f] = "folder" /\ node' = node
         \/ Vacant(f) /\ Put(f, "folder")
      /\ UNCHANGED <<pc, wrote, refused>>
  BY <1>4 DEF EnsureParent, Faulted, Vacant
<1>6. Accepted' = Accepted
  BY <1>1, <1>5 DEF Accepted
<1>7. node'[f] = "folder" /\ \A q \in Paths : q # f => node'[q] = node[q]
  BY <1>5 DEF Put
<1>8. Fits'
  BY <1>1, <1>2, <1>6, FitsStays
<1>9. Explained'
  <2>1. \A q \in Files(node') : q \in Files(node) /\ node'[q] = node[q]
    BY <1>7 DEF Files
  <2>2. \A q \in Paths : node'[q] = "folder" => node[q] = "folder" \/ q = f
    BY <1>7
  <2>3. \A q \in Files(node') : q \in wrote' \/ (node'[q] = seen'[q] /\ q \notin deleted')
    BY <1>1, <1>2, <1>5, <2>1 DEF Explained
  <2>4. ASSUME NEW q \in Paths, node'[q] = "folder"
        PROVE  seen'[q] = "folder" \/ \E w \in Accepted : q \in Above[w]
    BY <1>1, <1>2, <1>3, <2>2, <2>4 DEF Explained
  <2>5. (Files(node))' = Files(node')
    BY DEF Files
  <2> QED
    BY <1>6, <2>3, <2>4, <2>5 DEF Explained
<1>10. Once'
  BY <1>1, <1>2, <1>5 DEF Once, SkippedThen
<1>11. Way'
  <2>1. pc' = "parents" /\ cur' = cur /\ todo' \subseteq Above[cur]
    BY <1>1, <1>2, <1>5 DEF Way
  <2>2. \A g \in Above[cur] \ todo' : node'[g] = "folder"
    BY <1>1, <1>2, <1>3, <1>7, TreeConstants DEF Way
  <2> QED
    BY <2>1, <2>2 DEF Way, Writing
<1>12. ASSUME NEW g \in Litter' PROVE g \in Above[cur]
  <2>1. g \in Paths \ Protected /\ Empty(node', g) /\ ~Empty(seen, g)
    BY <1>1, <1>12 DEF Litter
  <2>2. CASE Empty(node, g)
    BY <1>1, <1>2, <2>1, <2>2 DEF Tidy, Litter, Writing
  <2>3. CASE ~Empty(node, g)
    <3>1. node[f] = "absent" /\ Put(f, "folder")
      BY <1>5, <2>1, <2>3 DEF Vacant
    <3>2. "folder" \in Kinds \ {"absent"}
      BY DEF Kinds
    <3> QED
      BY <1>3, <2>1, <2>3, <3>1, <3>2, PutEmpties
  <2> QED
    BY <2>2, <2>3
<1>13. Tidy'
  BY <1>1, <1>5, <1>12 DEF Tidy, Writing
<1> QED
  BY <1>2, <1>5, <1>8, <1>9, <1>10, <1>11, <1>13 DEF Calm

LEMMA WalkCalm ==
    ASSUME IInv, Calm, quiet', NEW f \in Paths, Walk(f)
    PROVE  Calm'
<1> USE DEF IInv, TypeOK
<1>1. pc = "walk" /\ f \in todo /\ UNCHANGED <<node, seen, dels, writes, deleted, cur>>
  BY DEF Walk
<1>2. quiet /\ refused \subseteq Protected /\ Fits /\ Explained /\ Once /\ Way /\ Tidy
  BY <1>1 DEF Walk, Faulted, Calm, Undisturbed
<1>3. node[f] = "folder" /\ (f = cur \/ cur \in Above[f]) /\ cur \in Paths
  BY <1>1, <1>2 DEF Way, Positions, Writing
<1>4. ASSUME NEW c \in Children(f) PROVE c \in Paths /\ cur \in Above[c]
  BY <1>3, <1>4, TreeConstants DEF Children
<1>5. Children(f) \cap Files(node) = {} /\ NextLevel(f) \cap Invalid = {}
  BY <1>1, <1>2, <1>4, NothingInTheWay DEF Nested, NextLevel, Writing
<1>6. /\ todo' = (todo \ {f}) \cup NextLevel(f) /\ pc' \in {"heal", "walk"}
      /\ UNCHANGED <<wrote, refused>>
  BY <1>3, <1>5 DEF Walk, Faulted
<1>7. Accepted' = Accepted
  BY <1>1, <1>6 DEF Accepted, Writing
<1>8. Once' /\ Tidy'
  BY <1>1, <1>2, <1>6 DEF Once, Tidy, SkippedThen, Litter, Writing
<1>9. Way'
  BY <1>1, <1>2, <1>4, <1>6 DEF Way, NextLevel, Writing
<1> QED
  BY <1>1, <1>2, <1>6, <1>7, <1>8, <1>9, LookedCalm

LEMMA WritingCalm ==
    ASSUME IInv, IInv', Calm, quiet',
           (\E w \in Paths : WriteNext(w)) \/ ParentsDone \/ Update \/ Create \/ Stat \/ Heal \/ Retry
           \/ WritesDone
    PROVE  Calm'
<1> USE DEF IInv, TypeOK
<1>1. pc \in {"write"} \cup Writing /\ UNCHANGED <<seen, dels, deleted>>
  BY DEF WriteNext, ParentsDone, Update, Create, Stat, Heal, Retry, WritesDone, batch, Writing
<1>2. quiet
  BY DEF WriteNext, ParentsDone, Update, Create, Stat, Heal, Retry, WritesDone, Faulted
<1>3. refused \subseteq Protected /\ Fits /\ Explained /\ Once /\ Way /\ Tidy
  BY <1>1, <1>2 DEF Calm, Undisturbed, Writing
<1>4. pc \in Writing => cur \in Paths /\ cur \in Accepted
  BY DEF Positions, Accepted
<1>5. pc \in Writing \ {"parents"} /\ node[cur] = "absent" => Vacant(cur)
  BY <1>3, <1>4, ThereOrVacant DEF Way
<1>6. ASSUME NEW w \in Paths, WriteNext(w) PROVE Calm'
  <2>1. /\ pc = "write" /\ pc' = "parents" /\ w \in writes /\ writes' = writes \ {w} /\ cur' = w
        /\ todo' = Above[w] /\ UNCHANGED <<node, wrote, refused>>
    BY <1>6 DEF WriteNext
  <2>2. Accepted' = Accepted
    BY <2>1 DEF Accepted, Writing
  <2>3. Once' /\ Way'
    BY <1>1, <1>3, <2>1 DEF Once, Way, SkippedThen, Writing
  <2>4. Tidy'
    BY <1>1, <1>3, <2>1 DEF Tidy, Litter, Writing
  <2> QED
    BY <1>1, <1>3, <2>1, <2>2, <2>3, <2>4, LookedCalm
<1>7. CASE ParentsDone
  <2>1. /\ pc = "parents" /\ pc' = "create" /\ todo = {}
        /\ UNCHANGED <<node, writes, wrote, refused, cur, todo>>
    BY <1>7 DEF ParentsDone, batch
  <2>2. Accepted' = Accepted
    BY <2>1 DEF Accepted, Writing
  <2>3. Once' /\ Way' /\ Tidy'
    BY <1>1, <1>3, <2>1 DEF Once, Way, Tidy, Litter, SkippedThen, Writing
  <2> QED
    BY <1>1, <1>3, <2>1, <2>2, <2>3, LookedCalm
<1>8. CASE WritesDone
  <2>1. /\ pc = "write" /\ pc' = "end" /\ UNCHANGED <<node, writes, wrote, refused, cur>>
    BY <1>8 DEF WritesDone, batch
  <2>2. Accepted' = Accepted
    BY <2>1 DEF Accepted, Writing
  <2>3. Once' /\ Way' /\ Tidy'
    BY <1>1, <1>3, <2>1 DEF Once, Way, Tidy, Litter, SkippedThen, Writing
  <2> QED
    BY <1>1, <1>3, <2>1, <2>2, <2>3, LookedCalm
<1>9. CASE Update
  <2>1. pc = "create" /\ IsUpdate /\ UNCHANGED <<writes, cur>>
    BY <1>9 DEF Update
  \* No folder was made where a ref is.
  <2>2. node[cur] # "folder"
    BY <1>3, <2>1, NothingInTheWay DEF IsUpdate, Writing
  <2>3. MayRevise
    BY <1>4, <1>5, <2>1, <2>2 DEF MayRevise, Files, Kinds, Writing
  <2>4. Put(cur, "ref") /\ Succeed
    BY <1>9, <2>3 DEF Update, Faulted
  <2> QED
    BY <1>1, <1>3, <2>1, <2>4, PublishedCalm DEF Writing
<1>10. CASE Create
  <2>1. pc = "create" /\ ~IsUpdate /\ UNCHANGED <<writes, cur>>
    BY <1>10 DEF Create
  <2>2. ASSUME Put(cur, "ref"), Succeed PROVE Calm'
    BY <1>1, <1>3, <2>1, <2>2, PublishedCalm DEF Writing
  <2>3. ASSUME ~(Put(cur, "ref") /\ Succeed) PROVE Calm'
    <3>1. UNCHANGED <<node, wrote, refused>> /\ pc' = "stat" /\ ~Vacant(cur)
      BY <1>10, <2>3 DEF Create, Faulted
    <3>2. node[cur] # "absent"
      BY <1>5, <2>1, <3>1 DEF Writing
    <3>3. Accepted' = Accepted
      BY <2>1, <3>1 DEF Accepted, Writing
    <3>4. Once' /\ Way' /\ Tidy'
      BY <1>1, <1>3, <2>1, <3>1, <3>2 DEF Once, Way, Tidy, Litter, SkippedThen, IsUpdate, Writing
    <3> QED
      BY <1>1, <1>3, <3>1, <3>3, <3>4, LookedCalm
  <2> QED
    BY <2>2, <2>3
<1>11. CASE Stat
  <2>1. pc = "stat" /\ UNCHANGED <<node, writes, cur, wrote>>
    BY <1>11 DEF Stat, Fail
  <2>2. cur \notin Files(node)
    BY <1>3, <2>1, NothingInTheWay DEF Way, Writing
  <2>3. node[cur] = "folder"
    BY <1>3, <1>4, <2>1, <2>2 DEF Way, Files, Kinds, Writing
  <2>4. Accepted' = Accepted /\ (pc' = "walk" \/ Fail)
    BY <1>11, <2>1 DEF Stat, Fail, Accepted, Writing
  <2>5. ASSUME pc' = "walk" PROVE Calm'
    <3>1. todo' = {cur} /\ refused' = refused
      BY <1>11, <2>5 DEF Stat, Fail
    <3>2. Once' /\ Way' /\ Tidy'
      BY <1>1, <1>3, <2>1, <2>3, <2>5, <3>1 DEF Once, Way, Tidy, Litter, SkippedThen, Writing
    <3> QED
      BY <1>1, <1>3, <2>1, <2>4, <3>1, <3>2, LookedCalm
  \* Only a folder of the layout stands in the way of a write for good.
  <2>6. ASSUME pc' # "walk" PROVE Calm'
    <3>1. Fail /\ cur \in Protected
      BY <1>11, <2>3, <2>4, <2>6 DEF Stat, Faulted, Healable
    <3>2. pc' = "write" /\ refused' \subseteq Protected
      BY <1>3, <3>1 DEF Fail
    <3>3. Litter' = {}
      BY <1>1, <1>3, <2>1, <3>1, TreeConstants DEF Tidy, Litter, Writing
    <3>4. Once' /\ Way' /\ Tidy'
      BY <1>1, <1>3, <2>1, <3>2, <3>3 DEF Once, Way, Tidy, SkippedThen, Writing
    <3> QED
      BY <1>1, <1>3, <2>1, <2>4, <3>2, <3>4, LookedCalm
  <2> QED
    BY <2>5, <2>6
<1>12. CASE Heal
  <2>1. /\ pc = "heal" /\ pc' = "retry" /\ node' = Without(cur)
        /\ UNCHANGED <<writes, wrote, refused, cur>>
    BY <1>12 DEF Heal, Faulted
  <2>2. Accepted' = Accepted
    BY <2>1 DEF Accepted, Writing
  <2>3. Fits' /\ Once'
    BY <1>1, <1>3, <2>1, <2>2, FitsStays DEF Once, SkippedThen, Writing
  <2>4. Explained'
    <3>1. \A q \in Paths : node'[q] \in {"absent", node[q]}
      BY <2>1 DEF Without
    <3> QED
      BY <1>1, <1>3, <2>1, <2>2, <3>1, ExplainedStays
  <2>5. Way'
    <3>1. cur \in Paths /\ \A g \in Above[cur] : g \in Paths /\ g # cur /\ cur \notin Above[g]
      BY <1>4, <2>1, TreeConstants DEF Writing
    <3>2. node'[cur] = "absent" /\ \A g \in Above[cur] : node'[g] = node[g]
      BY <2>1, <3>1 DEF Without
    <3> QED
      BY <1>3, <2>1, <3>2 DEF Way, Writing
  <2>6. Tidy'
    <3>1. Litter' \subseteq Litter \cup {Parent[cur]} /\ Litter' \subseteq Paths
      BY <1>1, <1>4, <2>1, LitterAfterTrash DEF Writing, Litter
    <3>2. Litter \subseteq Above[cur] /\ (Parent[cur] = None \/ Parent[cur] \in Above[cur])
      BY <1>3, <1>4, <2>1, TreeConstants DEF Tidy, Writing
    <3>3. Litter' \subseteq Above[cur]
      BY <3>1, <3>2, TreeConstants
    <3> QED
      BY <2>1, <3>3 DEF Tidy, Writing
  <2> QED
    BY <1>3, <2>1, <2>3, <2>4, <2>5, <2>6 DEF Calm
<1>13. CASE Retry
  <2>1. pc = "retry" /\ UNCHANGED <<writes, cur>>
    BY <1>13 DEF Retry
  <2>2. Vacant(cur)
    BY <1>3, <1>5, <2>1 DEF Way, Writing
  <2>3. Put(cur, "ref") /\ Succeed
    BY <1>13, <2>2 DEF Retry, Faulted
  <2> QED
    BY <1>1, <1>3, <2>1, <2>3, PublishedCalm DEF Writing
<1> QED
  BY <1>6, <1>7, <1>8, <1>9, <1>10, <1>11, <1>12, <1>13

LEMMA CalmStep == ASSUME IInv, IInv', Calm, [Next]_vars PROVE Calm'
<1>1. ASSUME ~quiet' PROVE Calm'
  BY <1>1 DEF Calm, Undisturbed
<1>2. ASSUME NEW ask \in Asks, Start(ask) PROVE Calm'
  BY <1>2, StartCalm
<1>3. CASE Die
  <2>1. pc' = "start" /\ UNCHANGED <<quiet, refused>>
    BY <1>3 DEF Die, batch
  <2> QED
    BY <2>1 DEF Calm, Undisturbed
<1>4. CASE UNCHANGED vars
  BY <1>4 DEF vars, batch, history, Calm, Undisturbed, Fits, Explained, Once, Way, Tidy, Accepted,
              SkippedThen, Files, IsUpdate, Litter, Writing
<1>5. ASSUME NEW p \in Paths, OtherPuts(p, "other") \/ OtherPuts(p, "folder") \/ OtherTakes(p)
      PROVE  ~quiet'
  BY <1>5 DEF OtherPuts, OtherTakes, OtherActs
<1>6. ASSUME quiet', PruneStops \/ PruneList \/ PruneTrash \/ DeletesDone PROVE Calm'
  BY <1>6, DeletingCalm
<1>7. ASSUME quiet', NEW p \in Paths, DeleteNothing(p) \/ Delete(p) \/ WriteNext(p)
                                      \/ EnsureParent(p) \/ Walk(p)
      PROVE  Calm'
  BY <1>7, DeletingCalm, WritingCalm, ParentCalm, WalkCalm
<1>8. ASSUME quiet', ParentsDone \/ Update \/ Create \/ Stat \/ Heal \/ Retry \/ WritesDone
      PROVE  Calm'
  BY <1>8, WritingCalm
<1> QED
  BY <1>1, <1>2, <1>3, <1>4, <1>5, <1>6, <1>7, <1>8 DEF Next

LEMMA CalmInvariance == Spec => []Calm
<1>1. Init => Calm
  BY DEF Init, Calm, Undisturbed
<1> QED
  BY <1>1, CalmStep, Invariance, PTL DEF Spec

\* A push that nobody disturbs publishes every write its preflight accepted, but
\* for a name of the layout, whatever an earlier one left (ResidueNeverBlocks).
THEOREM ResidueNeverBlocksHolds == Spec => []ResidueNeverBlocks
<1>1. Calm => ResidueNeverBlocks
  BY DEF Calm, ResidueNeverBlocks
<1> QED
  BY <1>1, CalmInvariance, PTL

\* A push that ends undisturbed leaves no folder empty that was not
\* (LeavesNoLitter).
THEOREM LeavesNoLitterHolds == Spec => []LeavesNoLitter
<1>1. Calm => LeavesNoLitter
  BY DEF Calm, Undisturbed, Tidy, Litter, LeavesNoLitter
<1> QED
  BY <1>1, CalmInvariance, PTL
=============================================================================
