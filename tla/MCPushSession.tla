----------------------------- MODULE MCPushSession -----------------------------
(***************************************************************************)
(* Model-checking instances of PushSession: two branches m and x, a tag t, *)
(* and three commits, c2 and c3 both children of c1.                       *)
(***************************************************************************)
EXTENDS PushSession, TLC

CONSTANTS s1, s2, h, rd, m, x, t, c1, c2, c3

Pair == {s1, s2}
Setter == {h}
Reader == {rd}

MCRefs == {m, x, t}
MCBranches == {m, x}
MCCommits == {c1, c2, c3}
MCAnc == (c1 :> {c1}) @@ (c2 :> {c1, c2}) @@ (c3 :> {c1, c3})

Symmetry == Permutations(Pair)

-----------------------------------------------------------------------------
\* Remotes, each as the helper can leave one.
Files(good) == [p \in SUBSET MCCommits |-> IF p \in good THEN "good" ELSE "absent"]

RemoteAt(rf, hd, packs) == [refs |-> [r \in MCRefs |-> IF r \in DOMAIN rf THEN rf[r] ELSE None],
                            head |-> hd, pack |-> Files(packs), idx |-> Files(packs)]

Fresh == RemoteAt(<< >>, None, {})

\* HEAD is m; x has diverged from it.
TwoBranches == RemoteAt((m :> c1) @@ (x :> c3), m, {{c1}, {c3}})

\* HEAD was lost or never written.
Headless == RemoteAt((m :> c1) @@ (x :> c1), None, {{c1}})

\* The same, and x has diverged.
HeadlessFork == RemoteAt((m :> c1) @@ (x :> c3), None, {{c1}, {c3}})

\* A push died between the pack and its index.
HalfPair == [TwoBranches EXCEPT !.pack[{c2}] = "good"]

\* A file stands where the next push's pack or index would go, and is not it.
BadPack == [TwoBranches EXCEPT !.pack[{c2}] = "damaged", !.idx[{c2}] = "good"]
BadIdx == [TwoBranches EXCEPT !.pack[{c2}] = "good", !.idx[{c2}] = "damaged"]

-----------------------------------------------------------------------------
\* Batches.
Ask(r, req) == [NoBatch EXCEPT ![r] = req]
Set(c) == [del |-> FALSE, new |-> c, force |-> FALSE]
Forced(c) == [Set(c) EXCEPT !.force = TRUE]
Del == [del |-> TRUE, new |-> None, force |-> FALSE]
DelSet(c) == [del |-> TRUE, new |-> c, force |-> FALSE]

Advance == Ask(m, Set(c2))
Fork == Ask(m, Set(c3))
Rewind == Ask(m, Forced(c3))
Mirror == [Ask(m, Set(c2)) EXCEPT ![x] = Del, ![t] = Set(c1)]
DropHead == [Ask(m, Del) EXCEPT ![x] = Set(c3)]
DropBoth == [Ask(m, Del) EXCEPT ![x] = Del]
Replace == Ask(x, DelSet(c2))
ReplaceForce == Ask(x, [DelSet(c2) EXCEPT !.force = TRUE])

-----------------------------------------------------------------------------
\* Scenes.
\* Lost replies and deaths, over every remote.
Turmoil == [starts |-> {Fresh, TwoBranches, Headless, HalfPair, BadPack, BadIdx},
            batches |-> {Advance, Fork, Rewind, Mirror, DropHead, ReplaceForce},
            actors |-> Pair, lost |-> TRUE, orphans |-> FALSE]

\* A --set-head run meddles.
Repointing == [starts |-> {Fresh, TwoBranches, Headless, HeadlessFork},
               batches |-> {Advance, Mirror, DropHead, DropBoth, Replace},
               actors |-> Pair \cup Setter, lost |-> FALSE, orphans |-> FALSE]

\* Calls outlive the session that made them, and somebody is listing.
Afterlife == [starts |-> {Fresh, HalfPair},
              batches |-> {Advance, Mirror, ReplaceForce},
              actors |-> Pair \cup Reader, lost |-> TRUE, orphans |-> TRUE]

\* One session replaces a branch on a remote with no HEAD.
Replacing == [starts |-> {Headless}, batches |-> {Replace, ReplaceForce},
              actors |-> {s1}, lost |-> FALSE, orphans |-> FALSE]

MCScenes == {"turmoil", "repointing", "afterlife"}
ReplacingOnly == {"replacing"}
MCSetting == [turmoil |-> Turmoil, repointing |-> Repointing, afterlife |-> Afterlife,
              replacing |-> Replacing]
=============================================================================
