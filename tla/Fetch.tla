--------------------------------- MODULE Fetch ---------------------------------
(***************************************************************************)
(* Fetching into a local repository (internal/repo/fetch.go, packmap.go,   *)
(* idxcache.go): read the indexes of all packs of the remote, through a    *)
(* cache on disk, find by them the packs that hold what is missing,        *)
(* download and verify those in a quarantine, and install what is new as   *)
(* one pack under a .keep.                                                 *)
(*                                                                         *)
(* Fetchers of one repository, or of its linked worktrees, share the cache *)
(* and the object store, and take no lock.  Meanwhile pushes publish packs *)
(* and git collects garbage.  A pack is written by its content: the bytes  *)
(* of pack p are p, and the index of pack p is p.                          *)
(***************************************************************************)
EXTENDS FiniteSets, Naturals

CONSTANTS
    Fetchers,   \* the helper processes
    Objects,    \* git objects
    Links,      \* Links[o]: the objects o refers to
    Packs,      \* packs, numbered in the order of their names
    Holds,      \* Holds[p]: the objects in pack p
    Broken,     \* bytes that are no pack, or no index
    NoFile,     \* no such file
    Starts      \* the situations a run may begin with

Bytes == Packs \cup {Broken}

ASSUME FetchConstants ==
    /\ Links \in [Objects -> SUBSET Objects]
    /\ Packs \subseteq Nat /\ IsFiniteSet(Packs)
    /\ Holds \in [Packs -> SUBSET Objects]
    /\ Broken \notin Packs /\ NoFile \notin Bytes
    /\ Starts \subseteq [pack : [Packs -> Bytes], idx : [Packs -> Bytes],
                         first : SUBSET Packs, coming : SUBSET Packs,
                         cache : [Packs -> Bytes \cup {NoFile}],
                         local : SUBSET Objects, refd : SUBSET Objects,
                         wants : [Fetchers -> SUBSET Objects]]
    /\ \A st \in Starts : st.refd \subseteq st.local /\ \A o \in st.refd : Links[o] \subseteq st.refd

VARIABLES
    remote,     \* the files of the remote, which pairs it began with, which come,
                \* and what git wants from each fetcher
    listed,     \* the complete pairs
    cache,      \* the index cache
    local,      \* objects in the local store
    refd,       \* those that local refs reach
    pc,         \* where each fetcher is
    stems,      \* the pairs it listed
    side,       \* where it has each index: in the "cache", or its "own" download
    claims,     \* the indexes read into its object-to-pack map
    todo,       \* indexes it has still to get
    plan,       \* packs it has still to download in this round
    alt,        \* the pairs it has published to its quarantined object store
    healed,     \* it has used its one self-heal
    kept,       \* its pack is protected by a .keep
    hit         \* what went wrong around it: a failed "call", an index taken from
                \* the "cache", objects collected by "gc" or in the "gap" before
                \* anything protects them

shared == <<remote, listed, cache, local, refd>>
vars == <<shared, pc, stems, side, claims, todo, plan, alt, healed, kept, hit>>

Phases == {"start", "list", "prune", "ensure", "show", "bad", "badget", "map", "plan",
           "download", "pair", "pairget", "repair", "heallist", "heal", "healget",
           "check", "install", "keep", "uptodate", "done", "end", "failed", "dead"}

Hits == {"call", "cache", "gc", "gap"}

Over(f) == pc[f] \in {"uptodate", "done", "end", "failed", "dead"}

\* A pair is in the store once its index is: git finds packs by their indexes.
Published(f) == {p \in Packs : alt[f][p].idx # NoFile}

Files == Bytes \cup {NoFile}
NoPair == [pack |-> NoFile, idx |-> NoFile]

TypeOK ==
    /\ remote \in Starts
    /\ listed \subseteq Packs
    /\ cache \in [Packs -> Bytes \cup {NoFile}]
    /\ local \subseteq Objects /\ refd \subseteq local
    /\ pc \in [Fetchers -> Phases]
    /\ stems \in [Fetchers -> SUBSET Packs]
    /\ side \in [Fetchers -> [Packs -> {"cache", "own"}]]
    /\ claims \in [Fetchers -> [Packs -> Packs \cup {NoFile}]]
    /\ todo \in [Fetchers -> SUBSET Packs]
    /\ plan \in [Fetchers -> SUBSET Packs]
    /\ \A f \in Fetchers : plan[f] \cap Published(f) = {}
    /\ alt \in [Fetchers -> [Packs -> [pack : Files, idx : Files]]]
    /\ healed \in [Fetchers -> BOOLEAN]
    /\ kept \in [Fetchers -> BOOLEAN]
    /\ hit \in [Fetchers -> SUBSET Hits]

\* Asked for nothing, Fetch returns at once.
Init ==
    /\ remote \in Starts
    /\ listed = remote.first /\ cache = remote.cache
    /\ local = remote.local /\ refd = remote.refd
    /\ pc = [f \in Fetchers |-> IF remote.wants[f] = {} THEN "end" ELSE "start"]
    /\ stems = [f \in Fetchers |-> {}]
    /\ side = [f \in Fetchers |-> [p \in Packs |-> "own"]]
    /\ claims = [f \in Fetchers |-> [p \in Packs |-> NoFile]]
    /\ todo = [f \in Fetchers |-> {}]
    /\ plan = [f \in Fetchers |-> {}]
    /\ alt = [f \in Fetchers |-> [p \in Packs |-> NoPair]]
    /\ healed = [f \in Fetchers |-> FALSE]
    /\ kept = [f \in Fetchers |-> FALSE]
    /\ hit = [f \in Fetchers |-> {}]

Goto(f, phase) == pc' = [pc EXCEPT ![f] = phase]

-----------------------------------------------------------------------------
(* What git answers about objects. *)

\* A traversal from the wants, through the objects that are there.
Reached(wants, present) ==
    {o \in Objects :
        \A S \in SUBSET Objects :
            (wants \subseteq S /\ \A q \in S \cap present : Links[q] \subseteq S) => o \in S}

\* rev-list --missing=print: where the traversal stops.
Missing(f, present) == Reached(remote.wants[f], present) \ present

Closures == [wants \in SUBSET Objects |-> Reached(wants, Objects)]

Closure(f) == Closures[remote.wants[f]]

\* What can be read of the published pairs: an index leads to objects only in
\* the pack that it is of.
Readable(f) == {p \in Packs : alt[f][p].idx \in Packs /\ alt[f][p].pack = alt[f][p].idx}

AltObjects(f) == UNION {Holds[alt[f][p].pack] : p \in Readable(f)}

\* ConnectivityOK.
Complete(f, present) == Missing(f, present) = {}

-----------------------------------------------------------------------------
(* The index cache.  Every write to it may silently fail. *)

\* Those among the others who still count on one of these cached indexes.
Robbed(f, lost) ==
    {g \in Fetchers \ {f} : ~Over(g) /\ \E p \in lost \cap stems[g] : side[g][p] = "cache"}

Drop(f, lost) ==
    /\ cache' = [p \in Packs |-> IF p \in lost THEN NoFile ELSE cache[p]]
    /\ hit' = [g \in Fetchers |-> IF g \in Robbed(f, lost) THEN hit[g] \cup {"cache"} ELSE hit[g]]

Installed(p) == cache' \in {cache, [cache EXCEPT ![p] = remote.idx[p]]}

\* A download of index p, with a copy for the cache.
Downloaded(f, p) == side' = [side EXCEPT ![f][p] = "own"] /\ Installed(p)

\* What f finds when it opens its index of p.
Read(f, p) == IF side[f][p] = "own" THEN remote.idx[p] ELSE cache[p]

First(p, S) == p \in S /\ \A q \in S : p <= q

-----------------------------------------------------------------------------
(* Fetch, up to the object-to-pack map. *)

\* Whatever keeps git from answering yes leads on to the listing.
Begin(f) ==
    /\ pc[f] = "start"
    /\ \/ Complete(f, local) /\ Goto(f, "uptodate")
       \/ Goto(f, "list")
    /\ UNCHANGED <<shared, stems, side, claims, todo, plan, alt, healed, kept, hit>>

List(f) ==
    /\ pc[f] = "list"
    /\ Goto(f, IF listed = {} THEN "failed" ELSE "prune")
    /\ stems' = [stems EXCEPT ![f] = listed]
    /\ todo' = [todo EXCEPT ![f] = listed]
    /\ UNCHANGED <<shared, side, claims, plan, alt, healed, kept, hit>>

Prune(f) ==
    /\ pc[f] = "prune"
    /\ \E lost \in SUBSET (Packs \ stems[f]) : Drop(f, lost)
    /\ Goto(f, "ensure")
    /\ UNCHANGED <<remote, listed, local, refd, stems, side, claims, todo, plan, alt, healed, kept>>

\* buildPackMap: an index that is in the cache is opened, one that is not, or
\* that cannot be looked at, downloaded, which ends the fetch if it fails
\* (Trouble).
Ensure(f, p) ==
    /\ pc[f] = "ensure"
    /\ First(p, todo[f])
    /\ \/ /\ cache[p] # NoFile
          /\ Goto(f, "show")
          /\ UNCHANGED <<cache, side, todo>>
       \/ /\ Downloaded(f, p)
          /\ todo' = [todo EXCEPT ![f] = @ \ {p}]
          /\ UNCHANGED pc
    /\ UNCHANGED <<remote, listed, local, refd, stems, claims, plan, alt, healed, kept, hit>>

\* ShowIndex on the cached one: if it fails, also because the file has gone in
\* between, the index is refreshed.
Show(f, p) ==
    /\ pc[f] = "show"
    /\ First(p, todo[f])
    /\ \/ /\ cache[p] \in Packs
          /\ side' = [side EXCEPT ![f][p] = "cache"]
          /\ todo' = [todo EXCEPT ![f] = @ \ {p}]
          /\ Goto(f, "ensure")
       \/ Goto(f, "bad") /\ UNCHANGED <<side, todo>>
    /\ UNCHANGED <<shared, stems, claims, plan, alt, healed, kept, hit>>

\* RefreshSidecar: evict, then download.
Refreshing == [bad |-> "badget", heal |-> "healget", pair |-> "pairget"]

Evict(f, p) ==
    /\ pc[f] \in DOMAIN Refreshing
    /\ First(p, IF pc[f] = "pair" THEN plan[f] ELSE todo[f])
    /\ Drop(f, {p}) \/ UNCHANGED <<cache, hit>>
    /\ Goto(f, Refreshing[pc[f]])
    /\ UNCHANGED <<remote, listed, local, refd, stems, side, claims, todo, plan, alt, healed, kept>>

\* rebuildFromSidecars begins with an empty map ...
Unmapped(f) == claims' = [claims EXCEPT ![f] = [p \in Packs |-> NoFile]]

Refresh(f, p) ==
    /\ \/ /\ pc[f] = "badget" /\ First(p, todo[f]) /\ Goto(f, "ensure")
          /\ todo' = [todo EXCEPT ![f] = @ \ {p}]
          /\ UNCHANGED claims
       \/ /\ pc[f] = "healget" /\ First(p, todo[f]) /\ Goto(f, "heal")
          /\ todo' = [todo EXCEPT ![f] = @ \ {p}]
          /\ UNCHANGED claims
       \/ /\ pc[f] = "pairget" /\ First(p, plan[f]) /\ Goto(f, "repair")
          /\ Unmapped(f)
          /\ UNCHANGED todo
    /\ Downloaded(f, p)
    /\ UNCHANGED <<remote, listed, local, refd, stems, plan, alt, healed, kept, hit>>

Rebuild(f) ==
    /\ pc[f] \in {"ensure", "heal"}
    /\ todo[f] = {}
    /\ Unmapped(f)
    /\ Goto(f, "map")
    /\ UNCHANGED <<shared, stems, side, todo, plan, alt, healed, kept, hit>>

\* ... and opens every index again, one after the other, in any order.
Unread(f) == {p \in stems[f] : claims[f][p] = NoFile}

ReadIndex(f, p) ==
    /\ pc[f] \in {"map", "repair"}
    /\ p \in Unread(f)
    /\ \/ Read(f, p) \in Packs /\ claims' = [claims EXCEPT ![f][p] = Read(f, p)] /\ UNCHANGED pc
       \/ Read(f, p) \notin Packs /\ Goto(f, "failed") /\ UNCHANGED claims
    /\ UNCHANGED <<shared, stems, side, todo, plan, alt, healed, kept, hit>>

MapDone(f) ==
    /\ pc[f] = "map"
    /\ Unread(f) = {}
    /\ Goto(f, "plan")
    /\ UNCHANGED <<shared, stems, side, claims, todo, plan, alt, healed, kept, hit>>

-----------------------------------------------------------------------------
(* The discovery loop. *)

Candidates(f, o) == {p \in Packs : claims[f][p] # NoFile /\ o \in Holds[claims[f][p]]}

Fresh(f, o) == Candidates(f, o) \ Published(f)

(***************************************************************************)
(* greedyCover: the packs that are the only candidate of some object, then *)
(* again and again the one that covers most of what is left, the first of  *)
(* those by name.                                                          *)
(***************************************************************************)
Grown(f, wanted) ==
    LET forced == {p \in Packs : \E o \in wanted : Fresh(f, o) = {p}}
        gain[S \in SUBSET Packs, p \in Packs] ==
            Cardinality({o \in wanted : Fresh(f, o) \cap S = {} /\ p \in Fresh(f, o)})
        Best(S) == {p \in Packs : /\ gain[S, p] > 0
                                  /\ \A q \in Packs : gain[S, q] <= gain[S, p]
                                  /\ \A q \in Packs : gain[S, q] = gain[S, p] => p <= q}
        grown[S \in SUBSET Packs] == IF Best(S) = {} THEN S ELSE grown[S \cup Best(S)]
    IN  grown[forced]

\* Only packs of the map, and none that is already published.
GreedyCover(f, wanted) ==
    Grown(f, wanted) \cap {p \in Packs \ Published(f) : claims[f][p] # NoFile}

\* (Mutants) Suspicion is fatal at once; the heal is never used up.
SuspectFatal(f) == Goto(f, "failed") /\ UNCHANGED healed
SuspectAgain(f) == Goto(f, "heallist") /\ UNCHANGED healed

\* errCacheSuspect: one self-heal round, then it is fatal.
Suspect(f) ==
    /\ Goto(f, IF healed[f] THEN "failed" ELSE "heallist")
    /\ healed' = [healed EXCEPT ![f] = TRUE]

Plan(f) ==
    /\ pc[f] = "plan"
    /\ LET wanted == Missing(f, local \cup AltObjects(f))
       IN \/ wanted = {} /\ Goto(f, "check") /\ UNCHANGED <<plan, healed>>
          \/ /\ \E o \in wanted : Fresh(f, o) = {}
             /\ Suspect(f)
             /\ UNCHANGED plan
          \/ /\ wanted # {} /\ \A o \in wanted : Fresh(f, o) # {}
             /\ plan' = [plan EXCEPT ![f] = GreedyCover(f, wanted)]
             /\ Goto(f, "download")
             /\ UNCHANGED healed
    /\ UNCHANGED <<shared, stems, side, claims, todo, alt, kept, hit>>

HealList(f) ==
    /\ pc[f] = "heallist"
    /\ stems' = [stems EXCEPT ![f] = listed]
    /\ todo' = [todo EXCEPT ![f] = listed]
    /\ Goto(f, IF listed = {} THEN "failed" ELSE "heal")
    /\ UNCHANGED <<shared, side, claims, plan, alt, healed, kept, hit>>

\* The pack's checksum is its name.
Named(p) == remote.pack[p] = p

\* (Mutant) index-pack without --verify looks at the pack alone.
VerifiedPack(p, idx) == remote.pack[p] \in Packs

\* index-pack --verify, when it gets that far.
Verified(p, idx) == remote.pack[p] \in Packs /\ idx = remote.pack[p]

\* (Mutant) The plan is not told of what was published.
PublishUnplanned(f, p, rest) ==
    /\ alt' = [alt EXCEPT ![f][p] = [pack |-> remote.pack[p], idx |-> Read(f, p)]]
    /\ plan' = plan
    /\ Goto(f, IF rest = {} THEN "plan" ELSE "download")

\* publishPair, and what is left of the plan.
Publish(f, p, rest) ==
    /\ alt' = [alt EXCEPT ![f][p] = [pack |-> remote.pack[p], idx |-> Read(f, p)]]
    /\ plan' = [plan EXCEPT ![f] = rest]
    /\ Goto(f, IF rest = {} THEN "plan" ELSE "download")

\* A call that fails, a pack that is not what its name says or an index that
\* cannot be copied are suspicious; a pair that fails its verification, for
\* whatever reason, gets a fresh index.
Download(f, p) ==
    /\ pc[f] = "download"
    /\ First(p, plan[f])
    /\ \/ /\ ~Named(p) \/ Read(f, p) = NoFile
          /\ Suspect(f) /\ plan' = [plan EXCEPT ![f] = {}]
          /\ UNCHANGED <<alt, hit>>
       \/ /\ Suspect(f) /\ plan' = [plan EXCEPT ![f] = {}]
          /\ hit' = [hit EXCEPT ![f] = @ \cup {"call"}]
          /\ UNCHANGED alt
       \/ /\ Named(p) /\ Verified(p, Read(f, p))
          /\ Publish(f, p, plan[f] \ {p})
          /\ UNCHANGED <<healed, hit>>
       \/ /\ Named(p) /\ Read(f, p) # NoFile
          /\ Goto(f, "pair")
          /\ UNCHANGED <<plan, alt, healed, hit>>
    /\ UNCHANGED <<shared, stems, side, claims, todo, kept>>

\* The second half of downloadAndVerifyPack, with a fresh index and the map
\* rebuilt: the pair is verified again, and the round ends.
Repair(f, p) ==
    /\ pc[f] = "repair"
    /\ Unread(f) = {}
    /\ First(p, plan[f])
    /\ \/ Verified(p, Read(f, p)) /\ Publish(f, p, {})
       \/ ~Verified(p, Read(f, p)) /\ Goto(f, "failed") /\ UNCHANGED <<plan, alt>>
    /\ UNCHANGED <<shared, stems, side, claims, todo, healed, kept, hit>>

-----------------------------------------------------------------------------
(* After discovery. *)

Check(f) ==
    /\ pc[f] = "check"
    /\ Goto(f, IF ~Complete(f, local \cup AltObjects(f)) THEN "failed"
               ELSE IF Closure(f) \subseteq refd THEN "uptodate" ELSE "install")
    /\ UNCHANGED <<shared, stems, side, claims, todo, plan, alt, healed, kept, hit>>

NewObjects(f) == Closure(f) \ refd

\* pack-objects fails on an object that is nowhere.
CanPack(f, objects) == objects \subseteq local \cup AltObjects(f)

\* consolidateAndInstall: one pack of what no local ref reaches, then its .keep.
Install(f) ==
    /\ pc[f] = "install"
    /\ \/ CanPack(f, NewObjects(f)) /\ local' = local \cup NewObjects(f) /\ Goto(f, "keep")
       \/ ~CanPack(f, NewObjects(f)) /\ Goto(f, "failed") /\ UNCHANGED local
    /\ UNCHANGED <<remote, listed, cache, refd, stems, side, claims, todo, plan, alt, healed, kept, hit>>

\* (Mutant) The pack is installed without its .keep.
KeepNone(f) ==
    /\ pc[f] = "keep"
    /\ Goto(f, "done")
    /\ UNCHANGED <<shared, stems, side, claims, todo, plan, alt, healed, kept, hit>>

Keep(f) ==
    /\ pc[f] = "keep"
    /\ kept' = [kept EXCEPT ![f] = TRUE]
    /\ Goto(f, "done")
    /\ UNCHANGED <<shared, stems, side, claims, todo, plan, alt, healed, hit>>

\* A process that has ended knows nothing any more.
Forget(f) ==
    /\ stems' = [stems EXCEPT ![f] = {}]
    /\ side' = [side EXCEPT ![f] = [p \in Packs |-> "own"]]
    /\ todo' = [todo EXCEPT ![f] = {}]
    /\ plan' = [plan EXCEPT ![f] = {}]
    /\ Unmapped(f)

\* A call whose failure is fatal, wherever it is.
Trouble(f) ==
    /\ ~Over(f)
    /\ Goto(f, "failed")
    /\ hit' = [hit EXCEPT ![f] = @ \cup {"call"}]
    /\ Forget(f)
    /\ UNCHANGED <<shared, alt, healed, kept>>

Die(f) ==
    /\ ~Over(f) /\ pc[f] # "start"
    /\ Goto(f, "dead")
    /\ Forget(f)
    /\ UNCHANGED <<shared, alt, healed, kept, hit>>

-----------------------------------------------------------------------------
(* Around the fetchers. *)

\* A push completes a pair.
PairLands(p) ==
    /\ p \in remote.coming \ listed
    /\ listed' = listed \cup {p}
    /\ UNCHANGED <<remote, cache, local, refd, pc, stems, side, claims, todo, plan, alt,
                   healed, kept, hit>>

\* git, told that all is there, updates its refs and removes the .keep.
GitUpdates(f) ==
    /\ pc[f] \in {"uptodate", "done"}
    /\ refd' = IF Closure(f) \subseteq local THEN refd \cup Closure(f) ELSE refd
    /\ kept' = [kept EXCEPT ![f] = FALSE]
    /\ Goto(f, "end")
    /\ UNCHANGED <<remote, listed, cache, local, stems, side, claims, todo, plan, alt, healed, hit>>

\* What a collection means to f: objects that it had found and has not packed
\* yet, or that nothing protects: in the window before the .keep, or when f
\* brought nothing.
Loss(f) ==
    CASE pc[f] \in {"check", "install"} -> {"gc"}
      [] pc[f] \in {"keep", "uptodate"} -> {"gap"}
      [] OTHER -> {}

\* git gc takes what no ref reaches and no .keep protects.
Gc ==
    LET left == local \cap (refd \cup UNION {Closure(f) : f \in {g \in Fetchers : kept[g]}})
    IN /\ local' = left
       /\ hit' = [f \in Fetchers |->
                     IF (local \ left) \cap Closure(f) # {} THEN hit[f] \cup Loss(f) ELSE hit[f]]
       /\ UNCHANGED <<remote, listed, cache, refd, pc, stems, side, claims, todo, plan, alt,
                      healed, kept>>

-----------------------------------------------------------------------------
Step(f) ==
    \/ Begin(f) \/ List(f) \/ Prune(f) \/ Rebuild(f) \/ MapDone(f) \/ Plan(f) \/ HealList(f)
    \/ Check(f) \/ Install(f) \/ Keep(f)
    \/ \E p \in Packs : \/ Ensure(f, p) \/ Show(f, p) \/ Evict(f, p) \/ Refresh(f, p)
                        \/ ReadIndex(f, p) \/ Download(f, p) \/ Repair(f, p)

Next ==
    \/ \E f \in Fetchers : Step(f) \/ Trouble(f) \/ Die(f) \/ GitUpdates(f)
    \/ \E p \in Packs : PairLands(p)
    \/ Gc

Spec == Init /\ [][Next]_vars

-----------------------------------------------------------------------------
(* Properties. *)

\* The remote has what f wants, in pairs that are what their names say.
Serves(f) ==
    /\ \A p \in remote.first \cup remote.coming : remote.pack[p] = p /\ remote.idx[p] = p
    /\ Closure(f) \subseteq UNION {Holds[p] : p \in remote.first}

(***************************************************************************)
(* Whatever is in the cache, however stale or false, a fetch from a sound  *)
(* remote fails only if a call failed, if git collected objects that it    *)
(* had found, or if another fetch took an index away that it had found in  *)
(* the cache (fetch.go, the self-heal round and the pair refresh).         *)
(***************************************************************************)
FailsOnlyForCause == \A f \in Fetchers : pc[f] = "failed" /\ Serves(f) => hit[f] # {}

(***************************************************************************)
(* What the design says of the cache: trouble with it never is trouble for *)
(* the fetch (idxcache.go EnsureSidecar), also if another fetch causes it. *)
(***************************************************************************)
CacheTroubleStaysOut ==
    \A f \in Fetchers : pc[f] = "failed" /\ Serves(f) => hit[f] \cap {"call", "gc"} # {}

(***************************************************************************)
(* connectivity-ok is true: all that git asked for is in the local store   *)
(* when Fetch returns and stays there until git has updated its refs       *)
(* (fetch.go Fetch, consolidateAndInstall).  Only what nothing protects    *)
(* yet may go: between the pack's arrival and its .keep, and if Fetch      *)
(* brought nothing because all was there, though no ref reached it.  Once  *)
(* the .keep is written no collection is an excuse.                        *)
(***************************************************************************)
VouchedIsThere ==
    \A f \in Fetchers :
        pc[f] \in {"uptodate", "done"} => Closure(f) \subseteq local \/ "gap" \in hit[f]

(***************************************************************************)
(* Only a pack that is what its name says, with the index that is its own, *)
(* leaves the quarantine (fetch.go downloadAndVerifyPack), however cache   *)
(* and remote lie, and although other fetches change the cache meanwhile.  *)
(***************************************************************************)
OnlyVerifiedPublished ==
    \A f \in Fetchers, p \in Packs : alt[f][p] \in {NoPair, [pack |-> p, idx |-> p]}

(***************************************************************************)
(* A fetch comes to an end, whatever other fetches do to the cache: the    *)
(* discovery loop starts over only after it published one more pack or     *)
(* spent its only heal, and neither is ever undone (fetch.go Fetch).       *)
(***************************************************************************)
StartsOver(f) ==
    /\ pc[f] \in {"plan", "download", "repair"}
    /\ pc'[f] \in {"plan", "heallist"} /\ pc'[f] # pc[f]

RoundsBounded ==
    [][\A f \in Fetchers :
          /\ Published(f) \subseteq Published(f)'
          /\ healed[f] => healed'[f]
          /\ StartsOver(f) => \/ Published(f)' # Published(f)
                              \/ healed'[f] /\ ~healed[f]]_vars
=============================================================================
